------------------------------- MODULE Pstree -------------------------------
(***************************************************************************)
(* pstree/pstree.c: the tree of the processes in /proc.  The directory is  *)
(* read first, then one stat file after the other, while processes start   *)
(* others, and end, and their children pass to process 1.                  *)
(***************************************************************************)
EXTENDS Integers, SequencesExt

CONSTANTS
    Families,       \* the processes at the start: [pid -> [ppid, comm]]
    Newborn,        \* the pids that may be given out later
    Names           \* other entries of /proc

NULL == 0           \* the records are numbered from 1

VARIABLES
    alive,          \* the processes that run: [pid -> [ppid, comm]]
    unborn,         \* the pids not given out yet
    unread,         \* entries of /proc not read yet
    procs,          \* the records: [pid, child, bros, name], one unused behind them
    seen,           \* history: what each stat file said: [ppid, comm], and
                    \* of a file that was empty [0, <<>>]
    at,             \* the record whose stat file comes next
    opt,            \* the options given
    calls,          \* calls of P: [r, depth], the next one on top
    printed,        \* what was printed: [name, pid, depth]
    state           \* "readdir", "stat", "read" with a file open, "print", "exit" or "abort"

pstreeVars == <<alive, unborn, unread, procs, seen, at, opt, calls, printed, state>>

Record(q) == [pid |-> q, child |-> NULL, bros |-> NULL, name |-> <<>>]

PstreeInit ==
    /\ alive \in Families /\ unborn \in SUBSET Newborn
    /\ unread = (DOMAIN alive) \cup Names
    /\ procs = <<>> /\ seen = <<>> /\ at = 1
    /\ opt \in [p : BOOLEAN, v : BOOLEAN]
    /\ calls = <<>> /\ printed = <<>>
    /\ state = "readdir"

Running == state \in {"readdir", "stat", "read"}

\* /proc lists its other entries first, then the processes by their numbers.
NextEntry(d) == /\ d \in unread
                /\ d \in Names \/ (unread \cap Names = {} /\ \A q \in unread : d <= q)
Passed(pid) == state # "readdir" \/ (procs # <<>> /\ pid < Last(procs).pid)

\* A process starts another, which is found in /proc if its number comes later.
Born(parent, pid) ==
    /\ Running /\ parent \in DOMAIN alive /\ pid \in unborn
    /\ alive' = (pid :> [ppid |-> parent, comm |-> alive[parent].comm]) @@ alive
    /\ unborn' = unborn \ {pid}
    /\ unread' = IF Passed(pid) THEN unread ELSE unread \cup {pid}
    /\ UNCHANGED <<procs, seen, at, opt, calls, printed, state>>

\* A process other than 1 ends; 1 adopts its children.
Exit(pid) ==
    /\ Running
    /\ pid \in (DOMAIN alive) \ {1}
    /\ alive' = [q \in (DOMAIN alive) \ {pid} |->
                    IF alive[q].ppid = pid THEN [alive[q] EXCEPT !.ppid = 1] ELSE alive[q]]
    /\ unread' = unread \ {pid}
    /\ UNCHANGED <<unborn, procs, seen, at, opt, calls, printed, state>>

\* The first loop of init: the entries that are numbers.
ReadDir(d) ==
    /\ state = "readdir" /\ NextEntry(d)
    /\ unread' = unread \ {d}
    /\ procs' = IF d \in Names THEN procs
                ELSE Append(procs, Record(d))
    /\ UNCHANGED <<alive, unborn, seen, at, opt, calls, printed, state>>

EndOfDir ==
    /\ state = "readdir" /\ unread = {}
    /\ state' = "stat"
    /\ procs' = Append(procs, Record(0))    \* procs is an array of zeros
    /\ UNCHANGED <<alive, unborn, unread, seen, at, opt, calls, printed>>

\* The stat file, "pid (comm) state ppid ...", as a sequence of characters; a
\* pid is one digit.
StatFile(q) == <<ToString(q), "(">> \o alive[q].comm \o <<")", "S", ToString(alive[q].ppid), "0">>
Number(ch) == CHOOSE k \in 0 .. 9 : ToString(k) = ch

\* The name goes from the first ( to the first ), without any ( in it.
Name(text) ==
    LET from == SelectInSeq(text, LAMBDA c : c = "(")
        to == SelectInSeq(text, LAMBDA c : c = ")")
    IN  SelectSeq(SubSeq(text, from, to), LAMBDA c : c \notin {"(", ")"})

\* Fault: the number behind the parent's is taken.
Ppid_Last(text) == Number(Last(text))

\* The first number after that ) is taken for the parent's.
Ppid(text) ==
    LET rest == SubSeq(text, SelectInSeq(text, LAMBDA c : c = ")") + 1, Len(text))
    IN  Number(rest[SelectInSeq(rest, LAMBDA c : \E k \in 0 .. 9 : c = ToString(k))])

num == Len(procs) - 1

\* The record of a process, or the unused one behind the last.
Find(q) == IF \E x \in 1 .. num : procs[x].pid = q
           THEN SelectInSeq(procs, LAMBDA r : r.pid = q) ELSE num + 1

RECURSIVE LastOf(_)
LastOf(x) == IF procs[x].bros = NULL THEN x ELSE LastOf(procs[x].bros)

\* The second loop of init, record at: the stat file of a process that ended
\* cannot be opened.
OpenStat ==
    /\ state = "stat" /\ at <= num
    /\ state' = IF procs[at].pid \in DOMAIN alive THEN "read" ELSE "abort"
    /\ UNCHANGED <<alive, unborn, unread, procs, seen, at, opt, calls, printed>>

\* The record gets its name, and its place as the last child of its parent.
Linked(name, ppid) ==
    LET named == [procs EXCEPT ![at].name = name]
        idx == Find(ppid)
    IN  IF procs[idx].child = NULL THEN [named EXCEPT ![idx].child = at]
        ELSE [named EXCEPT ![LastOf(procs[idx].child)].bros = at]

\* The first fgetc reads the whole file into the buffer of the stream; the file
\* of a process that ended after it was opened is empty, no name and 0.
ReadStat ==
    /\ state = "read"
    /\ LET lives == procs[at].pid \in DOMAIN alive
           text == StatFile(procs[at].pid)
       IN  /\ procs' = IF lives THEN Linked(Name(text), Ppid(text)) ELSE Linked(<<>>, 0)
           /\ seen' = Append(seen, IF lives THEN alive[procs[at].pid] ELSE [ppid |-> 0, comm |-> <<>>])
    /\ at' = at + 1 /\ state' = "stat"
    /\ UNCHANGED <<alive, unborn, unread, opt, calls, printed>>

root == SelectInSeq(procs, LAMBDA r : r.pid = 1)

StartPrint ==
    /\ state = "stat" /\ at > num
    /\ state' = "print" /\ calls' = <<[r |-> root, depth |-> 1]>>
    /\ UNCHANGED <<alive, unborn, unread, procs, seen, at, opt, printed>>

RECURSIVE Brothers(_)
Brothers(x) == IF x = NULL THEN <<>> ELSE <<x>> \o Brothers(procs[x].bros)

\* P of one record: itself, then its children one step further in.
P ==
    /\ state = "print" /\ calls # <<>>
    /\ UNCHANGED <<alive, unborn, unread, procs, seen, at, opt, state>>
    /\ LET c == Head(calls)
           kids == Brothers(procs[c.r].child)
       IN  IF opt.v THEN printed' = <<[version |-> TRUE]>> /\ calls' = Tail(calls)
           ELSE /\ printed' = Append(printed, [name |-> procs[c.r].name, depth |-> c.depth,
                                               pid |-> IF opt.p THEN procs[c.r].pid ELSE NULL])
                /\ calls' = [k \in DOMAIN kids |-> [r |-> kids[k], depth |-> c.depth + 1]] \o Tail(calls)

Finish ==
    /\ state = "print" /\ calls = <<>>
    /\ state' = "exit"
    /\ UNCHANGED <<alive, unborn, unread, procs, seen, at, opt, calls, printed>>

PstreeNext ==
    \/ \E q \in DOMAIN alive : Exit(q)
    \/ \E parent \in DOMAIN alive, q \in unborn : Born(parent, q)
    \/ \E d \in unread : ReadDir(d)
    \/ EndOfDir \/ OpenStat \/ ReadStat \/ StartPrint \/ P \/ Finish
-----------------------------------------------------------------------------

Recorded == 1 .. num

\* The records in S and below, by what their stat files said.
RECURSIVE Family(_)
Family(S) == LET more == {x \in Recorded : \E y \in S : seen[x].ppid = procs[y].pid} \ S
             IN  IF more = {} THEN S ELSE Family(S \cup more)

\* The records that hang nowhere: kernel threads, whose parent is 0; those
\* that ended after their file was opened; those whose parent has no record,
\* because it was started after /proc was read.
CutOff == {x \in Recorded \ {root} : seen[x].ppid \notin {procs[y].pid : y \in Recorded}}
Shown == Recorded \ Family(CutOff)

\* The line over line k that is one step further out.
Above(k) == CHOOSE j \in 1 .. k - 1 : /\ printed[j].depth < printed[k].depth
                                      /\ \A i \in j + 1 .. k - 1 : printed[i].depth >= printed[k].depth

(* Whatever starts and ends while /proc is read, a run of pstree that is   *)
(* not aborted prints every process it found once, one step in under the   *)
(* parent its stat file named when it was read, except those cut off and   *)
(* what is below them (pstree.c:34-137).  A process that ends before its   *)
(* file is opened aborts the run (line 111).  One that ends between the    *)
(* opening and the reading does not: its record gets no name and no parent,*)
(* and those of its children that were read while it ran are missing with  *)
(* it, although they live on.                                              *)
(* Names with a ) in them are not claimed, as what follows it is taken for *)
(* the parent (line 86), nor machines with more than 999 processes, for    *)
(* which procs has no room.                                                *)
TreePrinted ==
    state = "exit" /\ ~opt.v =>
        /\ Len(printed) = Cardinality(Shown)
        /\ opt.p => \A x \in Shown :
              \E k \in DOMAIN printed :
                 /\ printed[k].pid = procs[x].pid
                 /\ printed[k].name = SelectSeq(seen[x].comm, LAMBDA c : c # "(")
                 /\ x # root => printed[Above(k)].pid = seen[x].ppid
=============================================================================
