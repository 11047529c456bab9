------------------------------- MODULE Console ------------------------------
(***************************************************************************)
(* The console: the devices dev_init makes (kernel/src/dev/dev.c), the two *)
(* tasks it starts, and tasks that read and write the terminals.           *)
(*                                                                         *)
(* The input task (InputDev) feeds the event ring; the terminal task reads *)
(* it, cooks lines for the readers, echoes, and blinks the cursor, marking *)
(* cells of a terminal whose lock it does not hold.                        *)
(***************************************************************************)
EXTENDS InputDev, TtyDev

CONSTANTS
    Program,            \* tasks that write Text to terminal 1, once
    Text,
    Reader,             \* tasks that read terminal 1, over and over
    Count               \* the size of a reader's buffer

TtyTask == "tty-task"

ASSUME ConsoleAssumption ==
    /\ Writer = Program \cup {TtyTask} /\ TtyTask \notin Program
    /\ Consumer = {TtyTask}
    /\ Tty = 1 .. 2
    /\ Text \in Seq(Int)

VARIABLES
    ttask,              \* the terminal task: [pc, ev, tty]
    reading,            \* the readers past the wait for a cooked line
    wrote,              \* the programs that have made their write
    cooked,             \* history: [Tty -> the characters cooked]
    lines               \* history: the lines the readers got

consoleVars == <<ttask, reading, wrote, cooked, lines>>
vars == <<inputVars, ttyVars, consoleVars>>

\* dev_init: the devices in order of the table, then the two tasks.
Init ==
    /\ InputInit /\ TtyInit
    /\ ttask = [pc |-> "boot", ev |-> NoEvent, tty |-> 1]
    /\ reading = {} /\ wrote = {}
    /\ cooked = [t \in Tty |-> <<>>]
    /\ lines = <<>>

-----------------------------------------------------------------------------
(* The terminal task; while it is in tty_write or tty_render it waits.     *)

TAt(pc) == ttask.pc = pc /\ write[TtyTask].pc = "idle"
Goto(pc) == ttask' = [ttask EXCEPT !.pc = pc]

fbVars == <<current, screen, show_cursor>>
ttyOnly == <<fbVars, lost>>

\* tty_mark_all and tty_render of the first terminal.
Boot ==
    /\ TAt("boot")
    /\ MarkUnlocked(1, Cell)
    /\ Call(TtyTask, 1, <<>>, "scan")
    /\ Goto("read")
    /\ UNCHANGED <<inputVars, fbVars, reading, wrote, cooked, lines>>

ReadWait ==
    /\ TAt("read")
    /\ PopWait(TtyTask)
    /\ UNCHANGED <<ttyVars, consoleVars>>

ReadTake ==
    /\ TAt("read")
    /\ PopTake(TtyTask)
    /\ ttask' = [ttask EXCEPT !.pc = "handle", !.ev = Popped]
    /\ UNCHANGED <<ttyVars, reading, wrote, cooked, lines>>

Next2 == CASE ttask.ev.data = 49 -> 1 [] ttask.ev.data = 50 -> 2 [] OTHER -> ttask.tty

\* Alt-1 or Alt-2: every cell of the other terminal is marked, without its lock.
Switch ==
    /\ TAt("handle") /\ ttask.ev.alt /\ Next2 # ttask.tty
    /\ ttask' = [ttask EXCEPT !.pc = "fbset", !.tty = Next2]
    /\ MarkUnlocked(Next2, Cell)
    /\ UNCHANGED <<inputVars, fbVars, write, reading, wrote, cooked, lines>>

Mine == tty[ttask.tty]

\* fb_write of the display information, then tty_write of nothing.  The marks
\* are lost if another task has rendered them for the old display.
FbSet ==
    /\ TAt("fbset")
    /\ current' = ttask.tty
    /\ lost' = \/ lost
                \/ Mine.dirty # Cell
                \/ \E p \in Program : write[p].tty = ttask.tty /\ write[p].pc = "clear"
    /\ Call(TtyTask, ttask.tty, <<>>, "lock")
    /\ Goto("after")
    /\ UNCHANGED <<inputVars, tty, screen, show_cursor, reading, wrote, cooked, lines>>

\* Ctrl only prints; a tick does nothing here.
NoCook ==
    /\ TAt("handle")
    /\ \/ ttask.ev.alt /\ Next2 = ttask.tty
       \/ ttask.ev.ctrl /\ ~ttask.ev.alt
       \/ ttask.ev = NoEvent
    /\ Goto("after")
    /\ UNCHANGED <<inputVars, ttyVars, reading, wrote, cooked, lines>>

\* Fault: a complete line is not announced.
tty_cook_NoSignal(q, ready) ==
    /\ tty' = [tty EXCEPT ![ttask.tty].q = q]
    /\ cooked' = [cooked EXCEPT ![ttask.tty] = Append(@, ttask.ev.data)]

\* tty_cook, under the lock: the queue q it leaves and the lines it readies.
tty_cook(q, ready) ==
    /\ tty' = [tty EXCEPT ![ttask.tty].q = q, ![ttask.tty].cooked = @ + ready]
    /\ cooked' = [cooked EXCEPT ![ttask.tty] = Append(@, ttask.ev.data)]

PanicIf(full) == panicked' = IF full THEN "tty queue full" ELSE ""
Echo == Call(TtyTask, ttask.tty, <<ttask.ev.data>>, "lock")

\* A plain character is cooked and, unless there was nothing to erase, echoed.
Cook ==
    /\ TAt("handle") /\ ttask.ev # NoEvent /\ ~ttask.ev.ctrl /\ ~ttask.ev.alt
    /\ Mine.lock > 0
    /\ LET ch == ttask.ev.data
           q == Mine.q
           q1 == tty_enqueue(q, ch)
       IN  \/ ch = NL /\ tty_cook(tty_enqueue(q1, NUL), 1) /\ PanicIf(Full(q) \/ Full(q1)) /\ Echo
           \/ ch = BS /\ CanPop(q) /\ tty_cook(tty_pop_back(q), 0) /\ PanicIf(FALSE) /\ Echo
           \/ ch = BS /\ ~CanPop(q) /\ tty_cook(q, 0) /\ PanicIf(FALSE) /\ UNCHANGED write
           \/ ch \notin {NL, BS} /\ tty_cook(q1, 0) /\ PanicIf(Full(q)) /\ Echo
    /\ Goto("after")
    /\ UNCHANGED <<pressed, kbd, sem_kbdirq, in, itask, ticks, taking, got,
                   current, screen, show_cursor, lost, reading, wrote, lines>>

\* After an event, or half a second after the last time, the cursor changes.
Blink ==
    /\ TAt("after")
    /\ \/ /\ show_cursor' = (~show_cursor \/ ttask.ev.data # 0)
          /\ Goto("mark")
       \/ /\ ttask.ev.data = 0
          /\ Goto("read")
          /\ UNCHANGED show_cursor
    /\ UNCHANGED <<inputVars, tty, current, screen, write, lost, reading, wrote, cooked, lines>>

\* The cell of the cursor is marked, without the lock, and nothing is written.
MarkCursor ==
    /\ TAt("mark")
    /\ MarkUnlocked(ttask.tty, {Mine.cursor})
    /\ Call(TtyTask, ttask.tty, <<>>, "lock")
    /\ Goto("read")
    /\ UNCHANGED <<inputVars, fbVars, reading, wrote, cooked, lines>>

dev_tty_task ==
    \/ Boot \/ ReadWait \/ ReadTake \/ Switch \/ FbSet \/ NoCook \/ Cook \/ Blink \/ MarkCursor
    \/ WriteStep(TtyTask) /\ UNCHANGED <<inputVars, consoleVars>>

-----------------------------------------------------------------------------

ProgramWrite(p) ==
    /\ p \notin wrote
    /\ wrote' = wrote \cup {p}
    /\ Call(p, 1, Text, "lock")
    /\ UNCHANGED <<inputVars, tty, ttyOnly, ttask, reading, cooked, lines>>

ProgramStep(p) ==
    /\ WriteStep(p)
    /\ UNCHANGED <<inputVars, consoleVars>>

\* tty_read waits for a cooked line, then for the lock.
ReadCooked(r) ==
    /\ r \notin reading /\ tty[1].cooked > 0
    /\ reading' = reading \cup {r}
    /\ tty' = [tty EXCEPT ![1].cooked = @ - 1]
    /\ UNCHANGED <<inputVars, ttyOnly, write, ttask, wrote, cooked, lines>>

\* What does not fit in the reader's buffer is dropped with the line.
ReadLine(r) ==
    /\ r \in reading /\ tty[1].lock > 0
    /\ reading' = reading \ {r}
    /\ tty' = [tty EXCEPT ![1].q = SkipLine(@)]
    /\ lines' = Append(lines, Line(tty[1].q, Count))
    /\ UNCHANGED <<inputVars, ttyOnly, write, ttask, wrote, cooked>>

Input == dev_input_task /\ UNCHANGED <<ttyVars, consoleVars>>
Keys == Keyboard /\ UNCHANGED <<ttyVars, consoleVars>>
Interrupt == input_notify /\ UNCHANGED <<ttyVars, consoleVars>>

Next ==
    /\ panicked = ""
    /\ \/ Keys \/ Input \/ dev_tty_task
       \/ \E p \in Program : ProgramWrite(p) \/ ProgramStep(p)
       \/ \E r \in Reader : ReadCooked(r) \/ ReadLine(r)

Spec == Init /\ [][Next]_vars

Running(Act) == panicked = "" /\ Act

\* Interrupts keep coming, and the scheduler runs every task that can run.
FairSpec ==
    /\ Spec
    /\ WF_vars(Running(Interrupt)) /\ WF_vars(Running(Input)) /\ WF_vars(Running(dev_tty_task))
    /\ \A p \in Program : WF_vars(Running(ProgramStep(p)))
    /\ \A r \in Reader : WF_vars(Running(ReadCooked(r) \/ ReadLine(r)))
-----------------------------------------------------------------------------

\* The lines the characters s make, erasing done: [done, rest].
Edited(s) ==
    LET after[i \in 0 .. Len(s)] ==
            IF i = 0 THEN [done |-> <<>>, rest |-> <<>>]
            ELSE LET e == after[i - 1]
                 IN  CASE s[i] = NL -> [done |-> Append(e.done, Append(e.rest, NL)),
                                        rest |-> <<>>]
                       [] s[i] = BS -> [e EXCEPT !.rest = SubSeq(@, 1, Len(@) - 1)]
                       [] OTHER     -> [e EXCEPT !.rest = Append(@, s[i])]
    IN  after[Len(s)]

(* The readers get the lines that were typed: each once, whole, in order   *)
(* and with what was erased left out, cut only to the reader's buffer, and *)
(* a line is announced exactly when it is complete (tty_cook and tty_read, *)
(* dev_tty.c:17-37 and 229-248), though the queue wraps and readers race.  *)
(* The only panics are those of a full ring and a full queue: no reader    *)
(* with a token finds the event ring empty (dev_input.c:34).               *)
LinesAsTyped ==
    LET typed == Edited(cooked[1]).done
        cut(l) == [i \in {j \in DOMAIN l : j <= Count} |-> l[i]]
    IN  /\ panicked \in {"", "input queue full", "tty queue full"}
        /\ panicked = "" =>
          /\ Len(lines) + tty[1].cooked + Cardinality(reading) = Len(typed)
          /\ lines = [i \in 1 .. Len(lines) |-> cut(typed[i])]

(* A cell of the current terminal that is not marked dirty is on the       *)
(* screen as the terminal has it, cursor included, unless a redraw mark    *)
(* was wiped by the memset of another task's render (dev_tty.c:115 against *)
(* the marks made without the lock at lines 276, 300 and 319); between the *)
(* change of show_cursor and the mark, the cursor's cell may still be old. *)
ScreenShowsTerminal ==
    LET T == tty[current]
    IN  ttask.pc # "boot" /\ ~lost =>
            \A c \in Cell \ T.dirty :
                \/ screen[c] = Drawn(T, c)
                \/ c = T.cursor /\ ttask.pc = "mark"

(* Unless the machine panics, all is served in the end: the terminal task  *)
(* reads every event the strokes mean, so none is left in the controller   *)
(* or the ring by an interrupt between the input task's last look and its  *)
(* wait (dev_input.c:192-200), and the readers get every complete line     *)
(* (tty_cook's signal and tty_read's wait, dev_tty.c:78 and 231).          *)
AllServed ==
    <>[](\/ panicked # ""
         \/ /\ got = Meaning(pressed)
            /\ Len(lines) = Len(Edited(cooked[1]).done))
=============================================================================
