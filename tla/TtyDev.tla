------------------------------- MODULE TtyDev -------------------------------
(***************************************************************************)
(* The terminals of kernel/src/dev/dev_tty.c and the frame buffer they     *)
(* draw on, kernel/src/dev/dev_video.c.                                    *)
(*                                                                         *)
(* A terminal keeps a grid of characters with a cursor, the cells that are *)
(* dirty, and the cooked line queue.  Its lock is a semaphore; a write     *)
(* takes it twice, to change the grid and to render the dirty cells.       *)
(***************************************************************************)
EXTENDS Integers, Sequences, FiniteSets, KlibString

CONSTANTS
    Tty,                \* the terminals; tty t is on display t - 1
    Lines, Columns,
    TTY_COOK_BUF_SZ,
    Fresh,              \* what pmm->alloc leaves in the cook buffer
    WelcomeText,
    Writer              \* the tasks that write to a terminal

ASSUME TtyAssumption ==
    /\ Lines \in Nat \ {0} /\ Columns \in Nat \ {0}
    /\ TTY_COOK_BUF_SZ \in Nat \ {0}
    /\ Fresh \in Int /\ WelcomeText \in Seq(Int)

Size == Lines * Columns
Cell == 0 .. Size - 1
NUL == 0
BS == 8
NL == 10
CR == 13
Cursor == 219           \* the block drawn at the cursor
Unset == -1             \* a cell of the screen nothing was drawn on

VARIABLES
    tty,            \* [Tty -> tty_t]
    current,        \* fb->info->current, as the terminal on that display
    screen,         \* [Cell -> what was last drawn there]
    show_cursor,
    write,          \* [Writer -> the tty_write the task is in]
    lost            \* history: a redraw mark was cleared without being drawn

ttyVars == <<tty, current, screen, show_cursor, write, lost>>

-----------------------------------------------------------------------------
(* The line queue.                                                         *)

Next1(i) == (i + 1) % TTY_COOK_BUF_SZ

tty_enqueue(q, ch) ==
    [q EXCEPT !.buf = [@ EXCEPT ![q.rear] = ch, ![Next1(q.rear)] = NUL],
              !.rear = Next1(@)]

Full(q) == Next1(q.rear) = q.front

LastPos(q) == (q.rear - 1) % TTY_COOK_BUF_SZ

\* Fault: the end of the queue is the only limit.
CanPop_Empty(q) == q.rear # q.front

CanPop(q) == q.buf[LastPos(q)] # NUL

tty_pop_back(q) == [q EXCEPT !.buf[LastPos(q)] = NUL, !.rear = LastPos(q)]

\* The bytes from front up to the terminator, and the queue after them.
LineLen(q) ==
    CHOOSE k \in 0 .. TTY_COOK_BUF_SZ :
        /\ q.buf[(q.front + k) % TTY_COOK_BUF_SZ] = NUL
        /\ \A i \in 0 .. k - 1 : q.buf[(q.front + i) % TTY_COOK_BUF_SZ] # NUL

Line(q, count) ==
    [i \in {j \in 1 .. LineLen(q) : j <= count} |-> q.buf[(q.front + i - 1) % TTY_COOK_BUF_SZ]]

SkipLine(q) == [q EXCEPT !.front = (@ + LineLen(q) + 1) % TTY_COOK_BUF_SZ]

-----------------------------------------------------------------------------
(* The grid: T is a tty_t.                                                 *)

Mark(T, cells) == [T EXCEPT !.dirty = @ \cup cells]

\* tty_mark of cells of terminal t by a task without the lock of t: if another
\* task is between its scan and its memset, the marks may be lost.
MarkUnlocked(t, cells) ==
    /\ tty' = [tty EXCEPT ![t] = Mark(@, cells)]
    /\ lost' = (lost \/ \E p \in Writer : /\ write[p].tty = t
                                         /\ write[p].pc \in {"draw", "clear"})

\* Fault: only the cursor's own cell is marked.
LineOf_Cell(c) == {c}

LineOf(c) == {d \in Cell : d \div Columns = c \div Columns}

\* klib's memmove on the cells; both callers mark every cell afterwards.
tty_upd_scrollup(T) ==
    LET c == T.cursor - Columns
        moved == memmove(T.buf, 0, Columns, Columns * (Lines - 1))
    IN  [T EXCEPT !.buf = memset(moved, c, NUL, Columns), !.cursor = c,
                  !.dirty = Cell]

tty_putc(T, ch) ==
    LET cr == T.cursor - (T.cursor % Columns)
        at(c) == [T EXCEPT !.cursor = c]
        back == IF T.cursor > 0
                THEN [T EXCEPT !.cursor = @ - 1, !.buf[T.cursor - 1] = NUL]
                ELSE T
        put == [T EXCEPT !.buf[T.cursor] = ch, !.cursor = @ + 1]
    IN  CASE ch = CR -> Mark(at(cr), LineOf(cr))
          [] ch = BS -> Mark(back, {back.cursor, back.cursor + 1})
          [] ch = NL -> IF cr + Columns = Size
                        THEN tty_upd_scrollup(at(cr + Columns))
                        ELSE Mark(at(cr + Columns), LineOf(cr) \cup LineOf(cr + Columns))
          [] OTHER   -> IF put.cursor = Size THEN tty_upd_scrollup(put)
                        ELSE Mark(put, {T.cursor, put.cursor})

Puts(T, s) ==
    LET after[i \in 0 .. Len(s)] == IF i = 0 THEN T ELSE tty_putc(after[i - 1], s[i])
    IN  after[Len(s)]

\* The character cell c of T is drawn with.
Drawn(T, c) == IF c = T.cursor /\ show_cursor THEN Cursor ELSE T.buf[c]

-----------------------------------------------------------------------------

NoWrite == [pc |-> "idle", tty |-> 1, data |-> <<>>, sprites |-> <<>>]

tty_init ==
    [lock |-> 1, cooked |-> 0, cursor |-> 0, dirty |-> {},
     buf |-> [c \in Cell |-> NUL],
     q |-> [buf |-> [i \in 0 .. TTY_COOK_BUF_SZ - 1 |-> Fresh], front |-> 0, rear |-> 0]]

\* dev_init runs before any task: the welcome text of both is written and
\* rendered, and display 0 is the current one.
TtyInit ==
    LET welcomed == Puts(tty_init, WelcomeText)
    IN  /\ show_cursor = TRUE
        /\ tty = [t \in Tty |-> [welcomed EXCEPT !.dirty = {}]]
        /\ current = 1
        /\ screen = [c \in Cell |-> IF c \in welcomed.dirty THEN Drawn(welcomed, c)
                                                            ELSE Unset]
        /\ write = [p \in Writer |-> NoWrite]
        /\ lost = FALSE

-----------------------------------------------------------------------------
(* tty_write, and tty_render at its end.                                   *)

\* Task p calls tty_write(t, s), or only tty_render (pc = "scan").
Call(p, t, s, start) ==
    /\ write[p].pc = "idle"
    /\ write' = [write EXCEPT ![p] = [NoWrite EXCEPT !.pc = start, !.tty = t, !.data = s]]

At(p, pc) == write[p].pc = pc

\* Task p goes from its step to the next, with its terminal left as T.
Step(p, T, pc) ==
    /\ tty' = [tty EXCEPT ![write[p].tty] = T]
    /\ write' = [write EXCEPT ![p].pc = pc]
    /\ UNCHANGED <<current, show_cursor>>

Its(p) == tty[write[p].tty]

WriteLock(p) ==
    /\ At(p, "lock") /\ Its(p).lock > 0
    /\ Step(p, [Its(p) EXCEPT !.lock = @ - 1], "put")
    /\ UNCHANGED <<screen, lost>>

WritePut(p) ==
    /\ At(p, "put")
    /\ Step(p, [Puts(Its(p), write[p].data) EXCEPT !.lock = @ + 1], "scan")
    /\ UNCHANGED <<screen, lost>>

\* The sprites of the dirty cells, taken under the lock.
RenderScan(p) ==
    /\ At(p, "scan") /\ Its(p).lock > 0
    /\ tty' = [tty EXCEPT ![write[p].tty].lock = @ - 1]
    /\ write' = [write EXCEPT ![p].pc = "draw",
                     ![p].sprites = [c \in Its(p).dirty |-> Drawn(Its(p), c)]]
    /\ UNCHANGED <<current, show_cursor, screen, lost>>

\* fb_write of sprites: only those of the current display are drawn.  fb_sem
\* is taken and given back in this step.
RenderDraw(p) ==
    /\ At(p, "draw")
    /\ screen' = IF write[p].tty = current
                 THEN [c \in Cell |-> IF c \in DOMAIN write[p].sprites
                                      THEN write[p].sprites[c] ELSE screen[c]]
                 ELSE screen
    /\ Step(p, Its(p), "clear")
    /\ UNCHANGED <<lost>>

\* The memset of the marks, which also forgets those made since the scan.
RenderClear(p) ==
    /\ At(p, "clear")
    /\ tty' = [tty EXCEPT ![write[p].tty].dirty = {}, ![write[p].tty].lock = @ + 1]
    /\ write' = [write EXCEPT ![p] = NoWrite]
    /\ UNCHANGED <<current, show_cursor, screen, lost>>

WriteStep(p) ==
    WriteLock(p) \/ WritePut(p) \/ RenderScan(p) \/ RenderDraw(p) \/ RenderClear(p)
=============================================================================
