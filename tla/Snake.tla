-------------------------------- MODULE Snake -------------------------------
(***************************************************************************)
(* amgame: a snake of segments, each a straight row of tiles.  One frame   *)
(* erases the snake, handles a key event or moves on, and draws it again.  *)
(* Positions are in pixels; the screen is the set of white pixels.         *)
(***************************************************************************)
EXTENDS Integers, SequencesExt

CONSTANTS
    w, h,           \* the screen
    SIDE, LEN,      \* the side of a tile, the length of the snake in tiles
    MaxFrames       \* bound on the frames played

VARIABLES
    segs,           \* from end (the tail) to beg (the head)
    frame,          \* frames played
    screen,         \* white pixels, those off the screen included
    code            \* what the program halted with, 0 while it runs

snakeVars == <<segs, frame, screen, code>>

Across == 1
Forward == 1

beg == Last(segs)

\* The rectangle draw_seg paints.
Tiles(s) ==
    LET from == IF s.towards = Forward THEN s.st ELSE s.st - s.len * SIDE
        along == from .. from + s.len * SIDE - 1
        beside == s.another .. s.another + SIDE - 1
    IN  IF s.status = Across THEN along \X beside ELSE beside \X along

screen_update(pixels, ss, white) ==
    LET drawn == UNION {Tiles(ss[k]) : k \in DOMAIN ss}
    IN  IF white THEN pixels \cup drawn ELSE pixels \ drawn

splash_init ==
    [st |-> w \div 2, len |-> LEN, status |-> Across, towards |-> Forward, another |-> h \div 2]

SnakeInit ==
    /\ segs = <<splash_init>>
    /\ frame = 0
    /\ screen = Tiles(splash_init)
    /\ code = 0

\* Fault: an empty segment stays a frame longer.
logic_for_end_Late(ss) ==
    LET e == [Head(ss) EXCEPT !.len = @ - 1]
    IN  IF e.len < 0 THEN Tail(ss)
        ELSE <<[e EXCEPT !.st = IF e.towards = Forward THEN @ + SIDE ELSE @ - SIDE]>> \o Tail(ss)

\* The tail gives up a tile, and with its last one its segment.
logic_for_end(ss) ==
    LET e == [Head(ss) EXCEPT !.len = @ - 1]
    IN  IF e.len <= 0 THEN Tail(ss)
        ELSE <<[e EXCEPT !.st = IF e.towards = Forward THEN @ + SIDE ELSE @ - SIDE]>> \o Tail(ss)

\* Each frame: black, then the game, then white; a dead snake stays black.
Frame(ss) ==
    /\ segs' = ss /\ code' = 0
    /\ screen' = screen_update(screen_update(screen, segs, FALSE), ss, TRUE)
dead(x) ==
    /\ code' = x /\ UNCHANGED segs
    /\ screen' = screen_update(screen, segs, FALSE)

Uptime == code = 0 /\ frame < MaxFrames /\ frame' = frame + 1

Reach == IF beg.towards = Forward THEN beg.st + SIDE * (beg.len + 1) ELSE beg.st - SIDE * (beg.len + 1)

\* No key: the walls in the order they are tested, then one tile on.
Advance ==
    /\ Uptime
    /\ IF beg.towards # Forward /\ Reach < 0 THEN dead(2)
       ELSE IF beg.towards = Forward /\ beg.status = Across /\ Reach > w THEN dead(3)
       ELSE IF beg.towards = Forward /\ beg.status # Across /\ Reach > h THEN dead(4)
       ELSE IF Len(segs) = 1
       THEN Frame(<<[beg EXCEPT !.st = IF beg.towards = Forward THEN @ + SIDE ELSE @ - SIDE]>>)
       ELSE Frame(logic_for_end([segs EXCEPT ![Len(segs)].len = @ + 1]))

\* A new segment of one tile starts where the head's row ends.
new_seg_create(status, towards) ==
    LET tip == IF beg.towards = Forward THEN beg.st + beg.len * SIDE ELSE beg.st - beg.len * SIDE
        newseg == [st |-> beg.another, len |-> 1, status |-> status, towards |-> towards, another |-> tip]
    IN  IF towards # Forward /\ beg.another - SIDE < 0 THEN dead(5)
        ELSE IF towards = Forward /\ status = Across /\ beg.another + SIDE > w THEN dead(6)
        ELSE IF towards = Forward /\ status # Across /\ beg.another + SIDE > h THEN dead(7)
        ELSE Frame(logic_for_end(Append(segs, newseg)))

\* W, S, A and D turn a snake that runs the other way; any other key, and a
\* key that goes up, only redraws.
Key(status, towards) ==
    /\ Uptime
    /\ IF beg.status # status THEN new_seg_create(status, towards) ELSE Frame(segs)

OtherKey == Uptime /\ Frame(segs)

Escape == Uptime /\ dead(1)

SnakeNext ==
    \/ Advance \/ OtherKey \/ Escape
    \/ \E status, towards \in {0, 1} : Key(status, towards)
-----------------------------------------------------------------------------

Length(ss) == FoldLeft(LAMBDA n, s : n + s.len, 0, ss)
Tip(s) == IF s.towards = Forward THEN s.st + s.len * SIDE ELSE s.st - s.len * SIDE

(* Whatever is pressed, and while the tail passes through the corners, the *)
(* snake keeps its length, its segments are nonempty and each begins where *)
(* the one behind it ended, at a right angle (keyboard.c:35-117); and the  *)
(* screen shows the snake and no trail of it (video.c:49-93,               *)
(* keyboard.c:23-30).  That it stays on the screen is not claimed: a turn  *)
(* at the right or the lower wall tests the wall ahead only, and           *)
(* draws a row of tiles beside the screen.                                 *)
SnakeIntact ==
    /\ Length(segs) = LEN /\ \A k \in DOMAIN segs : segs[k].len > 0
    /\ \A k \in 1 .. Len(segs) - 1 :
         /\ segs[k].status # segs[k + 1].status
         /\ segs[k + 1].another = Tip(segs[k]) /\ segs[k + 1].st = segs[k].another
    /\ screen = IF code = 0 THEN screen_update({}, segs, TRUE) ELSE {}
=============================================================================
