--------------------------------- MODULE Gpu --------------------------------
(***************************************************************************)
(* The graphics of the x86 machine, abstract-machine/am/src/x86/qemu/      *)
(* ioe.c: drawing a rectangle into the frame buffer, clipped to it, and    *)
(* rendering a tree of canvases, each scaled into its place in its parent. *)
(* Memory is one array per picture: row y of width W starts at W * y.      *)
(***************************************************************************)
EXTENDS Integers, Sequences, FiniteSetsExt

CONSTANTS
    DispW, DispH,   \* the display
    VMEM_SIZE,      \* the pixels vbuf has room for
    Draws,          \* the rectangles drawn: [x, y, w, h, pixels]
    Roots           \* the canvas trees rendered

VARIABLES fb, head  \* the frame buffer; bytes of vbuf handed out
gpuVars == <<fb, head>>

Pixel == 0 .. DispW * DispH - 1
GpuInit == fb = [p \in Pixel |-> 0] /\ head = 0

\* Fault: rows that are too long go on in the next line of the display.
Visible_AllColumns(d) ==
    {<<i, j>> \in (0 .. d.w - 1) \X (0 .. d.h - 1) : d.y + j < DispH}

\* The columns are cut once, the rows one by one.
Visible(d) ==
    LET len == IF d.x + d.w >= DispW THEN DispW - d.x ELSE d.w
    IN  {<<i, j>> \in (0 .. len - 1) \X (0 .. d.h - 1) : d.y + j < DispH}

gpu_fbdraw(d) ==
    LET at(p) == p[1] + d.x + (p[2] + d.y) * DispW
    IN  /\ fb' = [q \in Pixel |->
                    IF \E p \in Visible(d) : at(p) = q
                    THEN LET p == CHOOSE p \in Visible(d) : at(p) = q
                         IN  d.pixels[d.w * p[2] + p[1]]
                    ELSE fb[q]]
        /\ UNCHANGED head

\* px, a picture of width W, with the w by h picture local of canvas cv drawn
\* over it: one pixel for each of the w1 * h1 it covers there.
Overlay(cv, px, W, local, w, h) ==
    LET cover == (0 .. cv.w1 - 1) \X (0 .. cv.h1 - 1)
        at(p) == W * (cv.y1 + p[2]) + cv.x1 + p[1]
    IN  [q \in DOMAIN px |->
            IF \E p \in cover : at(p) = q
            THEN LET p == CHOOSE p \in cover : at(p) = q
                 IN  local[w * ((p[2] * h) \div cv.h1) + ((p[1] * w) \div cv.w1)]
            ELSE px[q]]

\* render: a texture is its pixels; a subtree is a new, cleared picture with
\* the children drawn one over the other.  Result: [px, used].
RECURSIVE render(_, _, _, _)
render(cv, px, W, used) ==
    IF cv.type = "texture"
    THEN [px |-> Overlay(cv, px, W, cv.pixels, cv.w, cv.h), used |-> used]
    ELSE LET blank == [px |-> [q \in 0 .. cv.w * cv.h - 1 |-> 0], used |-> used + cv.w * cv.h]
             drawn[i \in 0 .. Len(cv.child)] ==
                 IF i = 0 THEN blank
                 ELSE render(cv.child[i], drawn[i - 1].px, cv.w, drawn[i - 1].used)
             local == drawn[Len(cv.child)]
         IN  [px |-> Overlay(cv, px, W, local.px, cv.w, cv.h), used |-> local.used]

\* gpu_render starts with all of vbuf free; the display is the root's parent.
\* vbuf_alloc panics before anything is drawn.
gpu_render(root) ==
    LET r == render(root, fb, DispW, 0) 
    IN  head' = r.used /\ fb' = IF r.used <= VMEM_SIZE THEN r.px ELSE fb

GpuNext == (\E d \in Draws : gpu_fbdraw(d)) \/ (\E r \in Roots : gpu_render(r))
-----------------------------------------------------------------------------

X(p) == p % DispW
Y(p) == p \div DispW

\* What canvas cv shows at x, y of its parent, or "none" outside of it: the
\* last child there that shows something, and 0 where there is no child.
RECURSIVE Shown(_, _, _)
Shown(cv, x, y) ==
    IF ~(x \in cv.x1 .. cv.x1 + cv.w1 - 1 /\ y \in cv.y1 .. cv.y1 + cv.h1 - 1) THEN -1
    ELSE LET u == ((x - cv.x1) * cv.w) \div cv.w1
             v == ((y - cv.y1) * cv.h) \div cv.h1
             over == {i \in DOMAIN cv.child : Shown(cv.child[i], u, v) # -1}
         IN  IF cv.type = "texture" THEN cv.pixels[cv.w * v + u]
             ELSE IF over = {} THEN 0 ELSE Shown(cv.child[Max(over)], u, v)

(* Each step draws exactly the picture it was given: of a rectangle the    *)
(* part on the display and nothing on the next line (gpu_fbdraw's two      *)
(* clippings, ioe.c:194-197), of a tree the last canvas over each pixel,   *)
(* through every scaling on the way (render, ioe.c:225-254).               *)
DrawsPicture ==
    [][ \/ \E d \in Draws : \A p \in Pixel :
             fb'[p] = IF X(p) \in d.x .. d.x + d.w - 1 /\ Y(p) \in d.y .. d.y + d.h - 1
                      THEN d.pixels[d.w * (Y(p) - d.y) + X(p) - d.x] ELSE fb[p]
        \/ head' > VMEM_SIZE /\ fb' = fb
        \/ \E r \in Roots : \A p \in Pixel :
             fb'[p] = IF Shown(r, X(p), Y(p)) = -1 THEN fb[p] ELSE Shown(r, X(p), Y(p))
      ]_gpuVars
=============================================================================
