-------------------------------- MODULE Line --------------------------------
(***************************************************************************)
(* framebuffer_draw_line with framebuffer_draw_pixel, gui/src/jarvis_gui.c:*)
(* Bresenham's algorithm between two points that may lie outside the       *)
(* framebuffer, whose pixels are clipped one by one.  A step is an         *)
(* iteration of the loop.                                                  *)
(***************************************************************************)
EXTENDS Integers

CONSTANTS
    Width, Height,  \* of the framebuffer
    Margin          \* how far outside it an end point may lie

ASSUME LineAssumption == {Width, Height, Margin} \subseteq Nat

Coordinates == (-Margin)..(Width + Margin)

VARIABLES
    from, to,       \* the end points
    pen,            \* the point the loop has reached
    err,
    buffer,         \* indices of the pixels that were set
    lit,            \* history: the points for which draw_pixel was called
    line_pc

lineVars == <<from, to, pen, err, buffer, lit, line_pc>>

Abs(n) == IF n < 0 THEN -n ELSE n
Point == [x : Coordinates, y : Coordinates]

dx == Abs(to.x - from.x)
dy == -Abs(to.y - from.y)
sx == IF from.x < to.x THEN 1 ELSE -1
sy == IF from.y < to.y THEN 1 ELSE -1

LineInit ==
    /\ from \in Point /\ to \in Point
    /\ pen = from
    /\ err = dx + dy
    /\ buffer = {} /\ lit = {}
    /\ line_pc = "loop"

\* No call at all.
LineRest ==
    /\ from = [x |-> 0, y |-> 0] /\ to = from /\ pen = from /\ err = 0
    /\ buffer = {} /\ lit = {} /\ line_pc = "done"

\* Line 113.
Visible(p) == p.x >= 0 /\ p.x < Width /\ p.y >= 0 /\ p.y < Height

\* framebuffer_draw_pixel.
DrawPixel(p) ==
    /\ buffer' = IF Visible(p) THEN buffer \cup {p.y * Width + p.x} ELSE buffer
    /\ lit' = lit \cup {p}

\* Mutant of Advance: the second test sees the error the first one changed.
AdvanceTwice ==
    LET across == 2 * err >= dy
        err1  == IF across THEN err + dy ELSE err
        down  == 2 * err1 =< dx
    IN  /\ pen' = [x |-> IF across THEN pen.x + sx ELSE pen.x,
                   y |-> IF down THEN pen.y + sy ELSE pen.y]
        /\ err' = IF down THEN err1 + dx ELSE err1

\* Lines 137-139; both tests use the error before the step.
Advance ==
    LET across == 2 * err >= dy
        down  == 2 * err =< dx
    IN  /\ pen' = [x |-> IF across THEN pen.x + sx ELSE pen.x,
                   y |-> IF down THEN pen.y + sy ELSE pen.y]
        /\ err' = err + (IF across THEN dy ELSE 0) + (IF down THEN dx ELSE 0)

LineStep ==
    /\ line_pc = "loop"
    /\ DrawPixel(pen)
    /\ pen # to
    /\ Advance
    /\ UNCHANGED <<from, to, line_pc>>

LineStop ==
    /\ line_pc = "loop"
    /\ DrawPixel(pen)
    /\ pen = to
    /\ line_pc' = "done"
    /\ UNCHANGED <<from, to, pen, err>>

LineNext == LineStep \/ LineStop

-----------------------------------------------------------------------------
Longer == IF dx > -dy THEN dx ELSE -dy

(***************************************************************************)
(* Every point lies within half a pixel of the line between the end        *)
(* points, measured along the shorter side, for every slope and direction; *)
(* what is written to the framebuffer are the points that are inside it,   *)
(* each at its own index: nothing wraps into the next row.                 *)
(***************************************************************************)
LineDrawn ==
    /\ \A p \in lit :
         2 * Abs((p.x - from.x) * (to.y - from.y) - (p.y - from.y) * (to.x - from.x)) =< Longer
    /\ buffer = {p.y * Width + p.x :
                    p \in {q \in lit : q.x \in 0..(Width - 1) /\ q.y \in 0..(Height - 1)}}
=============================================================================
