------------------------------ MODULE Terminal ------------------------------
(***************************************************************************)
(* What a text console shows, told in rows and columns: a grid of cells    *)
(* with a cursor.  Text fills rows from left to right, a full row          *)
(* continues on the next one, and below the last row the grid rolls up by  *)
(* one row, or the cursor starts again at the top.  Console implements     *)
(* this with a flat buffer.                                                *)
(***************************************************************************)
EXTENDS Integers

CONSTANTS Columns, Rows, TabStop, Glyphs, Space

VARIABLES
    on,         \* the screen is set up
    grid,       \* grid[row][column], each a pair of a glyph and a colour
    row, col,   \* the cursor
    pen,        \* the colour new cells get
    rolling     \* the grid rolls up at its end

tvars == <<on, grid, row, col, pen, rolling>>

EmptyRow == [k \in 0..(Columns - 1) |-> [ch |-> Space, color |-> pen]]
EmptyGrid == [r \in 0..(Rows - 1) |-> EmptyRow]

RolledUp(g) == [r \in 0..(Rows - 1) |-> IF r = Rows - 1 THEN EmptyRow ELSE g[r + 1]]
RolledDown(g) == [r \in 0..(Rows - 1) |-> IF r = 0 THEN EmptyRow ELSE g[r - 1]]

\* The cursor goes to the start of the next row of grid g.
Feed(g) ==
    /\ col' = 0
    /\ \/ row + 1 < Rows /\ row' = row + 1 /\ grid' = g
       \/ row + 1 = Rows /\ rolling /\ row' = row /\ grid' = RolledUp(g)
       \/ row + 1 = Rows /\ ~rolling /\ row' = 0 /\ grid' = g

\* The cursor goes to column k of its row, or on to the next row.
Advance(k, g) ==
    \/ k < Columns /\ col' = k /\ row' = row /\ grid' = g
    \/ k >= Columns /\ Feed(g)

Type(c) == Advance(col + 1, [grid EXCEPT ![row][col] = [ch |-> c, color |-> pen]])
LineFeed == Feed(grid)
Return == col' = 0 /\ UNCHANGED <<row, grid>>
\* The next multiple of TabStop.
Tab == \E k \in (col + 1)..(col + TabStop) :
          k % TabStop = 0 /\ Advance(k, grid)
Rubout ==
    /\ col > 0
    /\ col' = col - 1 /\ row' = row
    /\ grid' = [grid EXCEPT ![row][col - 1] = [ch |-> Space, color |-> pen]]

Writing ==
    /\ \/ \E c \in Glyphs : Type(c)
       \/ LineFeed \/ Return \/ Tab \/ Rubout
    /\ UNCHANGED <<on, pen, rolling>>

Wipe == grid' = EmptyGrid /\ row' = 0 /\ col' = 0 /\ UNCHANGED <<on, pen, rolling>>
Roll ==
    /\ grid' \in {RolledUp(grid), RolledDown(grid)}
    /\ UNCHANGED <<on, row, col, pen, rolling>>
Locate ==
    /\ row' \in 0..(Rows - 1) /\ col' \in 0..(Columns - 1)
    /\ UNCHANGED <<on, grid, pen, rolling>>
Dip == UNCHANGED <<on, grid, row, col, rolling>>

(***************************************************************************)
(* The screen comes up, or is reset, with its cursor in the corner: blank  *)
(* in its new colour or, when some other screen is being used, with what   *)
(* it showed before.                                                       *)
(***************************************************************************)
PowerOn ==
    /\ on' /\ row' = 0 /\ col' = 0 /\ rolling'
    /\ \/ \A r \in 0..(Rows - 1), k \in 0..(Columns - 1) :
             grid'[r][k] = [ch |-> Space, color |-> pen']
       \/ on => grid' = grid

TInit == ~on
TNext ==
    \/ PowerOn
    \/ on /\ (Writing \/ Wipe \/ Roll \/ Locate \/ Dip)
TSpec == TInit /\ [][TNext]_tvars
=============================================================================
