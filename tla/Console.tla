------------------------------ MODULE Console ------------------------------
(***************************************************************************)
(* The text console, kernel/src/console.c: screens of width * height cells *)
(* stored row after row in a flat buffer, a software cursor per console,   *)
(* one hardware cursor, and the pointer to the active console on which all *)
(* operations act.  main_console is the zeroed static until console_init   *)
(* runs; further consoles are structures that callers hand to              *)
(* console_switch.                                                         *)
(***************************************************************************)
EXTENDS Integers

CONSTANTS
    Consoles,       \* main_console and the consoles of callers
    Main,           \* main_console
    Width, Height,  \* of each console, as functions (VGA: 80 and 25)
    TabStop,        \* 8 in the code
    U32,            \* one more than the largest u32
    U16,            \* one more than the largest u16
    Coordinates,    \* arguments of console_set_cursor_pos, any u32
    Glyphs,         \* printable characters, the blank among them
    Space,          \* the blank
    Hues,           \* the values of vga_color_t the callers use
    Black,          \* VGA_BLACK, which is 0
    LightGrey       \* VGA_LIGHT_GREY

ASSUME ConsoleAssumption ==
    /\ Main \in Consoles
    /\ U32 \in Nat /\ U16 \in Nat \ {0}
    /\ Width \in [Consoles -> Nat \ {0}] /\ Height \in [Consoles -> Nat \ {0}]
    /\ TabStop \in Nat \ {0}
    /\ Coordinates \subseteq 0..(U32 - 1)
    /\ \A c \in Consoles : Width[c] + TabStop < U32 /\ Height[c] + 2 < U32
    /\ Space \in Glyphs /\ Glyphs \cap {"LF", "CR", "HT", "BS", "ignored"} = {}
    /\ Black \in Hues /\ LightGrey \in Hues

\* Characters that console_putchar treats on their own, and the ones it
\* ignores: other control characters and, char being signed, bytes above 127.
Controls == {"LF", "CR", "HT", "BS", "ignored"}

VARIABLES
    con,        \* the console_t structures
    buffer,     \* the screens they point to
    active,     \* active_console
    hw,         \* position in the registers 0x0E and 0x0F
    hw_shown,   \* cursor bit of register 0x0A
    wild        \* a write missed the screen of the active console

vars == <<con, buffer, active, hw, hw_shown, wild>>

Color == [fg : Hues, bg : Hues]
Cell == [ch : Glyphs, color : Color]
Cells(c) == 0..(Width[c] * Height[c] - 1)
ConsoleT ==
    [ready : BOOLEAN,           \* buffer is not NULL
     width : Nat, height : Nat,
     x : Nat, y : Nat,          \* cursor_x, cursor_y
     color : Color,
     cursor_enabled : BOOLEAN, scroll_enabled : BOOLEAN]

Inc(n) == (n + 1) % U32
Dec(n) == (n + U32 - 1) % U32

\* The static main_console before console_init.
Zeroed ==
    [ready |-> FALSE, width |-> 0, height |-> 0, x |-> 0, y |-> 0,
     color |-> [fg |-> Black, bg |-> Black],
     cursor_enabled |-> FALSE, scroll_enabled |-> FALSE]

\* A console with its cursor in the corner, as console_init makes it.
Fresh(c, cursor, scroll) ==
    [ready |-> TRUE, width |-> Width[c], height |-> Height[c], x |-> 0, y |-> 0,
     color |-> [fg |-> LightGrey, bg |-> Black],
     cursor_enabled |-> cursor, scroll_enabled |-> scroll]

Blank(r) == [ch |-> Space, color |-> r.color]
Index(r) == r.y * r.width + r.x
\* A screen filled with blanks in the colour of r.
Erased(c, r) == [i \in Cells(c) |-> Blank(r)]

(***************************************************************************)
(* console_set_cursor_pos clamps the position, stores it and programs the  *)
(* hardware; on a console that is not set up width - 1 wraps around.       *)
(***************************************************************************)
Clamp(v, limit) == IF v >= limit THEN Dec(limit) ELSE v
AtPos(r, px, py) ==
    [r EXCEPT !.x = Clamp(px, r.width), !.y = Clamp(py, r.height)]
HwPos(r) == Index(r) % U16

\* Mutant of ScrolledUp: the last row keeps its contents.
ScrolledUpKeepsLast(c, r, b) ==
    [i \in Cells(c) |->
        IF i < (r.height - 1) * r.width THEN b[i + r.width] ELSE b[i]]

(***************************************************************************)
(* console_scroll_up and console_scroll_down: every row moves by one and   *)
(* the row that becomes free is blanked.  The order of the copies is the   *)
(* subject of ScrollLoops.                                                 *)
(***************************************************************************)
ScrolledUp(c, r, b) ==
    [i \in Cells(c) |->
        IF i < (r.height - 1) * r.width THEN b[i + r.width] ELSE Blank(r)]
ScrolledDown(c, r, b) ==
    [i \in Cells(c) |-> IF i >= r.width THEN b[i - r.width] ELSE Blank(r)]

\* Callers have set up their consoles; the screens hold leftovers.
Init ==
    /\ \E cursor, scroll \in [Consoles -> BOOLEAN] :
          con = [c \in Consoles |-> IF c = Main THEN Zeroed
                                    ELSE Fresh(c, cursor[c], scroll[c])]
    /\ \E cell \in Cell : buffer = [c \in Consoles |-> [i \in Cells(c) |-> cell]]
    /\ active = Main
    /\ hw = 0 /\ hw_shown \in BOOLEAN
    /\ wild = FALSE

(***************************************************************************)
(* An operation turns the active console into r and its screen into b.     *)
(***************************************************************************)
Update(r, b) ==
    /\ con' = [con EXCEPT ![active] = r]
    /\ buffer' = [buffer EXCEPT ![active] = b]

ConsoleInit ==
    /\ ~wild
    /\ LET cons == [con EXCEPT ![Main] = Fresh(Main, TRUE, TRUE)]
           r    == AtPos(cons[active], 0, 0)
       IN  /\ con' = [cons EXCEPT ![active] = [r EXCEPT !.cursor_enabled = TRUE]]
           /\ buffer' = [buffer EXCEPT ![active] = Erased(active, r)]
           /\ hw' = HwPos(r)
    /\ hw_shown' = TRUE
    /\ UNCHANGED <<active, wild>>

\* Mutant of Clear: the hardware cursor is not moved.
ClearKeepsHw ==
    /\ ~wild
    /\ LET r == AtPos(con[active], 0, 0)
       IN  Update(r, IF r.ready THEN Erased(active, r) ELSE buffer[active])
    /\ UNCHANGED <<active, hw, hw_shown, wild>>

Clear ==
    /\ ~wild
    /\ LET r == AtPos(con[active], 0, 0)
       IN  /\ Update(r, IF r.ready THEN Erased(active, r) ELSE buffer[active])
           /\ hw' = HwPos(r)
    /\ UNCHANGED <<active, hw_shown, wild>>

\* console_putchar, lines 63-80: where the cursor moves ...
Moved(r, c) ==
    CASE c = "LF"       -> [r EXCEPT !.x = 0, !.y = Inc(@)]
      [] c = "CR"       -> [r EXCEPT !.x = 0]
      [] c = "HT"       -> [r EXCEPT !.x = ((@ + TabStop) \div TabStop) * TabStop % U32]
      [] c = "BS"       -> [r EXCEPT !.x = IF @ > 0 THEN @ - 1 ELSE @]
      [] c \in Glyphs   -> [r EXCEPT !.x = Inc(@)]
      [] c = "ignored"  -> r

\* ... and the cells it writes: at most one.
Written(r, c) ==
    IF c \in Glyphs THEN {<<Index(r), [ch |-> c, color |-> r.color]>>}
    ELSE IF c = "BS" /\ r.x > 0 THEN {<<Index(r) - 1, Blank(r)>>}
    ELSE {}

\* Mutant of Wrapped: the column after the last one is let through.
WrappedLate(r) == IF r.x > r.width THEN [r EXCEPT !.x = 0, !.y = Inc(@)] ELSE r

\* Mutant of BackOnScreen: one row too low.
BackBelowScreen(r) ==
    IF ~(r.y >= r.height) THEN r
    ELSE [r EXCEPT !.y = IF r.scroll_enabled THEN r.height ELSE 0]

\* Lines 83-86 and 89-96.
Wrapped(r) == IF r.x >= r.width THEN [r EXCEPT !.x = 0, !.y = Inc(@)] ELSE r
Overflows(r) == r.y >= r.height
BackOnScreen(r) ==
    IF ~Overflows(r) THEN r
    ELSE [r EXCEPT !.y = IF r.scroll_enabled THEN Dec(r.height) ELSE 0]

Putchar(c) ==
    LET r0 == con[active]
        r1 == Wrapped(Moved(r0, c))
        r2 == BackOnScreen(r1)
        r3 == IF r2.cursor_enabled THEN AtPos(r2, r2.x, r2.y) ELSE r2
        W  == Written(r0, c)
        b1 == [i \in Cells(active) |->
                  IF \E w \in W : w[1] = i
                  THEN (CHOOSE w \in W : w[1] = i)[2] ELSE buffer[active][i]]
        b2 == IF r0.ready /\ Overflows(r1) /\ r1.scroll_enabled
              THEN ScrolledUp(active, r1, b1) ELSE b1
    IN  /\ ~wild
        /\ IF \A w \in W : r0.ready /\ w[1] \in Cells(active)
           THEN /\ Update(r3, b2)
                /\ hw' = IF r3.cursor_enabled THEN HwPos(r3) ELSE hw
                /\ wild' = FALSE
           ELSE wild' = TRUE /\ UNCHANGED <<con, buffer, hw>>
        /\ UNCHANGED <<active, hw_shown>>

\* console_set_color and, with one of the two kept, its variants.
SetColor(fg, bg) ==
    /\ ~wild
    /\ con' = [con EXCEPT ![active].color = [fg |-> fg, bg |-> bg]]
    /\ UNCHANGED <<buffer, active, hw, hw_shown, wild>>
SetForeground(fg) == SetColor(fg, con[active].color.bg)
SetBackground(bg) == SetColor(con[active].color.fg, bg)

EnableCursor ==
    /\ ~wild
    /\ con' = [con EXCEPT ![active].cursor_enabled = TRUE]
    /\ hw_shown' = TRUE
    /\ UNCHANGED <<buffer, active, hw, wild>>

DisableCursor ==
    /\ ~wild
    /\ con' = [con EXCEPT ![active].cursor_enabled = FALSE]
    /\ hw_shown' = FALSE
    /\ UNCHANGED <<buffer, active, hw, wild>>

SetCursorPos(px, py) ==
    /\ ~wild
    /\ LET r == AtPos(con[active], px, py)
       IN  /\ con' = [con EXCEPT ![active] = r]
           /\ hw' = HwPos(r)
    /\ UNCHANGED <<buffer, active, hw_shown, wild>>

\* On a console that is not set up the loops touch no cell.
ScrollUp ==
    /\ ~wild
    /\ con[active].ready
    /\ Update(con[active], ScrolledUp(active, con[active], buffer[active]))
    /\ UNCHANGED <<active, hw, hw_shown, wild>>

ScrollDown ==
    /\ ~wild
    /\ con[active].ready
    /\ Update(con[active], ScrolledDown(active, con[active], buffer[active]))
    /\ UNCHANGED <<active, hw, hw_shown, wild>>

Switch(c) ==
    /\ ~wild
    /\ active' = c
    /\ UNCHANGED <<con, buffer, hw, hw_shown, wild>>

Next ==
    \/ ConsoleInit
    \/ Clear
    \/ \E c \in Glyphs \cup Controls : Putchar(c)
    \/ \E fg, bg \in Hues : SetColor(fg, bg)
    \/ \E fg \in Hues : SetForeground(fg)
    \/ \E bg \in Hues : SetBackground(bg)
    \/ EnableCursor
    \/ DisableCursor
    \/ \E px, py \in Coordinates : SetCursorPos(px, py)
    \/ ScrollUp
    \/ ScrollDown
    \/ \E c \in Consoles : Switch(c)

Spec == Init /\ [][Next]_vars

-----------------------------------------------------------------------------
(***************************************************************************)
(* Properties.                                                             *)
(***************************************************************************)

\* All variables hold values of their C types.
TypeOK ==
    /\ con \in [Consoles -> ConsoleT]
    /\ buffer = [c \in Consoles |-> buffer[c]]
    /\ \A c \in Consoles : buffer[c] \in [Cells(c) -> Cell]
    /\ active \in Consoles
    /\ hw \in 0..(U16 - 1) /\ hw_shown \in BOOLEAN
    /\ wild \in BOOLEAN

(***************************************************************************)
(* After any sequence of operations, on whichever consoles, the cursor of  *)
(* every console that is set up is on its screen (lines 82-96, 252-256).   *)
(***************************************************************************)
CursorOnScreen ==
    \A c \in Consoles : con[c].ready =>
        con[c].x < con[c].width /\ con[c].y < con[c].height

(***************************************************************************)
(* console_putchar writes inside the screen it writes to: a write goes     *)
(* astray only on main_console before console_init, through its NULL       *)
(* buffer.                                                                 *)
(***************************************************************************)
WritesOnScreen == wild => active = Main /\ ~con[Main].ready

\* The hardware cursor is where the active console has its cursor.
HwAgrees == hw = HwPos(con[active])

(***************************************************************************)
(* While a console with a visible cursor stays active, no operation lets   *)
(* the hardware cursor fall behind the software cursor.                    *)
(***************************************************************************)
HwFollows ==
    [][ HwAgrees /\ con[active].cursor_enabled /\ active' = active
        => HwAgrees' ]_vars

(***************************************************************************)
(* main_console, once set up, behaves as the Terminal of its size: the     *)
(* index arithmetic of the flat buffer, the wrapping, the tabs and the     *)
(* scrolling amount to rows and columns.  Before console_init nothing is   *)
(* shown.                                                                  *)
(***************************************************************************)
shown == con[Main].ready
mainView == IF shown THEN con[Main] ELSE Zeroed
asGrid ==
    [r \in 0..(Height[Main] - 1) |->
        [k \in 0..(Width[Main] - 1) |->
            IF shown THEN buffer[Main][r * Width[Main] + k] ELSE Blank(Zeroed)]]
T == INSTANCE Terminal WITH
        Columns <- Width[Main], Rows <- Height[Main],
        on <- shown, grid <- asGrid,
        row <- mainView.y, col <- mainView.x,
        pen <- mainView.color, rolling <- mainView.scroll_enabled
IsTerminal == T!TSpec
=============================================================================
