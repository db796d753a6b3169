---------------------------- MODULE ScrollLoops ----------------------------
(***************************************************************************)
(* The copy loops of console_scroll_up and console_scroll_down,            *)
(* kernel/src/console.c, cell by cell.  Source and destination are the     *)
(* same buffer, so the result depends on the order of the copies.  Console *)
(* takes a scroll as one step; here the loops are shown to be that step.   *)
(***************************************************************************)
EXTENDS Console

\* The screen after the first k of a series of copies, each <<to, from>>.
Copied(b, copies, k) ==
    LET after[n \in 0..k] ==
            IF n = 0 THEN b
            ELSE [after[n - 1] EXCEPT ![copies[n - 1][1]] = after[n - 1][copies[n - 1][2]]]
    IN  after[k]

\* Lines 276-282: y counts up, x counts up.
UpCopies(r) ==
    [n \in 0..((r.height - 1) * r.width - 1) |-> <<n, n + r.width>>]

\* Mutant of DownCopies: y counts up, so a row is overwritten before it is read.
DownCopiesForward(r) ==
    [n \in 0..((r.height - 1) * r.width - 1) |-> <<n + r.width, n>>]

\* Lines 295-301: y counts down, x counts up.
DownCopies(r) ==
    [n \in 0..((r.height - 1) * r.width - 1) |->
        LET y == r.height - 1 - n \div r.width
            x == n % r.width
        IN  <<y * r.width + x, (y - 1) * r.width + x>>]

\* Lines 284-288 and 303-306: the row that became free is blanked.
UpLoop(r, b) ==
    [i \in DOMAIN b |->
        IF i >= (r.height - 1) * r.width THEN Blank(r)
        ELSE Copied(b, UpCopies(r), (r.height - 1) * r.width)[i]]
DownLoop(r, b) ==
    [i \in DOMAIN b |->
        IF i < r.width THEN Blank(r)
        ELSE Copied(b, DownCopies(r), (r.height - 1) * r.width)[i]]

(***************************************************************************)
(* On every screen that occurs, the loops move each row by one: no copy    *)
(* reads a cell that an earlier copy has overwritten, although the loops   *)
(* work in place.                                                          *)
(***************************************************************************)
LoopsScroll ==
    \A c \in Consoles : con[c].ready =>
        /\ UpLoop(con[c], buffer[c]) = ScrolledUp(c, con[c], buffer[c])
        /\ DownLoop(con[c], buffer[c]) = ScrolledDown(c, con[c], buffer[c])
=============================================================================
