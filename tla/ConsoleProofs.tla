--------------------------- MODULE ConsoleProofs ---------------------------
(***************************************************************************)
(* Proofs about the console, for screens of every size and any number of   *)
(* consoles.                                                               *)
(***************************************************************************)
EXTENDS ScrollLoops, NaturalLemmas, TLAPS

-----------------------------------------------------------------------------
(* Arithmetic of u32 counters and of the flat buffer.                      *)

\* The cursor arithmetic stays in the natural numbers.
LEMMA IncType == ASSUME NEW n \in Nat PROVE Inc(n) \in Nat
  BY ConsoleAssumption DEF Inc

\* A decrement modulo 2^32 is a natural number ...
LEMMA DecType == ASSUME NEW n \in Nat PROVE Dec(n) \in Nat
  BY ConsoleAssumption DEF Dec

\* ... and an ordinary one above 0.
LEMMA DecBelow ==
    ASSUME NEW n \in Nat \ {0}, n < U32 PROVE Dec(n) = n - 1
  BY ConsoleAssumption DEF Dec

\* A clamped coordinate is below its limit.
LEMMA ClampBelow ==
    ASSUME NEW v \in Nat, NEW limit \in Nat \ {0}, limit < U32
    PROVE  Clamp(v, limit) \in Nat /\ Clamp(v, limit) < limit
  BY DecBelow DEF Clamp

\* A clamped coordinate is a natural number, even on an empty screen.
LEMMA ClampType ==
    ASSUME NEW v \in Nat, NEW limit \in Nat PROVE Clamp(v, limit) \in Nat
  BY DecType DEF Clamp

\* A position on the screen has its cell in the buffer.
LEMMA IndexBound ==
    ASSUME NEW w \in Nat, NEW h \in Nat, NEW x \in Nat, NEW y \in Nat,
           x < w, y < h
    PROVE  /\ y * w + x \in Nat
           /\ y * w + x < w * h
<1>1. y + 1 =< h
  OBVIOUS
<1>2. (y + 1) * w =< h * w
  BY <1>1
<1>3. y * w \in Nat /\ (y + 1) * w = y * w + w /\ h * w = w * h /\ h * w \in Nat
  OBVIOUS
<1> QED BY <1>2, <1>3

-----------------------------------------------------------------------------
(* The inductive invariant.                                                *)

\* A console is set up with its own size; only main_console may not be yet.
Shape ==
    \A c \in Consoles :
        /\ c # Main => con[c].ready
        /\ con[c].ready => con[c].width = Width[c] /\ con[c].height = Height[c]

IInv == TypeOK /\ Shape /\ CursorOnScreen /\ WritesOnScreen

\* What an operation may make of the console c.
Good(c, r) ==
    /\ r \in ConsoleT
    /\ r.ready => /\ r.width = Width[c] /\ r.height = Height[c]
                  /\ r.x < r.width /\ r.y < r.height

\* Every console of a state that satisfies IInv is Good.
LEMMA GoodActive ==
    ASSUME IInv PROVE \A c \in Consoles : Good(c, con[c])
  BY DEF IInv, TypeOK, Shape, CursorOnScreen, Good

\* A console that is set up has the dimensions of its screen.
LEMMA Sizes ==
    ASSUME NEW c \in Consoles, NEW r, Good(c, r), r.ready
    PROVE  /\ r.width \in Nat \ {0} /\ r.width < U32
           /\ r.height \in Nat \ {0} /\ r.height < U32
  BY ConsoleAssumption DEF Good

\* What console_init stores is Good.
LEMMA FreshGood ==
    ASSUME NEW c \in Consoles, NEW cursor \in BOOLEAN, NEW scroll \in BOOLEAN
    PROVE  Good(c, Fresh(c, cursor, scroll)) /\ Fresh(c, cursor, scroll).ready
<1>1. Fresh(c, cursor, scroll) \in ConsoleT
  BY ConsoleAssumption DEF Fresh, ConsoleT, Color
<1> QED BY <1>1, ConsoleAssumption DEF Fresh, Good

\* console_set_cursor_pos keeps the cursor on the screen.
LEMMA AtPosGood ==
    ASSUME NEW c \in Consoles, NEW r \in ConsoleT,
           r.ready => r.width = Width[c] /\ r.height = Height[c],
           NEW px \in Nat, NEW py \in Nat
    PROVE  /\ Good(c, AtPos(r, px, py))
           /\ AtPos(r, px, py).ready = r.ready
<1> DEFINE q == AtPos(r, px, py)
<1>1. r.width \in Nat /\ r.height \in Nat
  BY DEF ConsoleT
<1>2. Clamp(px, r.width) \in Nat /\ Clamp(py, r.height) \in Nat
  BY <1>1, ClampType
<1>3. q \in ConsoleT
  BY <1>2 DEF AtPos, ConsoleT
<1>4. /\ q.ready = r.ready /\ q.width = r.width /\ q.height = r.height
      /\ q.x = Clamp(px, r.width) /\ q.y = Clamp(py, r.height)
  BY DEF AtPos, ConsoleT
<1>5. ASSUME r.ready PROVE q.x < q.width /\ q.y < q.height
  <2>1. /\ r.width \in Nat \ {0} /\ r.width < U32
        /\ r.height \in Nat \ {0} /\ r.height < U32
    BY <1>5, ConsoleAssumption
  <2>2. Clamp(px, r.width) < r.width /\ Clamp(py, r.height) < r.height
    BY <2>1, ClampBelow
  <2> QED BY <1>4, <2>2
<1> QED BY <1>3, <1>4, <1>5 DEF Good

\* The column after a tab is a natural number.
LEMMA TabType ==
    ASSUME NEW x \in Nat
    PROVE  ((x + TabStop) \div TabStop) * TabStop % U32 \in Nat
<1> DEFINE q == (x + TabStop) \div TabStop
<1>1. q \in Nat /\ U32 \in Nat \ {0} /\ TabStop \in Nat
  BY ConsoleAssumption
<1> HIDE DEF q
<1>2. q * TabStop \in Nat
  BY <1>1
<1>3. (q * TabStop) % U32 \in Nat
  BY <1>1, <1>2
<1> QED BY <1>3 DEF q

\* Two records of one console that differ in the cursor only.
SameScreen(r, q) ==
    /\ q \in ConsoleT
    /\ q.ready = r.ready /\ q.width = r.width /\ q.height = r.height
    /\ q.color = r.color
    /\ q.cursor_enabled = r.cursor_enabled /\ q.scroll_enabled = r.scroll_enabled

\* Moving the cursor changes neither size nor attributes of a console.
LEMMA MovedType ==
    ASSUME NEW r \in ConsoleT, NEW c \in Glyphs \cup Controls
    PROVE  SameScreen(r, Moved(r, c))
<1>1. r.x \in Nat /\ r.y \in Nat
  BY DEF ConsoleT
<1>2. /\ Inc(r.x) \in Nat /\ Inc(r.y) \in Nat
      /\ ((r.x + TabStop) \div TabStop) * TabStop % U32 \in Nat
      /\ (IF r.x > 0 THEN r.x - 1 ELSE r.x) \in Nat
  BY <1>1, IncType, TabType
<1>3. ASSUME NEW px \in Nat, NEW py \in Nat
      PROVE  /\ SameScreen(r, [r EXCEPT !.x = px])
             /\ SameScreen(r, [r EXCEPT !.x = px, !.y = py])
  BY DEF ConsoleT, SameScreen
<1>4. SameScreen(r, r)
  BY DEF SameScreen
<1>5. CASE c = "LF"
  <2>1. Moved(r, c) = [r EXCEPT !.x = 0, !.y = Inc(r.y)]
    BY <1>5, ConsoleAssumption DEF Moved
  <2>2. ASSUME NEW py \in Nat PROVE SameScreen(r, [r EXCEPT !.x = 0, !.y = py])
    BY <2>2, <1>3
  <2> QED BY <1>2, <2>1, <2>2
<1>6. CASE c = "CR"
  <2>1. Moved(r, c) = [r EXCEPT !.x = 0]
    BY <1>6, ConsoleAssumption DEF Moved
  <2> QED BY <1>3, <2>1
<1>7. CASE c = "HT"
  <2>1. Moved(r, c) = [r EXCEPT !.x = ((r.x + TabStop) \div TabStop) * TabStop % U32]
    BY <1>7, ConsoleAssumption DEF Moved
  <2> QED BY <1>2, <1>3, <2>1
<1>8. CASE c = "BS"
  <2>1. Moved(r, c) = [r EXCEPT !.x = IF r.x > 0 THEN r.x - 1 ELSE r.x]
    BY <1>8, ConsoleAssumption DEF Moved
  <2> QED BY <1>2, <1>3, <2>1
<1>9. CASE c \in Glyphs
  <2>1. Moved(r, c) = [r EXCEPT !.x = Inc(r.x)]
    BY <1>9, ConsoleAssumption DEF Moved
  <2> QED BY <1>2, <1>3, <2>1
<1>10. CASE c = "ignored"
  <2>1. Moved(r, c) = r
    BY <1>10, ConsoleAssumption DEF Moved
  <2> QED BY <1>4, <2>1
<1> QED BY <1>5, <1>6, <1>7, <1>8, <1>9, <1>10 DEF Controls

\* Lines 83-96 bring the cursor back on the screen from wherever it is.
LEMMA BackGood ==
    ASSUME NEW c \in Consoles, NEW r \in ConsoleT,
           r.ready => r.width = Width[c] /\ r.height = Height[c]
    PROVE  /\ SameScreen(r, Wrapped(r)) /\ SameScreen(r, BackOnScreen(Wrapped(r)))
           /\ Good(c, BackOnScreen(Wrapped(r)))
           /\ BackOnScreen(Wrapped(r)).ready = r.ready
<1> DEFINE w == Wrapped(r)
           q == BackOnScreen(w)
<1>1. r.x \in Nat /\ Inc(r.y) \in Nat /\ r.y \in Nat /\ r.width \in Nat
  BY IncType DEF ConsoleT
<1>2. SameScreen(r, w) /\ w.scroll_enabled = r.scroll_enabled
  BY <1>1 DEF Wrapped, SameScreen, ConsoleT
<1>3. r.ready => w.x < w.width
  <2>1. r.ready => r.width > 0
    BY ConsoleAssumption
  <2> QED BY <1>1, <2>1 DEF Wrapped, ConsoleT
<1> HIDE DEF w
<1>4. w \in ConsoleT /\ w.height \in Nat /\ w.y \in Nat /\ Dec(w.height) \in Nat
  <2>1. w \in ConsoleT
    BY <1>2 DEF SameScreen
  <2>2. w.height \in Nat /\ w.y \in Nat
    BY <2>1 DEF ConsoleT
  <2> QED BY <2>1, <2>2, DecType
<1>5. SameScreen(w, q) /\ q.x = w.x
  BY <1>4 DEF BackOnScreen, SameScreen, ConsoleT
<1>6. r.ready => q.y < q.height
  <2>1. ASSUME r.ready PROVE w.height \in Nat \ {0} /\ Dec(w.height) = w.height - 1
    <3>1. w.height = Height[c] /\ w.height < U32 /\ w.height \in Nat \ {0}
      BY <1>2, <2>1, ConsoleAssumption DEF SameScreen
    <3> QED BY <3>1, DecBelow
  <2>2. q.y = IF ~(w.y >= w.height) THEN w.y
              ELSE IF w.scroll_enabled THEN Dec(w.height) ELSE 0
    BY <1>4 DEF BackOnScreen, Overflows, ConsoleT
  <2> QED BY <1>4, <1>5, <2>1, <2>2 DEF SameScreen
<1> QED BY <1>2, <1>3, <1>5, <1>6 DEF Good, SameScreen, w

-----------------------------------------------------------------------------
(* The screens.                                                            *)

\* A blank is a cell.
LEMMA BlankType == ASSUME NEW r \in ConsoleT PROVE Blank(r) \in Cell
  BY ConsoleAssumption DEF Blank, Cell, ConsoleT

\* A blanked screen is a screen.
LEMMA ErasedType ==
    ASSUME NEW c \in Consoles, NEW r \in ConsoleT
    PROVE  Erased(c, r) \in [Cells(c) -> Cell]
  BY BlankType DEF Erased

\* Scrolling reads cells of the screen only and fills the screen.
LEMMA ScrolledType ==
    ASSUME NEW c \in Consoles, NEW r \in ConsoleT,
           r.width = Width[c], r.height = Height[c],
           NEW b \in [Cells(c) -> Cell]
    PROVE  /\ ScrolledUp(c, r, b) \in [Cells(c) -> Cell]
           /\ ScrolledDown(c, r, b) \in [Cells(c) -> Cell]
<1> DEFINE w == Width[c]
           h == Height[c]
<1>1. w \in Nat \ {0} /\ h \in Nat \ {0} /\ w * h \in Nat
  BY ConsoleAssumption
<1>2. Blank(r) \in Cell
  BY BlankType
<1>3. ASSUME NEW i \in Cells(c), i < (h - 1) * w PROVE b[i + w] \in Cell
  <2>1. (h - 1) * w = w * h - w
    BY <1>1
  <2> HIDE DEF w, h
  <2>2. i \in 0..(w * h - 1) /\ i \in Nat
    BY <1>1, <1>3 DEF Cells, w, h
  <2>3. i + w \in 0..(w * h - 1)
    BY <1>1, <1>3, <2>1, <2>2
  <2>4. i + w \in Cells(c)
    BY <2>3 DEF Cells, w, h
  <2> QED BY <2>4
<1>4. ASSUME NEW i \in Cells(c), i >= w PROVE b[i - w] \in Cell
  <2> HIDE DEF w, h
  <2>1. i \in 0..(w * h - 1) /\ i \in Nat
    BY <1>1, <1>4 DEF Cells, w, h
  <2>2. i - w \in 0..(w * h - 1)
    BY <1>1, <1>4, <2>1
  <2>3. i - w \in Cells(c)
    BY <2>2 DEF Cells, w, h
  <2> QED BY <2>3
<1> QED BY <1>2, <1>3, <1>4 DEF ScrolledUp, ScrolledDown

\* What is written to the cursor registers fits in 16 bits.
LEMMA HwPosType == ASSUME NEW r \in ConsoleT PROVE HwPos(r) \in 0..(U16 - 1)
<1> DEFINE i == Index(r)
<1>1. r.x \in Nat /\ r.y \in Nat /\ r.width \in Nat
  BY DEF ConsoleT
<1>2. i \in Nat
  <2>1. r.y * r.width \in Nat
    BY <1>1
  <2> QED BY <1>1, <2>1 DEF Index
<1> HIDE DEF i
<1>3. i % U16 \in 0..(U16 - 1)
  BY <1>2, ConsoleAssumption
<1> QED BY <1>3 DEF i, HwPos

\* An operation that leaves a good console and a screen keeps the invariant.
LEMMA UpdateStep ==
    ASSUME IInv, NEW r, NEW b, Update(r, b),
           Good(active, r), r.ready = con[active].ready,
           b \in [Cells(active) -> Cell],
           hw' \in 0..(U16 - 1), hw_shown' \in BOOLEAN,
           active' = active, wild' = FALSE
    PROVE  IInv'
<1>1. /\ con \in [Consoles -> ConsoleT] /\ active \in Consoles
      /\ buffer = [c \in Consoles |-> buffer[c]]
      /\ \A c \in Consoles : buffer[c] \in [Cells(c) -> Cell]
  BY DEF IInv, TypeOK
<1>2. \A c \in Consoles : con'[c] = IF c = active THEN r ELSE con[c]
  BY <1>1 DEF Update
<1>3. con' \in [Consoles -> ConsoleT]
  BY <1>1 DEF Update, Good
<1>4. /\ buffer' = [c \in Consoles |-> buffer'[c]]
      /\ \A c \in Consoles : buffer'[c] \in [Cells(c) -> Cell]
  <2>1. buffer' = [c \in Consoles |-> buffer'[c]]
    BY <1>1 DEF Update
  <2>2. \A c \in Consoles : buffer'[c] = IF c = active THEN b ELSE buffer[c]
    BY <1>1 DEF Update
  <2> QED BY <1>1, <2>1, <2>2
<1>5. TypeOK'
  BY <1>1, <1>3, <1>4, Zenon DEF TypeOK
<1>6. Shape' /\ CursorOnScreen'
  BY <1>2 DEF IInv, Shape, CursorOnScreen, Good
<1>7. WritesOnScreen'
  BY DEF WritesOnScreen
<1> QED BY <1>5, <1>6, <1>7 DEF IInv

\* The types of the active console and its screen.
LEMMA ActiveType ==
    ASSUME IInv
    PROVE  /\ active \in Consoles
           /\ con[active] \in ConsoleT
           /\ con[active].ready => /\ con[active].width = Width[active]
                                   /\ con[active].height = Height[active]
           /\ Good(active, con[active])
           /\ buffer[active] \in [Cells(active) -> Cell]
           /\ hw \in 0..(U16 - 1) /\ hw_shown \in BOOLEAN
  BY GoodActive DEF IInv, TypeOK, Shape

\* An operation that changes the colour or a flag of the active console.
LEMMA RecordStep ==
    ASSUME IInv, NEW r, con' = [con EXCEPT ![active] = r],
           Good(active, r), r.ready = con[active].ready,
           hw' \in 0..(U16 - 1), hw_shown' \in BOOLEAN,
           UNCHANGED <<buffer, active>>, wild' = FALSE
    PROVE  IInv'
<1>1. buffer' = [buffer EXCEPT ![active] = buffer[active]]
  BY DEF IInv, TypeOK
<1>2. Update(r, buffer[active])
  BY <1>1 DEF Update
<1> QED BY <1>2, ActiveType, UpdateStep

\* The state before console_init satisfies the invariant.
LEMMA InitIInv == Init => IInv
<1> SUFFICES ASSUME Init PROVE IInv
  OBVIOUS
<1>1. PICK cursor \in [Consoles -> BOOLEAN], scroll \in [Consoles -> BOOLEAN] :
          con = [c \in Consoles |-> IF c = Main THEN Zeroed
                                    ELSE Fresh(c, cursor[c], scroll[c])]
  BY DEF Init
<1>2. PICK cell \in Cell : buffer = [c \in Consoles |-> [i \in Cells(c) |-> cell]]
  BY DEF Init
<1>3. Zeroed \in ConsoleT /\ ~Zeroed.ready
  BY ConsoleAssumption DEF Zeroed, ConsoleT, Color
<1>4. \A c \in Consoles \ {Main} :
          Good(c, con[c]) /\ con[c].ready
  BY <1>1, FreshGood
<1>5. con[Main] = Zeroed
  BY <1>1, ConsoleAssumption
<1>6. con \in [Consoles -> ConsoleT]
  <2>1. \A c \in Consoles : con[c] \in ConsoleT
    BY <1>3, <1>4, <1>5 DEF Good
  <2> QED BY <1>1, <2>1
<1>7. buffer = [c \in Consoles |-> buffer[c]] /\ \A c \in Consoles : buffer[c] \in [Cells(c) -> Cell]
  BY <1>2
<1>8. active \in Consoles /\ hw \in 0..(U16 - 1)
  BY ConsoleAssumption DEF Init
<1>9. hw_shown \in BOOLEAN /\ wild \in BOOLEAN /\ ~wild
  BY Zenon DEF Init
<1> QED BY <1>3, <1>4, <1>5, <1>6, <1>7, <1>8, <1>9
        DEF IInv, TypeOK, Shape, CursorOnScreen, WritesOnScreen, Good

\* console_putchar, on a screen that is set up and on one that is not.
LEMMA PutcharStep ==
    ASSUME IInv, NEW c \in Glyphs \cup Controls, Putchar(c) PROVE IInv'
<1> DEFINE r0 == con[active]
           m  == Moved(r0, c)
           r1 == Wrapped(m)
           r2 == BackOnScreen(r1)
           r3 == IF r2.cursor_enabled THEN AtPos(r2, r2.x, r2.y) ELSE r2
           W  == Written(r0, c)
           b1 == [i \in Cells(active) |->
                     IF \E w \in W : w[1] = i
                     THEN (CHOOSE w \in W : w[1] = i)[2] ELSE buffer[active][i]]
           b2 == IF r0.ready /\ Overflows(r1) /\ r1.scroll_enabled
                 THEN ScrolledUp(active, r1, b1) ELSE b1
<1>1. /\ r0 \in ConsoleT /\ active \in Consoles
      /\ r0.ready => r0.width = Width[active] /\ r0.height = Height[active]
  BY ActiveType
<1>2. m \in ConsoleT /\ m.ready = r0.ready
      /\ m.width = r0.width /\ m.height = r0.height
  BY <1>1, MovedType DEF SameScreen
<1>3. /\ r1 \in ConsoleT /\ r1.ready = r0.ready
      /\ r1.width = r0.width /\ r1.height = r0.height
      /\ Good(active, r2) /\ r2.ready = r0.ready
  <2> HIDE DEF m, r0
  <2> QED BY <1>1, <1>2, BackGood DEF SameScreen
<1>4. Good(active, r3) /\ r3.ready = r0.ready
  <2> HIDE DEF r0, r2
  <2>1. /\ r2 \in ConsoleT /\ r2.x \in Nat /\ r2.y \in Nat
        /\ r2.ready => r2.width = Width[active] /\ r2.height = Height[active]
    BY <1>3 DEF Good, ConsoleT
  <2> QED BY <1>1, <1>3, <2>1, AtPosGood
<1>5. b1 \in [Cells(active) -> Cell]
  <2>1. \A w \in W : w[2] \in Cell
    <3>1. c \in Glyphs => [ch |-> c, color |-> r0.color] \in Cell
      BY <1>1 DEF Cell, ConsoleT
    <3>2. Blank(r0) \in Cell
      BY <1>1, BlankType
    <3> QED BY <3>1, <3>2 DEF Written
  <2>2. buffer[active] \in [Cells(active) -> Cell]
    BY ActiveType
  <2> HIDE DEF W
  <2> QED BY <2>1, <2>2
<1>6. b2 \in [Cells(active) -> Cell]
  <2> HIDE DEF r0, r1, b1
  <2>1. r0.ready => r1.width = Width[active] /\ r1.height = Height[active]
    BY <1>1, <1>3
  <2> QED BY <1>1, <1>3, <1>5, <2>1, ScrolledType
<1>7. hw_shown' = hw_shown /\ active' = active
  BY DEF Putchar
<1>8. CASE \A w \in W : r0.ready /\ w[1] \in Cells(active)
  <2>1. Update(r3, b2) /\ wild' = FALSE
    BY <1>8 DEF Putchar
  <2>2. hw' = IF r3.cursor_enabled THEN HwPos(r3) ELSE hw
    BY <1>8 DEF Putchar
  <2>3. hw' \in 0..(U16 - 1)
    <3> HIDE DEF r3
    <3>1. r3 \in ConsoleT
      BY <1>4 DEF Good
    <3> QED BY <2>2, <3>1, HwPosType, ActiveType
  <2> HIDE DEF r0, r3, b2
  <2> QED BY <1>4, <1>6, <1>7, <2>1, <2>3, UpdateStep, ActiveType DEF r0
<1>9. CASE ~(\A w \in W : r0.ready /\ w[1] \in Cells(active))
  <2>1. wild' = TRUE /\ UNCHANGED <<con, buffer, hw>>
    BY <1>9 DEF Putchar
  <2>2. ~r0.ready
    <3> SUFFICES ASSUME r0.ready PROVE \A w \in W : w[1] \in Cells(active)
      BY <1>9
    <3>1. /\ r0.x \in Nat /\ r0.y \in Nat
          /\ r0.width \in Nat /\ r0.height \in Nat
          /\ r0.x < r0.width /\ r0.y < r0.height
          /\ r0.width = Width[active] /\ r0.height = Height[active]
      <4> HIDE DEF r0
      <4>1. Good(active, r0)
        BY ActiveType DEF r0
      <4> QED BY <1>1, <4>1 DEF Good, ConsoleT
    <3>2. \A k \in Nat : k < r0.width * r0.height => k \in Cells(active)
      <4> DEFINE n == r0.width * r0.height
      <4>1. n \in Nat
        BY <3>1
      <4>2. Cells(active) = 0..(n - 1)
        BY <3>1 DEF Cells
      <4> HIDE DEF n
      <4>3. \A k \in Nat : k < n => k \in 0..(n - 1)
        BY <4>1
      <4> QED BY <4>2, <4>3 DEF n
    <3>3. Index(r0) \in Nat /\ Index(r0) < r0.width * r0.height
      BY <3>1, IndexBound DEF Index
    <3>4. ASSUME r0.x > 0
          PROVE  Index(r0) - 1 \in Nat /\ Index(r0) - 1 < r0.width * r0.height
      <4>1. r0.x - 1 \in Nat /\ r0.x - 1 < r0.width
        BY <3>1, <3>4
      <4>2. /\ r0.y * r0.width + (r0.x - 1) \in Nat
            /\ r0.y * r0.width + (r0.x - 1) < r0.width * r0.height
        BY <3>1, <4>1, IndexBound
      <4>3. r0.y * r0.width \in Nat
        BY <3>1
      <4>4. Index(r0) - 1 = r0.y * r0.width + (r0.x - 1)
        BY <3>1, <4>3 DEF Index
      <4> QED BY <4>2, <4>4
    <3>5. \A w \in W : w[1] = Index(r0) \/ (w[1] = Index(r0) - 1 /\ r0.x > 0)
      BY DEF Written
    <3> HIDE DEF r0, W
    <3> QED BY <3>2, <3>3, <3>4, <3>5
  <2>3. active = Main
    BY <1>1, <2>2 DEF IInv, Shape
  <2> QED BY <1>7, <2>1, <2>2, <2>3
          DEF IInv, TypeOK, Shape, CursorOnScreen, WritesOnScreen
<1> QED BY <1>8, <1>9

\* console_init, which resets main_console and then clears the active console.
LEMMA ConsoleInitStep == IInv /\ ConsoleInit => IInv'
<1> SUFFICES ASSUME IInv, ConsoleInit PROVE IInv'
  OBVIOUS
<1> DEFINE cons == [con EXCEPT ![Main] = Fresh(Main, TRUE, TRUE)]
           r    == AtPos(cons[active], 0, 0)
           q    == [r EXCEPT !.cursor_enabled = TRUE]
<1>1. /\ con \in [Consoles -> ConsoleT] /\ active \in Consoles
      /\ Main \in Consoles
      /\ buffer = [c \in Consoles |-> buffer[c]]
      /\ \A c \in Consoles : buffer[c] \in [Cells(c) -> Cell]
  BY ConsoleAssumption DEF IInv, TypeOK
<1>2. /\ cons \in [Consoles -> ConsoleT]
      /\ \A c \in Consoles : Good(c, cons[c]) /\ cons[c].ready
  <2>1. Good(Main, Fresh(Main, TRUE, TRUE)) /\ Fresh(Main, TRUE, TRUE).ready
    BY <1>1, FreshGood
  <2>2. \A c \in Consoles :
            cons[c] = IF c = Main THEN Fresh(Main, TRUE, TRUE) ELSE con[c]
    BY <1>1
  <2>3. cons \in [Consoles -> ConsoleT]
    BY <1>1, <2>1 DEF Good
  <2> HIDE DEF cons
  <2>4. \A c \in Consoles : Good(c, con[c]) /\ (c # Main => con[c].ready)
    BY GoodActive DEF IInv, Shape
  <2> QED BY <2>1, <2>2, <2>3, <2>4
<1> HIDE DEF cons
<1>3. Good(active, r) /\ r.ready
  <2>1. /\ cons[active] \in ConsoleT /\ cons[active].ready
        /\ cons[active].width = Width[active] /\ cons[active].height = Height[active]
    BY <1>1, <1>2 DEF Good
  <2>2. Good(active, r) /\ r.ready = cons[active].ready
    BY <1>1, <2>1, AtPosGood
  <2> QED BY <2>1, <2>2
<1>4. Good(active, q) /\ q.ready
  <2> HIDE DEF r
  <2> QED BY <1>3 DEF Good, ConsoleT
<1>5. con' = [cons EXCEPT ![active] = q]
  BY DEF ConsoleInit, cons
<1>6. buffer' = [buffer EXCEPT ![active] = Erased(active, r)]
  BY DEF ConsoleInit, cons
<1>7. hw' = HwPos(r)
  BY DEF ConsoleInit, cons
<1>8. hw_shown' \in BOOLEAN /\ wild' \in BOOLEAN /\ ~wild' /\ active' = active
  <2>1. wild' = FALSE /\ active' = active
    BY DEF ConsoleInit, IInv, TypeOK
  <2>2. hw_shown' \in BOOLEAN
    BY DEF ConsoleInit
  <2> QED BY <2>1, <2>2, Zenon
<1> HIDE DEF r, q
<1>9. r \in ConsoleT
  BY <1>3 DEF Good
<1>10. con' \in [Consoles -> ConsoleT]
       /\ \A c \in Consoles : Good(c, con'[c]) /\ con'[c].ready
  <2>1. con' \in [Consoles -> ConsoleT]
    BY <1>2, <1>4, <1>5 DEF Good
  <2>2. \A c \in Consoles : con'[c] = IF c = active THEN q ELSE cons[c]
    BY <1>2, <1>5
  <2> QED BY <1>2, <1>4, <2>1, <2>2
<1>11. /\ buffer' = [c \in Consoles |-> buffer'[c]]
       /\ \A c \in Consoles : buffer'[c] \in [Cells(c) -> Cell]
  <2>1. Erased(active, r) \in [Cells(active) -> Cell]
    BY <1>1, <1>9, ErasedType
  <2>2. buffer' = [c \in Consoles |-> buffer'[c]]
    BY <1>1, <1>6
  <2>3. \A c \in Consoles :
            buffer'[c] = IF c = active THEN Erased(active, r) ELSE buffer[c]
    BY <1>1, <1>6
  <2> QED BY <1>1, <2>1, <2>2, <2>3
<1>12. hw' \in 0..(U16 - 1)
  BY <1>7, <1>9, HwPosType
<1>13. TypeOK'
  BY <1>1, <1>8, <1>10, <1>11, <1>12, Zenon DEF TypeOK
<1>14. Shape' /\ CursorOnScreen'
  BY <1>10 DEF Shape, CursorOnScreen, Good
<1>15. WritesOnScreen'
  BY <1>8 DEF WritesOnScreen
<1> QED BY <1>13, <1>14, <1>15 DEF IInv

\* The operations that change only fields of the active console.
LEMMA FieldStep ==
    ASSUME IInv,
           \/ \E fg, bg \in Hues : SetColor(fg, bg)
           \/ \E fg \in Hues : SetForeground(fg)
           \/ \E bg \in Hues : SetBackground(bg)
           \/ EnableCursor \/ DisableCursor
    PROVE  IInv'
<1> DEFINE r0 == con[active]
<1>1. /\ r0 \in ConsoleT /\ active \in Consoles /\ Good(active, r0)
      /\ hw \in 0..(U16 - 1) /\ hw_shown \in BOOLEAN
      /\ con \in [Consoles -> ConsoleT]
  BY ActiveType DEF IInv, TypeOK
<1>2. ASSUME NEW fg \in Hues, NEW bg \in Hues, SetColor(fg, bg) PROVE IInv'
  <2> DEFINE r == [r0 EXCEPT !.color = [fg |-> fg, bg |-> bg]]
  <2>1. con' = [con EXCEPT ![active] = r]
    BY <1>2 DEF SetColor
  <2>2. Good(active, r) /\ r.ready = r0.ready
    <3> HIDE DEF r0
    <3> QED BY <1>1 DEF Good, ConsoleT, Color
  <2>3. hw' = hw /\ hw_shown' = hw_shown /\ UNCHANGED <<buffer, active>>
        /\ wild' = FALSE
    BY <1>2 DEF SetColor, IInv, TypeOK
  <2> HIDE DEF r
  <2> QED BY <1>1, <2>1, <2>2, <2>3, RecordStep DEF r0
<1>3. ASSUME NEW f \in BOOLEAN, con' = [con EXCEPT ![active].cursor_enabled = f],
             hw' = hw, hw_shown' \in BOOLEAN, UNCHANGED <<buffer, active>>,
             wild' = FALSE
      PROVE  IInv'
  <2> DEFINE r == [r0 EXCEPT !.cursor_enabled = f]
  <2>1. con' = [con EXCEPT ![active] = r]
    BY <1>3
  <2>2. Good(active, r) /\ r.ready = r0.ready
    <3> HIDE DEF r0
    <3> QED BY <1>1 DEF Good, ConsoleT
  <2> HIDE DEF r
  <2> QED BY <1>1, <1>3, <2>1, <2>2, RecordStep DEF r0
<1>4. r0.color.fg \in Hues /\ r0.color.bg \in Hues
  BY <1>1 DEF ConsoleT, Color
<1>5. CASE \E fg, bg \in Hues : SetColor(fg, bg)
  BY <1>2, <1>5
<1>6. CASE \E fg \in Hues : SetForeground(fg)
  BY <1>2, <1>4, <1>6 DEF SetForeground
<1>7. CASE \E bg \in Hues : SetBackground(bg)
  BY <1>2, <1>4, <1>7 DEF SetBackground
<1>8. CASE EnableCursor
  <2>1. con' = [con EXCEPT ![active].cursor_enabled = TRUE] /\ hw' = hw
        /\ UNCHANGED <<buffer, active>>
    BY <1>8 DEF EnableCursor
  <2>2. hw_shown' \in BOOLEAN /\ wild' = FALSE
    BY <1>8 DEF EnableCursor, IInv, TypeOK
  <2> QED BY <1>3, <2>1, <2>2
<1>9. CASE DisableCursor
  <2>1. con' = [con EXCEPT ![active].cursor_enabled = FALSE] /\ hw' = hw
        /\ UNCHANGED <<buffer, active>>
    BY <1>9 DEF DisableCursor
  <2>2. hw_shown' \in BOOLEAN /\ wild' = FALSE
    BY <1>9 DEF DisableCursor, IInv, TypeOK
  <2> QED BY <1>3, <2>1, <2>2
<1> QED BY <1>5, <1>6, <1>7, <1>8, <1>9

\* Every operation of the console preserves the invariant.
LEMMA StepIInv == IInv /\ [Next]_vars => IInv'
<1> SUFFICES ASSUME IInv, [Next]_vars PROVE IInv'
  OBVIOUS
<1>1. CASE ConsoleInit
  BY <1>1, ConsoleInitStep
<1>2. CASE Clear
  <2> DEFINE r == AtPos(con[active], 0, 0)
             b == IF r.ready THEN Erased(active, r) ELSE buffer[active]
  <2>1. Good(active, r) /\ r.ready = con[active].ready
    BY ActiveType, AtPosGood
  <2>2. Update(r, b) /\ hw' = HwPos(r) /\ hw_shown' = hw_shown
        /\ active' = active /\ wild' = FALSE
    BY <1>2 DEF Clear, IInv, TypeOK
  <2> HIDE DEF r
  <2>3. r \in ConsoleT
    BY <2>1 DEF Good
  <2>4. b \in [Cells(active) -> Cell] /\ HwPos(r) \in 0..(U16 - 1)
    BY <2>3, ActiveType, ErasedType, HwPosType
  <2> HIDE DEF b
  <2> QED BY <2>1, <2>2, <2>4, ActiveType, UpdateStep
<1>3. CASE \E c \in Glyphs \cup Controls : Putchar(c)
  BY <1>3, PutcharStep
<1>4. CASE \/ \E fg, bg \in Hues : SetColor(fg, bg)
           \/ \E fg \in Hues : SetForeground(fg)
           \/ \E bg \in Hues : SetBackground(bg)
           \/ EnableCursor \/ DisableCursor
  BY <1>4, FieldStep
<1>5. ASSUME NEW px \in Coordinates, NEW py \in Coordinates,
             SetCursorPos(px, py)
      PROVE  IInv'
  <2> DEFINE r == AtPos(con[active], px, py)
  <2>1. px \in Nat /\ py \in Nat
    BY ConsoleAssumption
  <2>2. Good(active, r) /\ r.ready = con[active].ready
    BY <2>1, ActiveType, AtPosGood
  <2>3. con' = [con EXCEPT ![active] = r] /\ hw' = HwPos(r)
        /\ hw_shown' = hw_shown /\ UNCHANGED <<buffer, active>> /\ wild' = FALSE
    BY <1>5 DEF SetCursorPos, IInv, TypeOK
  <2> HIDE DEF r
  <2>4. HwPos(r) \in 0..(U16 - 1)
    BY <2>2, HwPosType DEF Good
  <2> QED BY <2>2, <2>3, <2>4, ActiveType, RecordStep
<1>6. CASE ScrollUp \/ ScrollDown
  <2> DEFINE r == con[active]
             u == ScrolledUp(active, r, buffer[active])
             d == ScrolledDown(active, r, buffer[active])
  <2>1. r.ready /\ (Update(r, u) \/ Update(r, d))
    BY <1>6 DEF ScrollUp, ScrollDown
  <2>2. hw' = hw /\ hw_shown' = hw_shown /\ active' = active /\ wild' = FALSE
    BY <1>6 DEF ScrollUp, ScrollDown, IInv, TypeOK
  <2>3. Good(active, r)
    BY ActiveType
  <2>4. u \in [Cells(active) -> Cell] /\ d \in [Cells(active) -> Cell]
    BY <2>1, ActiveType, ScrolledType
  <2> HIDE DEF u, d
  <2> QED BY <2>1, <2>2, <2>3, <2>4, ActiveType, UpdateStep
<1>7. CASE \E c \in Consoles : Switch(c)
  <2>1. active' \in Consoles /\ UNCHANGED <<con, buffer, hw, hw_shown, wild>>
        /\ ~wild
    BY <1>7 DEF Switch
  <2> QED BY <2>1 DEF IInv, TypeOK, Shape, CursorOnScreen, WritesOnScreen
<1>8. CASE UNCHANGED vars
  BY <1>8 DEF vars, IInv, TypeOK, Shape, CursorOnScreen, WritesOnScreen
<1> QED BY <1>1, <1>2, <1>3, <1>4, <1>5, <1>6, <1>7, <1>8 DEF Next

-----------------------------------------------------------------------------
(* The theorems.                                                           *)

\* The inductive invariant holds in every reachable state.
THEOREM Invariance == Spec => []IInv
<1>1. Init => IInv
  BY InitIInv
<1>2. IInv /\ [Next]_vars => IInv'
  BY StepIInv
<1> QED BY <1>1, <1>2, PTL DEF Spec

\* The console's variables and screens stay well typed: scrolling and
\* clearing read and write cells of the screen only.
THEOREM TypeCorrect == Spec => []TypeOK
<1>1. IInv => TypeOK
  BY DEF IInv
<1> QED BY <1>1, Invariance, PTL

\* The cursor of every console that is set up stays on its screen.
THEOREM CursorStays == Spec => []CursorOnScreen
<1>1. IInv => CursorOnScreen
  BY DEF IInv
<1> QED BY <1>1, Invariance, PTL

\* console_putchar never writes outside the screen of a console that is set up.
THEOREM WritesStay == Spec => []WritesOnScreen
<1>1. IInv => WritesOnScreen
  BY DEF IInv
<1> QED BY <1>1, Invariance, PTL

-----------------------------------------------------------------------------
(* The hardware cursor.                                                    *)

\* Its position depends on the cursor and the width alone.
LEMMA SameHwPos ==
    ASSUME NEW r, NEW q, q.x = r.x, q.y = r.y, q.width = r.width
    PROVE  HwPos(q) = HwPos(r)
  BY DEF HwPos, Index

\* console_putchar programs it whenever the cursor is visible.
LEMMA PutcharHw ==
    ASSUME IInv, HwAgrees, con[active].cursor_enabled,
           NEW c \in Glyphs \cup Controls, Putchar(c)
    PROVE  HwAgrees'
<1> DEFINE r0 == con[active]
           r1 == Wrapped(Moved(r0, c))
           r2 == BackOnScreen(r1)
           r3 == AtPos(r2, r2.x, r2.y)
<1>1. /\ r0 \in ConsoleT /\ active \in Consoles /\ con \in [Consoles -> ConsoleT]
      /\ r0.ready => r0.width = Width[active] /\ r0.height = Height[active]
  BY ActiveType DEF IInv, TypeOK
<1>2. SameScreen(r0, Moved(r0, c))
  BY <1>1, MovedType
<1>3. r2.cursor_enabled /\ r2 \in ConsoleT
  <2> DEFINE m == Moved(r0, c)
  <2>1. m \in ConsoleT /\ m.cursor_enabled /\ (m.ready => m.width = Width[active] /\ m.height = Height[active])
    BY <1>1, <1>2 DEF SameScreen
  <2> HIDE DEF m
  <2>2. SameScreen(m, BackOnScreen(Wrapped(m)))
    BY <1>1, <2>1, BackGood
  <2> QED BY <2>1, <2>2 DEF SameScreen, m
<1>4. r3.cursor_enabled
  <2> HIDE DEF r2
  <2> QED BY <1>3 DEF AtPos, ConsoleT
<1>5. active' = active /\ (UNCHANGED <<con, hw>> \/ (con'[active] = r3 /\ hw' = HwPos(r3)))
  <2>1. \/ UNCHANGED <<con, hw>>
        \/ con' = [con EXCEPT ![active] = r3] /\ hw' = HwPos(r3)
    BY <1>3, <1>4 DEF Putchar, Update
  <2>2. active' = active
    BY DEF Putchar
  <2> HIDE DEF r3
  <2> QED BY <1>1, <2>1, <2>2
<1> HIDE DEF r3
<1> QED BY <1>5 DEF HwAgrees

\* Every step of a console that stays active keeps the two cursors together.
LEMMA HwStep ==
    ASSUME IInv, HwAgrees, con[active].cursor_enabled, active' = active, [Next]_vars
    PROVE  HwAgrees'
<1>1. active \in Consoles /\ con \in [Consoles -> ConsoleT]
  BY DEF IInv, TypeOK
<1>2. CASE ConsoleInit
  <2> DEFINE cons == [con EXCEPT ![Main] = Fresh(Main, TRUE, TRUE)]
             r    == AtPos(cons[active], 0, 0)
             q    == [r EXCEPT !.cursor_enabled = TRUE]
  <2>1. hw' = HwPos(r) /\ con'[active] = q
    <3>1. con' = [cons EXCEPT ![active] = q] /\ hw' = HwPos(r)
      BY <1>2 DEF ConsoleInit
    <3>2. DOMAIN cons = Consoles
      BY <1>1
    <3> HIDE DEF cons, q
    <3> QED BY <1>1, <3>1, <3>2
  <2>2. HwPos(q) = HwPos(r)
    <3>1. q.x = r.x /\ q.y = r.y /\ q.width = r.width
      BY DEF AtPos
    <3> HIDE DEF q, r
    <3> QED BY <3>1, SameHwPos
  <2> QED BY <2>1, <2>2 DEF HwAgrees
<1>3. CASE Clear \/ \E px, py \in Coordinates : SetCursorPos(px, py)
  <2>1. PICK r : con' = [con EXCEPT ![active] = r] /\ hw' = HwPos(r)
    BY <1>3 DEF Clear, SetCursorPos, Update
  <2> QED BY <1>1, <2>1 DEF HwAgrees
<1>4. CASE \E c \in Glyphs \cup Controls : Putchar(c)
  BY <1>4, PutcharHw
<1>5. CASE \/ \E fg, bg \in Hues : SetColor(fg, bg)
           \/ \E fg \in Hues : SetForeground(fg)
           \/ \E bg \in Hues : SetBackground(bg)
           \/ EnableCursor \/ DisableCursor
  <2>1. /\ con'[active].x = con[active].x /\ con'[active].y = con[active].y
        /\ con'[active].width = con[active].width /\ hw' = hw
    BY <1>1, <1>5 DEF SetColor, SetForeground, SetBackground, EnableCursor, DisableCursor, ConsoleT
  <2> QED BY <2>1, SameHwPos DEF HwAgrees
<1>6. CASE ScrollUp \/ ScrollDown
  <2>1. con' = [con EXCEPT ![active] = con[active]] /\ hw' = hw
    BY <1>6 DEF ScrollUp, ScrollDown, Update
  <2> QED BY <1>1, <2>1 DEF HwAgrees
<1>7. CASE (\E c \in Consoles : Switch(c)) \/ UNCHANGED vars
  <2>1. con' = con /\ hw' = hw
    BY <1>7 DEF Switch, vars
  <2> QED BY <2>1 DEF HwAgrees
<1> QED BY <1>2, <1>3, <1>4, <1>5, <1>6, <1>7 DEF Next

\* While a console with a visible cursor stays active the hardware cursor
\* keeps up with it, for screens of every size.
THEOREM HardwareFollows == Spec => HwFollows
<1>1. IInv /\ [Next]_vars => [HwAgrees /\ con[active].cursor_enabled /\ active' = active
                              => HwAgrees']_vars
  BY HwStep
<1> QED BY <1>1, Invariance, PTL DEF Spec, HwFollows

-----------------------------------------------------------------------------
(* The copy loops.                                                         *)

\* Copies within D of which none reads or writes what an earlier one has written.
InOrder(copies, k, D) ==
    /\ \A n \in 0..(k - 1) : copies[n][1] \in D /\ copies[n][2] \in D
    /\ \A m, n \in 0..(k - 1) : m < n => /\ copies[m][1] # copies[n][2]
                                         /\ copies[m][1] # copies[n][1]

\* One copy.
CopyCell(g, c) == [g EXCEPT ![c[1]] = g[c[2]]]

\* f[n] is the screen after n copies.
CopySteps(f, b, copies, k) ==
    /\ f[0] = b /\ f[k] = Copied(b, copies, k)
    /\ \A n \in 1..k : f[n] = CopyCell(f[n - 1], copies[n - 1])

\* The copies are taken one after the other.
LEMMA CopiedSteps ==
    ASSUME NEW D, NEW S, NEW b \in [D -> S], NEW k \in Nat, NEW copies, InOrder(copies, k, D)
    PROVE  \E f \in [0..k -> [D -> S]] : CopySteps(f, b, copies, k)
<1> DEFINE G == [D -> S]
           F == [n \in 1..k |-> [g \in G |-> CopyCell(g, copies[n - 1])]]
           after[n \in 0..k] ==
               IF n = 0 THEN b
               ELSE [after[n - 1] EXCEPT ![copies[n - 1][1]] = after[n - 1][copies[n - 1][2]]]
<1>1. ASSUME NEW n \in 1..k, NEW g \in G
      PROVE  CopyCell(g, copies[n - 1]) \in G
  <2>1. n - 1 \in 0..(k - 1)
    OBVIOUS
  <2>2. copies[n - 1][1] \in D /\ copies[n - 1][2] \in D
    BY <2>1 DEF InOrder
  <2> QED BY <2>2 DEF CopyCell
<1>2. F \in [1..k -> [G -> G]]
  BY <1>1
<1>3. PICK f \in [0..k -> G] : Iterates(f, b, F, k)
  <2> HIDE DEF F, G
  <2>1. b \in G
    BY DEF G
  <2> QED BY <1>2, <2>1, RecursionExists
<1>4. f[0] = b /\ \A n \in 1..k : f[n] = F[n][f[n - 1]]
  BY <1>3 DEF Iterates
<1>5. \A n \in 1..k : f[n] = CopyCell(f[n - 1], copies[n - 1])
  <2>1. ASSUME NEW n \in 1..k
        PROVE  f[n] = CopyCell(f[n - 1], copies[n - 1])
    <3>1. n - 1 \in 0..k
      OBVIOUS
    <3>2. f[n - 1] \in G
      BY <1>3, <3>1
    <3> HIDE DEF G
    <3>3. F[n][f[n - 1]] = CopyCell(f[n - 1], copies[n - 1])
      BY <3>2
    <3> QED BY <1>4, <3>3
  <2> QED BY <2>1
<1> HIDE DEF F
<1>6. ASSUME NEW n \in 0..k
      PROVE  f[n] = IF n = 0 THEN b
                    ELSE [f[n - 1] EXCEPT ![copies[n - 1][1]] = f[n - 1][copies[n - 1][2]]]
  <2>1. CASE n = 0
    BY <1>4, <2>1
  <2>2. CASE n # 0
    <3>1. n \in 1..k
      BY <2>2
    <3> QED BY <1>5, <2>2, <3>1 DEF CopyCell
  <2> QED BY <2>1, <2>2
<1>7. f = [n \in 0..k |-> IF n = 0 THEN b
              ELSE [f[n - 1] EXCEPT ![copies[n - 1][1]] = f[n - 1][copies[n - 1][2]]]]
  <2> HIDE DEF G
  <2> QED BY <1>3, <1>6
<1>8. after = [n \in 0..k |-> IF n = 0 THEN b
              ELSE [after[n - 1] EXCEPT ![copies[n - 1][1]] = after[n - 1][copies[n - 1][2]]]]
  BY <1>7, Zenon
<1>9. Copied(b, copies, k) = after[k]
  BY DEF Copied
<1> HIDE DEF after
<1>10. after[0] = b /\ \A n \in 1..k : after[n] = CopyCell(after[n - 1], copies[n - 1])
  <2>1. ASSUME NEW n \in 0..k
        PROVE  after[n] = IF n = 0 THEN b ELSE CopyCell(after[n - 1], copies[n - 1])
    BY <1>8 DEF CopyCell
  <2>2. after[0] = b
    BY <2>1
  <2>3. ASSUME NEW n \in 1..k
        PROVE  after[n] = CopyCell(after[n - 1], copies[n - 1])
    <3>1. n \in 0..k /\ n # 0
      OBVIOUS
    <3> QED BY <2>1, <3>1
  <2> QED BY <2>2, <2>3
<1> DEFINE same == {n \in Nat : n =< k => after[n] = f[n]}
<1>11. 0 \in same
  BY <1>4, <1>10
<1>12. ASSUME NEW n \in same
       PROVE  n + 1 \in same
  <2>1. CASE n + 1 =< k
    <3>1. n + 1 \in 1..k /\ (n + 1) - 1 = n /\ n =< k
      BY <2>1
    <3>2. after[n + 1] = CopyCell(after[n], copies[n]) /\ f[n + 1] = CopyCell(f[n], copies[n])
      BY <1>5, <1>10, <3>1
    <3> QED BY <3>1, <3>2
  <2> QED BY <2>1
<1>13. k \in same
  <2> HIDE DEF same
  <2>1. same \in SUBSET Nat
    BY DEF same
  <2> QED BY <1>11, <1>12, <2>1, Induction
<1>14. after[k] = f[k]
  BY <1>13
<1>15. CopySteps(f, b, copies, k)
  BY <1>4, <1>5, <1>9, <1>14 DEF CopySteps
<1> QED BY <1>3, <1>15

\* The first k of the copies take their cells from b to g.
Moves(g, b, copies, k) == \A n \in 0..(k - 1) : g[copies[n][1]] = b[copies[n][2]]

\* What the copies in order amount to: each delivers what was there at first.
LEMMA CopiedResult ==
    ASSUME NEW D, NEW S, NEW b \in [D -> S], NEW k \in Nat, NEW copies, InOrder(copies, k, D)
    PROVE  Moves(Copied(b, copies, k), b, copies, k)
<1>0. PICK f \in [0..k -> [D -> S]] : CopySteps(f, b, copies, k)
  BY CopiedSteps, Zenon
<1>1. /\ f[0] = b /\ f[k] = Copied(b, copies, k)
      /\ \A n \in 1..k : f[n] = CopyCell(f[n - 1], copies[n - 1])
  BY <1>0 DEF CopySteps
<1> DEFINE Delivers(n) == /\ \A m \in 0..(n - 1) : f[n][copies[m][1]] = b[copies[m][2]]
                          /\ \A i \in D : (\A m \in 0..(n - 1) : copies[m][1] # i) => f[n][i] = b[i]
           good == {n \in Nat : n =< k => Delivers(n)}
<1>2. 0 \in good
  <2>1. \A m : m \notin 0..(0 - 1)
    OBVIOUS
  <2> QED BY <1>1, <2>1
<1>3. ASSUME NEW n \in good, n + 1 =< k
      PROVE  Delivers(n + 1)
  <2>1. n \in Nat /\ n \in 0..(k - 1) /\ n \in 0..k /\ n + 1 \in 1..k /\ (n + 1) - 1 = n /\ Delivers(n)
    BY <1>3
  <2>2. PICK g \in [D -> S] : g = f[n]
    BY <2>1
  <2>3. PICK t \in D : t = copies[n][1]
    BY <2>1 DEF InOrder
  <2>4. PICK s \in D : s = copies[n][2]
    BY <2>1 DEF InOrder
  <2>5. f[n + 1] = [g EXCEPT ![t] = g[s]]
    BY <1>1, <2>1, <2>2, <2>3, <2>4, ZenonT(40) DEF CopyCell
  <2>6. f[n + 1][t] = g[s] /\ \A i \in D : i # t => f[n + 1][i] = g[i]
    BY <2>5
  <2>7. \A m \in 0..(n - 1) : /\ m \in 0..(k - 1) /\ m < n /\ copies[m][1] \in D
                              /\ copies[m][1] # s /\ copies[m][1] # t
    <3>1. ASSUME NEW m \in 0..(n - 1)
          PROVE  m \in 0..(k - 1) /\ m < n
      BY <2>1
    <3> QED BY <2>1, <2>3, <2>4, <3>1 DEF InOrder
  <2>8. g[s] = b[s]
    BY <2>1, <2>2, <2>7
  <2>9. ASSUME NEW m \in 0..((n + 1) - 1)
        PROVE  f[n + 1][copies[m][1]] = b[copies[m][2]]
    <3>1. CASE m = n
      BY <2>3, <2>4, <2>6, <2>8, <3>1
    <3>2. CASE m # n
      <4>1. m \in 0..(n - 1)
        BY <2>1, <3>2
      <4> QED BY <2>1, <2>2, <2>6, <2>7, <4>1
    <3> QED BY <3>1, <3>2
  <2>10. ASSUME NEW i \in D, \A m \in 0..((n + 1) - 1) : copies[m][1] # i
         PROVE  f[n + 1][i] = b[i]
    <3>1. \A m \in 0..(n - 1) : m \in 0..((n + 1) - 1)
      BY <2>1
    <3>2. n \in 0..((n + 1) - 1)
      BY <2>1
    <3>3. i # t
      BY <2>3, <2>10, <3>2
    <3>4. \A m \in 0..(n - 1) : copies[m][1] # i
      BY <2>10, <3>1
    <3>5. g[i] = b[i]
      BY <2>1, <2>2, <3>4
    <3> QED BY <2>6, <3>3, <3>5
  <2> QED BY <2>9, <2>10
<1>4. k \in good
  <2>1. ASSUME NEW n \in good
        PROVE  n + 1 \in good
    <3> HIDE DEF Delivers
    <3>1. n + 1 \in Nat /\ (n + 1 =< k => Delivers(n + 1))
      BY <1>3
    <3> QED BY <3>1
  <2> HIDE DEF good
  <2>2. good \in SUBSET Nat
    BY DEF good
  <2> QED BY <1>2, <2>1, <2>2, Induction
<1>5. Delivers(k)
  BY <1>4
<1> QED BY <1>1, <1>5 DEF Moves

\* Quotient and remainder.
LEMMA DivMod ==
    ASSUME NEW n \in Nat, NEW w \in Nat \ {0}
    PROVE  /\ n \div w \in Nat /\ n % w \in 0..(w - 1)
           /\ n = (n \div w) * w + (n % w)
<1>1. n \div w \in Int /\ n % w \in 0..(w-1)
    OBVIOUS
<1>2. n = (n \div w) * w + (n % w)
    OBVIOUS
<1>3. n \div w \in Nat
   BY <1>1, <1>2
<1> QED BY <1>1, <1>2, <1>3

\* A row begins where the rows above it end.
LEMMA RowBelow ==
    ASSUME NEW p \in Int, NEW q \in Int, p < q, NEW w \in Nat
    PROVE  p * w + w =< q * w /\ p * w \in Int /\ q * w \in Int
<1>1. PICK d \in Nat : q = p + 1 + d
  <2>1. q - p - 1 \in Nat /\ q = p + 1 + (q - p - 1)
    OBVIOUS
  <2> QED BY <2>1
<1>2. q * w = p * w + w + d * w
  BY <1>1
<1>3. d * w \in Nat /\ p * w \in Int /\ q * w \in Int
  OBVIOUS
<1> QED BY <1>2, <1>3

\* A cell of a screen of width w is in one row and one column.
LEMMA SameRow ==
    ASSUME NEW p \in Int, NEW q \in Int, NEW w \in Nat \ {0}, NEW x \in 0..(w - 1), NEW y \in 0..(w - 1),
           p * w + x = q * w + y
    PROVE  p = q /\ x = y
<1>1. p * w \in Int /\ q * w \in Int
  OBVIOUS
<1>2. ~(p < q)
  <2>1. p < q => p * w + w =< q * w
    BY RowBelow
  <2> QED BY <1>1, <2>1
<1>3. ~(q < p)
  <2>1. q < p => q * w + w =< p * w
    BY RowBelow
  <2> QED BY <1>1, <2>1
<1>4. p = q
  BY <1>2, <1>3
<1> QED BY <1>1, <1>4

\* The cells of w * h - 1, and those of all rows but one.
LEMMA ScreenSize ==
    ASSUME NEW w \in Nat \ {0}, NEW h \in Nat \ {0}
    PROVE  (h - 1) * w \in Nat /\ w * h = (h - 1) * w + w
<1>1. h - 1 \in Nat
  OBVIOUS
<1>2. (h - 1) * w \in Nat
  BY <1>1
<1>3. w * h = (h - 1) * w + w
  OBVIOUS
<1> QED BY <1>2, <1>3

\* Scrolling up row after row is in order.
LEMMA UpInOrder ==
    ASSUME NEW r, NEW w \in Nat \ {0}, NEW h \in Nat \ {0}, r.width = w, r.height = h
    PROVE  InOrder(UpCopies(r), (h - 1) * w, 0..(w * h - 1))
<1>1. PICK k \in Nat : k = (h - 1) * w /\ w * h = k + w
  BY ScreenSize
<1>2. \A n \in 0..(k - 1) : UpCopies(r)[n] = <<n, n + w>>
  BY <1>1 DEF UpCopies
<1>3. \A n \in 0..(k - 1) : UpCopies(r)[n][1] = n /\ UpCopies(r)[n][2] = n + w
  BY <1>2
<1> HIDE DEF UpCopies
<1>4. \A n \in 0..(k - 1) : n \in 0..((k + w) - 1) /\ n + w \in 0..((k + w) - 1)
  OBVIOUS
<1>5. \A m, n \in 0..(k - 1) : m < n => m # n + w /\ m # n
  OBVIOUS
<1>6. InOrder(UpCopies(r), k, 0..((k + w) - 1))
  BY <1>3, <1>4, <1>5 DEF InOrder
<1> QED BY <1>1, <1>6

\* Where the n-th copy of scrolling down goes.
LEMMA DownCopy ==
    ASSUME NEW r, NEW w \in Nat \ {0}, NEW h \in Nat \ {0}, r.width = w, r.height = h,
           NEW n \in 0..((h - 1) * w - 1)
    PROVE  /\ DownCopies(r)[n][1] = (h - 1 - n \div w) * w + (n % w)
           /\ DownCopies(r)[n][2] = DownCopies(r)[n][1] - w
           /\ h - 1 - n \div w \in 1..(h - 1)
           /\ DownCopies(r)[n][1] \in w..(w * h - 1)
<1>1. PICK k \in Nat : k = (h - 1) * w /\ w * h = k + w
  BY ScreenSize
<1>2. n \in Nat /\ n < k
  BY <1>1
<1>3. PICK q \in Nat, x \in 0..(w - 1) : q = n \div w /\ x = n % w /\ n = q * w + x
  <2>1. n \div w \in Nat /\ n % w \in 0..(w - 1) /\ n = (n \div w) * w + (n % w)
    BY <1>2, DivMod
  <2> QED BY <2>1, Zenon
<1>4. DownCopies(r)[n] = <<(h - 1 - q) * w + x, (h - 1 - q - 1) * w + x>>
  BY <1>3 DEF DownCopies
<1> HIDE DEF DownCopies
<1>5. PICK y \in Int : y = h - 1 - q
  OBVIOUS
<1>6. (y - 1) * w + x = (y * w + x) - w
  OBVIOUS
<1>7. DownCopies(r)[n][1] = y * w + x /\ DownCopies(r)[n][2] = (y * w + x) - w
  BY <1>4, <1>5, <1>6
<1>8. q < h - 1
  <2>1. h - 1 < q => (h - 1) * w + w =< q * w /\ q * w \in Int
    BY RowBelow
  <2>2. h - 1 = q => q * w = k
    BY <1>1
  <2> QED BY <1>1, <1>2, <1>3, <2>1, <2>2
<1>9. y \in 1..(h - 1)
  BY <1>5, <1>8
<1>10. w =< y * w /\ y * w =< k /\ y * w \in Int
  <2>1. 0 < y /\ 0 * w = 0
    BY <1>9
  <2>2. 0 * w + w =< y * w /\ y * w \in Int
    BY <2>1, RowBelow
  <2>3. y < h - 1 => y * w + w =< (h - 1) * w
    BY RowBelow
  <2>4. y = h - 1 => y * w = k
    BY <1>1
  <2> QED BY <1>1, <1>9, <2>1, <2>2, <2>3, <2>4
<1>11. y * w + x \in w..((k + w) - 1)
  BY <1>10
<1> QED BY <1>1, <1>3, <1>5, <1>7, <1>9, <1>11

\* Scrolling down from the last row is in order.
LEMMA DownInOrder ==
    ASSUME NEW r, NEW w \in Nat \ {0}, NEW h \in Nat \ {0}, r.width = w, r.height = h
    PROVE  InOrder(DownCopies(r), (h - 1) * w, 0..(w * h - 1))
<1>1. PICK k \in Nat : k = (h - 1) * w /\ w * h = k + w
  BY ScreenSize
<1>2. ASSUME NEW n \in 0..(k - 1)
      PROVE  DownCopies(r)[n][1] \in 0..(w * h - 1) /\ DownCopies(r)[n][2] \in 0..(w * h - 1)
  <2>1. DownCopies(r)[n][2] = DownCopies(r)[n][1] - w /\ DownCopies(r)[n][1] \in w..(w * h - 1)
    BY <1>1, DownCopy
  <2> HIDE DEF DownCopies
  <2> QED BY <1>1, <2>1
<1>3. ASSUME NEW m \in 0..(k - 1), NEW n \in 0..(k - 1), m < n
      PROVE  DownCopies(r)[m][1] # DownCopies(r)[n][2] /\ DownCopies(r)[m][1] # DownCopies(r)[n][1]
  <2>1. m \in Nat /\ n \in Nat
    OBVIOUS
  <2>2. PICK p \in Nat, x \in 0..(w - 1) : p = m \div w /\ x = m % w /\ m = p * w + x
    <3>1. m \div w \in Nat /\ m % w \in 0..(w - 1) /\ m = (m \div w) * w + (m % w)
      BY <2>1, DivMod
    <3> QED BY <3>1, Zenon
  <2>3. PICK q \in Nat, y \in 0..(w - 1) : q = n \div w /\ y = n % w /\ n = q * w + y
    <3>1. n \div w \in Nat /\ n % w \in 0..(w - 1) /\ n = (n \div w) * w + (n % w)
      BY <2>1, DivMod
    <3> QED BY <3>1, Zenon
  <2>4. PICK a \in Int : a = h - 1 - p
    OBVIOUS
  <2>5. PICK c \in Int : c = h - 1 - q
    OBVIOUS
  <2>6. DownCopies(r)[m][1] = a * w + x
    BY <1>1, <2>2, <2>4, DownCopy
  <2>7. DownCopies(r)[n][1] = c * w + y /\ DownCopies(r)[n][2] = (c * w + y) - w
    BY <1>1, <2>3, <2>5, DownCopy
  <2> HIDE DEF DownCopies
  <2>8. a * w + x # c * w + y
    <3>1. SUFFICES ASSUME a * w + x = c * w + y PROVE FALSE
      OBVIOUS
    <3>2. a = c /\ x = y
      BY <3>1, SameRow
    <3>3. p = q
      BY <2>4, <2>5, <3>2
    <3> QED BY <1>3, <2>2, <2>3, <3>2, <3>3
  <2>9. a * w + x # (c * w + y) - w
    <3>1. SUFFICES ASSUME a * w + x = (c * w + y) - w PROVE FALSE
      OBVIOUS
    <3>2. (c * w + y) - w = (c - 1) * w + y /\ c - 1 \in Int
      OBVIOUS
    <3>3. a = c - 1
      BY <3>1, <3>2, SameRow
    <3>4. q < p
      BY <2>4, <2>5, <3>3
    <3>5. q * w + w =< p * w /\ q * w \in Int /\ p * w \in Int
      BY <3>4, RowBelow
    <3> QED BY <1>3, <2>2, <2>3, <3>5
  <2> QED BY <2>6, <2>7, <2>8, <2>9
<1> HIDE DEF DownCopies
<1>4. InOrder(DownCopies(r), k, 0..(w * h - 1))
  BY <1>2, <1>3 DEF InOrder
<1> QED BY <1>1, <1>4

\* Scrolling down reaches every cell below the first row.
LEMMA DownCovers ==
    ASSUME NEW r, NEW w \in Nat \ {0}, NEW h \in Nat \ {0}, r.width = w, r.height = h,
           NEW i \in w..(w * h - 1)
    PROVE  \E n \in 0..((h - 1) * w - 1) : DownCopies(r)[n][1] = i
<1>1. PICK k \in Nat : k = (h - 1) * w /\ w * h = k + w
  BY ScreenSize
<1>2. i \in Nat /\ w =< i /\ i < k + w
  BY <1>1
<1>3. PICK q \in Nat, x \in 0..(w - 1) : i = q * w + x
  <2>1. i \div w \in Nat /\ i % w \in 0..(w - 1) /\ i = (i \div w) * w + (i % w)
    BY <1>2, DivMod
  <2> QED BY <2>1, Zenon
<1>4. q # 0
  <2>1. 0 * w = 0
    OBVIOUS
  <2> QED BY <1>2, <1>3, <2>1
<1>5. q =< h - 1
  <2>1. h - 1 < q => (h - 1) * w + w =< q * w /\ q * w \in Int
    BY RowBelow
  <2> QED BY <1>1, <1>2, <1>3, <2>1
<1>6. PICK p \in Nat : p = h - 1 - q
  BY <1>5
<1>7. p * w \in Nat /\ p * w + w =< k
  <2>1. p < h - 1
    BY <1>4, <1>6
  <2>2. p * w + w =< (h - 1) * w
    BY <2>1, RowBelow
  <2> QED BY <1>1, <2>2
<1>8. PICK n \in 0..(k - 1) : n = p * w + x
  BY <1>7
<1>9. n \div w \in Nat /\ n % w \in 0..(w - 1) /\ n = (n \div w) * w + (n % w)
  <2>1. n \in Nat
    OBVIOUS
  <2> QED BY <2>1, DivMod
<1>10. PICK d \in Nat, y \in 0..(w - 1) : d = n \div w /\ y = n % w /\ n = d * w + y
  BY <1>9, Zenon
<1>11. d * w + y = p * w + x
  BY <1>8, <1>10
<1>12. d = p /\ y = x
  BY <1>11, SameRow
<1>13. DownCopies(r)[n][1] = (h - 1 - n \div w) * w + (n % w)
  BY <1>1, DownCopy
<1> HIDE DEF DownCopies
<1>14. h - 1 - p = q
  BY <1>6
<1>15. DownCopies(r)[n][1] = i
  BY <1>3, <1>10, <1>12, <1>13, <1>14
<1> QED BY <1>1, <1>15

\* The loop of console_scroll_up moves every row up by one.
LEMMA UpLoopScrolls ==
    ASSUME NEW c \in Consoles, NEW r, r.width = Width[c], r.height = Height[c],
           NEW b \in [Cells(c) -> Cell]
    PROVE  UpLoop(r, b) = ScrolledUp(c, r, b)
<1>1. PICK w \in Nat \ {0} : w = Width[c]
  BY ConsoleAssumption
<1>2. PICK h \in Nat \ {0} : h = Height[c]
  BY ConsoleAssumption
<1>3. PICK k \in Nat : k = (h - 1) * w /\ w * h = k + w
  BY ScreenSize
<1>4. r.width = w /\ r.height = h /\ Cells(c) = 0..((k + w) - 1) /\ DOMAIN b = Cells(c)
  BY <1>1, <1>2, <1>3 DEF Cells
<1>5. InOrder(UpCopies(r), k, Cells(c))
  <2>1. InOrder(UpCopies(r), (h - 1) * w, 0..(w * h - 1))
    BY <1>4, UpInOrder
  <2> QED BY <1>3, <1>4, <2>1
<1>6. \A n \in 0..(k - 1) : Copied(b, UpCopies(r), k)[UpCopies(r)[n][1]] = b[UpCopies(r)[n][2]]
  <2>1. Moves(Copied(b, UpCopies(r), k), b, UpCopies(r), k)
    BY <1>5, CopiedResult, Zenon
  <2> QED BY <2>1 DEF Moves
<1>7. \A n \in 0..(k - 1) : UpCopies(r)[n] = <<n, n + w>>
  BY <1>3, <1>4 DEF UpCopies
<1>8. \A n \in 0..(k - 1) : Copied(b, UpCopies(r), k)[n] = b[n + w]
  BY <1>6, <1>7
<1>9. ASSUME NEW i \in Cells(c)
      PROVE  (IF i >= k THEN Blank(r) ELSE Copied(b, UpCopies(r), k)[i])
             = (IF i < k THEN b[i + w] ELSE Blank(r))
  <2>1. i \in Nat
    BY <1>4
  <2>2. CASE i < k
    <3>1. i \in 0..(k - 1)
      BY <2>1, <2>2
    <3>2. Copied(b, UpCopies(r), k)[i] = b[i + w]
      BY <1>8, <3>1
    <3> QED BY <2>1, <2>2, <3>2
  <2>3. CASE ~(i < k)
    BY <2>1, <2>3
  <2> QED BY <2>2, <2>3
<1>10. UpLoop(r, b) = [i \in Cells(c) |-> IF i >= k THEN Blank(r) ELSE Copied(b, UpCopies(r), k)[i]]
  BY <1>3, <1>4, Zenon DEF UpLoop
<1>11. ScrolledUp(c, r, b) = [i \in Cells(c) |-> IF i < k THEN b[i + w] ELSE Blank(r)]
  BY <1>3, <1>4, Zenon DEF ScrolledUp
<1> QED BY <1>9, <1>10, <1>11, Zenon

\* The loop of console_scroll_down moves every row down by one.
LEMMA DownLoopScrolls ==
    ASSUME NEW c \in Consoles, NEW r, r.width = Width[c], r.height = Height[c],
           NEW b \in [Cells(c) -> Cell]
    PROVE  DownLoop(r, b) = ScrolledDown(c, r, b)
<1>1. PICK w \in Nat \ {0} : w = Width[c]
  BY ConsoleAssumption
<1>2. PICK h \in Nat \ {0} : h = Height[c]
  BY ConsoleAssumption
<1>3. PICK k \in Nat : k = (h - 1) * w /\ w * h = k + w
  BY ScreenSize
<1>4. /\ r.width = w /\ r.height = h
      /\ Cells(c) = 0..(w * h - 1) /\ Cells(c) = 0..((k + w) - 1) /\ DOMAIN b = Cells(c)
  BY <1>1, <1>2, <1>3 DEF Cells
<1>5. InOrder(DownCopies(r), k, Cells(c))
  <2>1. InOrder(DownCopies(r), (h - 1) * w, 0..(w * h - 1))
    BY <1>4, DownInOrder
  <2> QED BY <1>3, <1>4, <2>1
<1>6. \A n \in 0..(k - 1) : Copied(b, DownCopies(r), k)[DownCopies(r)[n][1]] = b[DownCopies(r)[n][2]]
  <2>1. Moves(Copied(b, DownCopies(r), k), b, DownCopies(r), k)
    BY <1>5, CopiedResult, Zenon
  <2> QED BY <2>1 DEF Moves
<1>7. ASSUME NEW i \in Cells(c)
      PROVE  (IF i < w THEN Blank(r) ELSE Copied(b, DownCopies(r), k)[i])
             = (IF i >= w THEN b[i - w] ELSE Blank(r))
  <2>1. i \in Nat
    BY <1>4
  <2>2. CASE i < w
    BY <2>1, <2>2
  <2>3. CASE ~(i < w)
    <3>1. i \in w..(w * h - 1)
      BY <1>3, <1>4, <2>1, <2>3
    <3>2. PICK n \in 0..((h - 1) * w - 1) : DownCopies(r)[n][1] = i
      BY <1>4, <3>1, DownCovers
    <3>3. DownCopies(r)[n][2] = DownCopies(r)[n][1] - w
      BY <1>4, DownCopy
    <3> HIDE DEF DownCopies
    <3>4. Copied(b, DownCopies(r), k)[i] = b[i - w]
      BY <1>3, <1>6, <3>2, <3>3
    <3> QED BY <2>1, <2>3, <3>4
  <2> QED BY <2>2, <2>3
<1>8. DownLoop(r, b) = [i \in Cells(c) |-> IF i < w THEN Blank(r) ELSE Copied(b, DownCopies(r), k)[i]]
  BY <1>3, <1>4, Zenon DEF DownLoop
<1>9. ScrolledDown(c, r, b) = [i \in Cells(c) |-> IF i >= w THEN b[i - w] ELSE Blank(r)]
  BY <1>4, Zenon DEF ScrolledDown
<1> QED BY <1>7, <1>8, <1>9, Zenon

(***************************************************************************)
(* On screens of every size the in-place copy loops of console_scroll_up   *)
(* and console_scroll_down are the scrolls that Console takes as one step. *)
(***************************************************************************)
THEOREM LoopsAreScrolls == Spec => []LoopsScroll
<1>1. IInv => LoopsScroll
  <2>1. SUFFICES ASSUME IInv, NEW c \in Consoles, con[c].ready
                 PROVE  /\ UpLoop(con[c], buffer[c]) = ScrolledUp(c, con[c], buffer[c])
                        /\ DownLoop(con[c], buffer[c]) = ScrolledDown(c, con[c], buffer[c])
    BY DEF LoopsScroll
  <2>2. con[c].width = Width[c] /\ con[c].height = Height[c]
    BY <2>1 DEF IInv, Shape
  <2>3. buffer[c] \in [Cells(c) -> Cell]
    BY <2>1 DEF IInv, TypeOK
  <2> QED BY <2>2, <2>3, UpLoopScrolls, DownLoopScrolls, Zenon
<1> QED BY <1>1, Invariance, PTL

-----------------------------------------------------------------------------
(* The console implements the terminal.                                    *)

\* The rows and columns of a flat screen of main_console.
GridOf(b) == [r \in 0..(Height[Main] - 1) |->
                 [k \in 0..(Width[Main] - 1) |-> b[r * Width[Main] + k]]]

\* A row of blanks.
BlankRow(r) == [k \in 0..(Width[Main] - 1) |-> Blank(r)]

\* The size of main_console.
LEMMA MainSize ==
    \E w \in Nat \ {0}, h \in Nat \ {0} :
        /\ w = Width[Main] /\ h = Height[Main] /\ Main \in Consoles
        /\ w + TabStop < U32 /\ h + 2 < U32
        /\ Cells(Main) = 0..(w * h - 1)
<1>1. Width[Main] \in Nat \ {0} /\ Height[Main] \in Nat \ {0} /\ Main \in Consoles
  BY ConsoleAssumption
<1>2. Width[Main] + TabStop < U32 /\ Height[Main] + 2 < U32
  BY <1>1, ConsoleAssumption
<1> QED BY <1>1, <1>2, Zenon DEF Cells

\* A row and a column make a cell.
LEMMA CellOf ==
    ASSUME NEW w \in Nat \ {0}, NEW h \in Nat \ {0},
           NEW y \in 0..(h - 1), NEW x \in 0..(w - 1)
    PROVE  y * w \in Nat /\ y * w + x \in 0..(w * h - 1)
<1>1. y * w \in Nat /\ x < w /\ y < h /\ x \in Nat /\ y \in Nat
  OBVIOUS
<1>2. y * w + x \in Nat /\ y * w + x < w * h
  BY <1>1, IndexBound
<1>3. w * h \in Nat
  OBVIOUS
<1>4. PICK n \in Nat : n = w * h
  BY <1>3
<1>5. PICK i \in Nat : i = y * w + x
  BY <1>2
<1>6. i \in 0..(n - 1)
  BY <1>2, <1>4, <1>5
<1> QED BY <1>1, <1>4, <1>5, <1>6

\* Scrolling up the flat screen rolls the rows up.
LEMMA GridUp ==
    ASSUME NEW r, r.width = Width[Main], r.height = Height[Main], NEW b
    PROVE  GridOf(ScrolledUp(Main, r, b))
             = [y \in 0..(Height[Main] - 1) |->
                   IF y = Height[Main] - 1 THEN BlankRow(r) ELSE GridOf(b)[y + 1]]
<1>1. PICK w \in Nat \ {0}, h \in Nat \ {0} :
         w = Width[Main] /\ h = Height[Main] /\ Cells(Main) = 0..(w * h - 1)
  BY MainSize
<1> DEFINE s == ScrolledUp(Main, r, b)
<1>2. \A i \in 0..(w * h - 1) : s[i] = IF i < (h - 1) * w THEN b[i + w] ELSE Blank(r)
  BY <1>1 DEF ScrolledUp
<1> HIDE DEF s
<1>3. ASSUME NEW y \in 0..(h - 1), NEW x \in 0..(w - 1)
      PROVE  s[y * w + x] = IF y = h - 1 THEN Blank(r) ELSE b[(y + 1) * w + x]
  <2>1. y * w \in Nat /\ y * w + x \in 0..(w * h - 1)
    BY CellOf
  <2>2. CASE y = h - 1
    <3>1. ~(y * w + x < (h - 1) * w)
      BY <2>1, <2>2
    <3> QED BY <1>2, <2>1, <2>2, <3>1
  <2>3. CASE y # h - 1
    <3>1. y < h - 1
      BY <2>3
    <3>2. y * w + w =< (h - 1) * w /\ (h - 1) * w \in Int
      BY <3>1, RowBelow
    <3>3. y * w + x < (h - 1) * w
      BY <2>1, <3>2
    <3>4. (y * w + x) + w = (y + 1) * w + x
      BY <2>1
    <3> QED BY <1>2, <2>1, <2>3, <3>3, <3>4
  <2> QED BY <2>2, <2>3
<1>4. ASSUME NEW y \in 0..(h - 1)
      PROVE  [x \in 0..(w - 1) |-> s[y * w + x]]
               = IF y = h - 1 THEN BlankRow(r) ELSE GridOf(b)[y + 1]
  <2>1. CASE y = h - 1
    BY <1>1, <1>3, <2>1 DEF BlankRow
  <2>2. CASE y # h - 1
    <3>1. y + 1 \in 0..(h - 1)
      BY <2>2
    <3>2. GridOf(b)[y + 1] = [x \in 0..(w - 1) |-> b[(y + 1) * w + x]]
      BY <1>1, <3>1 DEF GridOf
    <3> QED BY <1>3, <2>2, <3>2
  <2> QED BY <2>1, <2>2
<1>5. GridOf(s) = [y \in 0..(h - 1) |-> [x \in 0..(w - 1) |-> s[y * w + x]]]
  BY <1>1, Zenon DEF GridOf
<1> QED BY <1>1, <1>4, <1>5, ZenonT(40) DEF s

\* Scrolling down the flat screen rolls the rows down.
LEMMA GridDown ==
    ASSUME NEW r, r.width = Width[Main], r.height = Height[Main], NEW b
    PROVE  GridOf(ScrolledDown(Main, r, b))
             = [y \in 0..(Height[Main] - 1) |->
                   IF y = 0 THEN BlankRow(r) ELSE GridOf(b)[y - 1]]
<1>1. PICK w \in Nat \ {0}, h \in Nat \ {0} :
         w = Width[Main] /\ h = Height[Main] /\ Cells(Main) = 0..(w * h - 1)
  BY MainSize
<1> DEFINE s == ScrolledDown(Main, r, b)
<1>2. \A i \in 0..(w * h - 1) : s[i] = IF i >= w THEN b[i - w] ELSE Blank(r)
  BY <1>1 DEF ScrolledDown
<1> HIDE DEF s
<1>3. ASSUME NEW y \in 0..(h - 1), NEW x \in 0..(w - 1)
      PROVE  s[y * w + x] = IF y = 0 THEN Blank(r) ELSE b[(y - 1) * w + x]
  <2>1. y * w \in Nat /\ y * w + x \in 0..(w * h - 1)
    BY CellOf
  <2>2. CASE y = 0
    <3>1. y * w = 0
      BY <2>2
    <3>2. ~(y * w + x >= w)
      BY <3>1
    <3> QED BY <1>2, <2>1, <2>2, <3>2
  <2>3. CASE y # 0
    <3>1. 0 < y /\ 0 * w = 0
      BY <2>3
    <3>2. 0 * w + w =< y * w
      BY <3>1, RowBelow
    <3>3. y * w + x >= w
      BY <2>1, <3>1, <3>2
    <3>4. (y * w + x) - w = (y - 1) * w + x
      BY <2>1
    <3> QED BY <1>2, <2>1, <2>3, <3>3, <3>4
  <2> QED BY <2>2, <2>3
<1>4. ASSUME NEW y \in 0..(h - 1)
      PROVE  [x \in 0..(w - 1) |-> s[y * w + x]]
               = IF y = 0 THEN BlankRow(r) ELSE GridOf(b)[y - 1]
  <2>1. CASE y = 0
    BY <1>1, <1>3, <2>1 DEF BlankRow
  <2>2. CASE y # 0
    <3>1. y - 1 \in 0..(h - 1)
      BY <2>2
    <3>2. GridOf(b)[y - 1] = [x \in 0..(w - 1) |-> b[(y - 1) * w + x]]
      BY <1>1, <3>1 DEF GridOf
    <3> QED BY <1>3, <2>2, <3>2
  <2> QED BY <2>1, <2>2
<1>5. GridOf(s) = [y \in 0..(h - 1) |-> [x \in 0..(w - 1) |-> s[y * w + x]]]
  BY <1>1, Zenon DEF GridOf
<1> QED BY <1>1, <1>4, <1>5, ZenonT(40) DEF s

\* The grid with another cell in one place.
PutAt(g, y, x, v) == [g EXCEPT ![y][x] = v]

\* One cell written in the flat screen is one cell of the grid.
LEMMA GridPut ==
    ASSUME NEW b, NEW y \in 0..(Height[Main] - 1), NEW x \in 0..(Width[Main] - 1), NEW v
    PROVE  GridOf([i \in Cells(Main) |-> IF i = y * Width[Main] + x THEN v ELSE b[i]])
             = PutAt(GridOf(b), y, x, v)
<1>1. PICK w \in Nat \ {0}, h \in Nat \ {0} :
         w = Width[Main] /\ h = Height[Main] /\ Cells(Main) = 0..(w * h - 1)
  BY MainSize
<1> DEFINE s == [i \in 0..(w * h - 1) |-> IF i = y * w + x THEN v ELSE b[i]]
<1>2. y \in 0..(h - 1) /\ x \in 0..(w - 1)
  BY <1>1
<1>3. ASSUME NEW p \in 0..(h - 1), NEW q \in 0..(w - 1)
      PROVE  s[p * w + q] = IF p = y /\ q = x THEN v ELSE b[p * w + q]
  <2>1. p * w + q \in 0..(w * h - 1)
    BY CellOf
  <2>2. p * w + q = y * w + x => p = y /\ q = x
    <3>1. p \in Int /\ y \in Int
      BY <1>2
    <3> QED BY <1>2, <3>1, SameRow
  <2>3. s[p * w + q] = IF p * w + q = y * w + x THEN v ELSE b[p * w + q]
    BY <2>1
  <2> HIDE DEF s
  <2> QED BY <2>2, <2>3
<1> HIDE DEF s
<1>4. GridOf(s) = [p \in 0..(h - 1) |-> [q \in 0..(w - 1) |-> s[p * w + q]]]
  BY <1>1, Zenon DEF GridOf
<1>5. GridOf(b) = [p \in 0..(h - 1) |-> [q \in 0..(w - 1) |-> b[p * w + q]]]
  BY <1>1, Zenon DEF GridOf
<1> DEFINE t == [GridOf(b) EXCEPT ![y][x] = v]
<1>6. ASSUME NEW p \in 0..(h - 1)
      PROVE  t[p] = [q \in 0..(w - 1) |-> s[p * w + q]]
  <2>1. GridOf(b)[p] = [q \in 0..(w - 1) |-> b[p * w + q]]
    BY <1>5
  <2>2. CASE p = y
    <3>1. t[p] = [GridOf(b)[p] EXCEPT ![x] = v]
      BY <1>2, <1>5, <2>2
    <3> HIDE DEF t
    <3>2. t[p] = [q \in 0..(w - 1) |-> IF q = x THEN v ELSE b[p * w + q]]
      BY <2>1, <3>1
    <3> QED BY <1>3, <2>2, <3>2
  <2>3. CASE p # y
    <3>1. t[p] = GridOf(b)[p]
      BY <1>2, <1>5, <2>3
    <3> HIDE DEF t
    <3> QED BY <1>3, <2>1, <2>3, <3>1
  <2> QED BY <2>2, <2>3
<1>7. t = [p \in 0..(h - 1) |-> t[p]]
  BY <1>5
<1> HIDE DEF t
<1>8. GridOf(s) = t
  BY <1>4, <1>6, <1>7
<1> QED BY <1>1, <1>8 DEF s, t, PutAt

\* A blanked screen is a blank grid.
LEMMA GridErased ==
    ASSUME NEW r
    PROVE  GridOf(Erased(Main, r)) = [y \in 0..(Height[Main] - 1) |-> BlankRow(r)]
<1>1. PICK w \in Nat \ {0}, h \in Nat \ {0} :
         w = Width[Main] /\ h = Height[Main] /\ Cells(Main) = 0..(w * h - 1)
  BY MainSize
<1>2. ASSUME NEW p \in 0..(h - 1), NEW q \in 0..(w - 1)
      PROVE  Erased(Main, r)[p * w + q] = Blank(r)
  <2>1. p * w + q \in Cells(Main)
    BY <1>1, CellOf
  <2> QED BY <2>1 DEF Erased
<1>3. GridOf(Erased(Main, r)) = [p \in 0..(h - 1) |-> [q \in 0..(w - 1) |-> Erased(Main, r)[p * w + q]]]
  BY <1>1, Zenon DEF GridOf
<1>4. ASSUME NEW p \in 0..(h - 1)
      PROVE  [q \in 0..(w - 1) |-> Erased(Main, r)[p * w + q]] = BlankRow(r)
  BY <1>1, <1>2 DEF BlankRow
<1> QED BY <1>1, <1>3, <1>4, Zenon

\* What console_putchar makes of a moved cursor and of the screen.
Final(r) ==
    LET q == BackOnScreen(Wrapped(r))
    IN  IF q.cursor_enabled THEN AtPos(q, q.x, q.y) ELSE q
Rolled(r, b) ==
    IF Overflows(Wrapped(r)) /\ Wrapped(r).scroll_enabled
    THEN ScrolledUp(Main, Wrapped(r), b) ELSE b

\* A console of the size of main_console.
OfMain(r) == r \in ConsoleT /\ r.ready /\ r.width = Width[Main] /\ r.height = Height[Main]

\* Storing the position once more does not change it.
LEMMA FinalIsBack ==
    ASSUME NEW r, OfMain(r)
    PROVE  /\ SameScreen(r, Final(r)) /\ SameScreen(r, Wrapped(r))
           /\ Final(r).x = BackOnScreen(Wrapped(r)).x /\ Final(r).y = BackOnScreen(Wrapped(r)).y
<1> DEFINE q == BackOnScreen(Wrapped(r))
<1>1. /\ SameScreen(r, Wrapped(r)) /\ SameScreen(r, q) /\ Good(Main, q) /\ q.ready
  BY ConsoleAssumption, BackGood DEF OfMain
<1> HIDE DEF q
<1>2. /\ q \in ConsoleT /\ q.x < q.width /\ q.y < q.height
      /\ q.x \in Nat /\ q.y \in Nat /\ q.width \in Nat /\ q.height \in Nat
  BY <1>1 DEF Good, ConsoleT
<1>3. Clamp(q.x, q.width) = q.x /\ Clamp(q.y, q.height) = q.y
  BY <1>2 DEF Clamp
<1>4. AtPos(q, q.x, q.y) = q
  BY <1>2, <1>3 DEF AtPos, ConsoleT
<1>5. Final(r) = q
  BY <1>4 DEF Final, q
<1> QED BY <1>1, <1>5 DEF q

\* A cursor that is on the screen stays where it is.
LEMMA FinalStays ==
    ASSUME NEW r, OfMain(r), r.x < r.width, r.y < r.height, NEW b
    PROVE  Final(r).x = r.x /\ Final(r).y = r.y /\ Rolled(r, b) = b
<1>1. r.x \in Nat /\ r.y \in Nat /\ r.width \in Nat /\ r.height \in Nat
  BY DEF OfMain, ConsoleT
<1>2. Wrapped(r) = r
  BY <1>1 DEF Wrapped
<1>3. ~Overflows(r)
  BY <1>1 DEF Overflows
<1> QED BY <1>2, <1>3, FinalIsBack DEF BackOnScreen, Rolled

\* A cursor at the start of the next row stays there, or the screen rolls,
\* or the cursor starts again at the top.
LEMMA FinalFeeds ==
    ASSUME NEW r, OfMain(r), NEW y \in Nat, y < Height[Main],
           Wrapped(r).x = 0, Wrapped(r).y = y + 1, NEW b
    PROVE  /\ Final(r).x = 0
           /\ \/ y + 1 < Height[Main] /\ Final(r).y = y + 1 /\ Rolled(r, b) = b
              \/ /\ y + 1 = Height[Main] /\ r.scroll_enabled /\ Final(r).y = y
                 /\ Rolled(r, b) = ScrolledUp(Main, Wrapped(r), b)
              \/ y + 1 = Height[Main] /\ ~r.scroll_enabled /\ Final(r).y = 0 /\ Rolled(r, b) = b
<1>1. PICK h \in Nat \ {0} : h = Height[Main] /\ h + 2 < U32
  BY MainSize
<1> DEFINE q == Wrapped(r)
<1>2. SameScreen(r, q)
  BY FinalIsBack
<1>3. q \in ConsoleT /\ q.height = h /\ q.scroll_enabled = r.scroll_enabled /\ q.x = 0 /\ q.y = y + 1
  BY <1>1, <1>2 DEF SameScreen, OfMain
<1>4. Final(r).x = BackOnScreen(q).x /\ Final(r).y = BackOnScreen(q).y
  BY FinalIsBack
<1>5. Rolled(r, b) = IF Overflows(q) /\ q.scroll_enabled THEN ScrolledUp(Main, q, b) ELSE b
  BY DEF Rolled
<1> HIDE DEF q
<1>6. BackOnScreen(q).x = 0
  BY <1>3 DEF BackOnScreen, ConsoleT
<1>7. CASE y + 1 < h
  <2>1. ~Overflows(q)
    BY <1>3, <1>7 DEF Overflows
  <2> QED BY <1>1, <1>3, <1>4, <1>5, <1>6, <1>7, <2>1 DEF BackOnScreen
<1>8. CASE ~(y + 1 < h)
  <2>1. y + 1 = h
    BY <1>1, <1>8
  <2>2. Overflows(q)
    BY <1>3, <2>1 DEF Overflows
  <2>3. h < U32
    BY <1>1, ConsoleAssumption
  <2>4. Dec(h) = y
    BY <2>1, <2>3, DecBelow
  <2>5. BackOnScreen(q).y = IF r.scroll_enabled THEN y ELSE 0
    BY <1>3, <2>2, <2>4 DEF BackOnScreen, ConsoleT
  <2>6. Rolled(r, b) = IF r.scroll_enabled THEN ScrolledUp(Main, q, b) ELSE b
    BY <1>3, <1>5, <2>2
  <2>7. r.scroll_enabled \in BOOLEAN
    BY DEF OfMain, ConsoleT
  <2> QED BY <1>1, <1>4, <1>6, <2>1, <2>5, <2>6, <2>7 DEF q
<1> QED BY <1>7, <1>8

\* The screen of main_console after the write of console_putchar.
Drawn(r, c, b) ==
    [i \in Cells(Main) |->
        IF \E w \in Written(r, c) : w[1] = i
        THEN (CHOOSE w \in Written(r, c) : w[1] = i)[2] ELSE b[i]]

\* A glyph is written at the cursor, a rubout to the left of it.
LEMMA DrawnGrid ==
    ASSUME NEW r, OfMain(r), r.x < r.width, r.y < r.height,
           NEW c \in Glyphs \cup Controls, NEW b \in [Cells(Main) -> Cell]
    PROVE  /\ c \in Glyphs => GridOf(Drawn(r, c, b))
                                = PutAt(GridOf(b), r.y, r.x, [ch |-> c, color |-> r.color])
           /\ c = "BS" /\ r.x > 0 => GridOf(Drawn(r, c, b))
                                       = PutAt(GridOf(b), r.y, r.x - 1, Blank(r))
           /\ c \notin Glyphs /\ ~(c = "BS" /\ r.x > 0) => Drawn(r, c, b) = b
<1>1. PICK w \in Nat \ {0}, h \in Nat \ {0} : w = Width[Main] /\ h = Height[Main]
  BY MainSize
<1>2. /\ r.x \in Nat /\ r.y \in Nat /\ r.width = w /\ r.height = h
      /\ r.y \in 0..(Height[Main] - 1) /\ r.x \in 0..(Width[Main] - 1)
  BY <1>1 DEF OfMain, ConsoleT
<1>3. ASSUME NEW k, NEW v, Written(r, c) = {<<k, v>>}
      PROVE  Drawn(r, c, b) = [i \in Cells(Main) |-> IF i = k THEN v ELSE b[i]]
  <2>1. ASSUME NEW i
        PROVE  (IF \E u \in {<<k, v>>} : u[1] = i THEN (CHOOSE u \in {<<k, v>>} : u[1] = i)[2] ELSE b[i])
               = (IF i = k THEN v ELSE b[i])
    <3>1. <<k, v>>[1] = k /\ <<k, v>>[2] = v
      OBVIOUS
    <3>2. (\E u \in {<<k, v>>} : u[1] = i) <=> i = k
      BY <3>1
    <3>3. ASSUME i = k PROVE (CHOOSE u \in {<<k, v>>} : u[1] = i) = <<k, v>>
      BY <3>1, <3>3
    <3> QED BY <3>1, <3>2, <3>3
  <2>2. Drawn(r, c, b) = [i \in Cells(Main) |->
            IF \E u \in {<<k, v>>} : u[1] = i THEN (CHOOSE u \in {<<k, v>>} : u[1] = i)[2] ELSE b[i]]
    BY <1>3 DEF Drawn
  <2> QED BY <2>1, <2>2, Zenon
<1>4. CASE c \in Glyphs
  <2>1. Written(r, c) = {<<r.y * Width[Main] + r.x, [ch |-> c, color |-> r.color]>>}
    BY <1>1, <1>2, <1>4 DEF Written, Index
  <2>2. c # "BS"
    BY <1>4, ConsoleAssumption
  <2>3. Drawn(r, c, b) = [i \in Cells(Main) |-> IF i = r.y * Width[Main] + r.x
                                                THEN [ch |-> c, color |-> r.color] ELSE b[i]]
    BY <1>3, <2>1, ZenonT(40)
  <2>4. GridOf([i \in Cells(Main) |-> IF i = r.y * Width[Main] + r.x
                                      THEN [ch |-> c, color |-> r.color] ELSE b[i]])
          = PutAt(GridOf(b), r.y, r.x, [ch |-> c, color |-> r.color])
    BY <1>2, GridPut, Zenon
  <2>5. GridOf(Drawn(r, c, b)) = PutAt(GridOf(b), r.y, r.x, [ch |-> c, color |-> r.color])
    BY <2>3, <2>4, Zenon
  <2> QED BY <1>4, <2>2, <2>5, Zenon
<1>5. CASE c \notin Glyphs /\ c = "BS" /\ r.x > 0
  <2>1. Written(r, c) = {<<Index(r) - 1, Blank(r)>>}
    BY <1>5 DEF Written
  <2>2. r.y * w \in Nat /\ r.x - 1 \in 0..(w - 1)
    BY <1>1, <1>2, <1>5
  <2>3. Index(r) - 1 = r.y * Width[Main] + (r.x - 1) /\ r.x - 1 \in 0..(Width[Main] - 1)
    BY <1>1, <1>2, <2>2 DEF Index
  <2>4. GridOf([i \in Cells(Main) |-> IF i = r.y * Width[Main] + (r.x - 1) THEN Blank(r) ELSE b[i]])
          = PutAt(GridOf(b), r.y, r.x - 1, Blank(r))
    BY <1>2, <2>3, GridPut, Zenon
  <2>5. Drawn(r, c, b) = [i \in Cells(Main) |-> IF i = Index(r) - 1 THEN Blank(r) ELSE b[i]]
    BY <1>3, <2>1, Zenon
  <2>6. GridOf(Drawn(r, c, b)) = PutAt(GridOf(b), r.y, r.x - 1, Blank(r))
    BY <2>3, <2>4, <2>5, Zenon
  <2> QED BY <1>5, <2>6, Zenon
<1>6. CASE c \notin Glyphs /\ ~(c = "BS" /\ r.x > 0)
  <2>1. Written(r, c) = {}
    BY <1>6 DEF Written
  <2> QED BY <1>6, <2>1 DEF Drawn
<1> QED BY <1>4, <1>5, <1>6

\* What the terminal shows of a console that is set up.
LEMMA View ==
    /\ shown => asGrid = GridOf(buffer[Main]) /\ mainView = con[Main]
    /\ shown' => asGrid' = GridOf(buffer'[Main]) /\ mainView' = con'[Main]
  BY DEF shown, asGrid, mainView, GridOf

\* main_console, once it is set up.
LEMMA MainShown ==
    ASSUME IInv, shown
    PROVE  /\ OfMain(con[Main]) /\ con[Main].x < con[Main].width /\ con[Main].y < con[Main].height
           /\ con[Main].x \in Nat /\ con[Main].y \in Nat
           /\ buffer[Main] \in [Cells(Main) -> Cell]
<1>1. Main \in Consoles
  BY ConsoleAssumption
<1>2. con[Main] \in ConsoleT /\ buffer[Main] \in [Cells(Main) -> Cell]
  BY <1>1 DEF IInv, TypeOK
<1> QED BY <1>1, <1>2 DEF IInv, Shape, CursorOnScreen, OfMain, shown, ConsoleT

\* The cursor goes to the next row.
LEMMA FeedStep ==
    ASSUME IInv, shown, NEW m, OfMain(m), SameScreen(con[Main], m),
           Wrapped(m).x = 0, Wrapped(m).y = con[Main].y + 1,
           NEW b, con'[Main] = Final(m), buffer'[Main] = Rolled(m, b), shown'
    PROVE  T!Feed(GridOf(b))
<1>1. PICK y \in Nat : y = con[Main].y /\ y < Height[Main]
  BY MainShown DEF OfMain
<1>2. /\ asGrid' = GridOf(Rolled(m, b)) /\ mainView = con[Main] /\ mainView' = Final(m)
  BY View
<1>3. /\ Final(m).x = 0
      /\ \/ y + 1 < Height[Main] /\ Final(m).y = y + 1 /\ Rolled(m, b) = b
         \/ /\ y + 1 = Height[Main] /\ m.scroll_enabled /\ Final(m).y = y
            /\ Rolled(m, b) = ScrolledUp(Main, Wrapped(m), b)
         \/ y + 1 = Height[Main] /\ ~m.scroll_enabled /\ Final(m).y = 0 /\ Rolled(m, b) = b
  BY <1>1, FinalFeeds
<1>4. m.scroll_enabled = mainView.scroll_enabled /\ mainView.y = y
  BY <1>1, <1>2 DEF SameScreen
<1>5. GridOf(ScrolledUp(Main, Wrapped(m), b)) = T!RolledUp(GridOf(b))
  <2>1. SameScreen(m, Wrapped(m))
    BY FinalIsBack
  <2>2. Wrapped(m).width = Width[Main] /\ Wrapped(m).height = Height[Main] /\ Wrapped(m).color = mainView.color
    BY <1>2, <2>1 DEF SameScreen, OfMain
  <2>3. BlankRow(Wrapped(m)) = T!EmptyRow
    BY <2>2 DEF BlankRow, Blank, T!EmptyRow
  <2>4. GridOf(ScrolledUp(Main, Wrapped(m), b))
           = [p \in 0..(Height[Main] - 1) |->
                 IF p = Height[Main] - 1 THEN BlankRow(Wrapped(m)) ELSE GridOf(b)[p + 1]]
    BY <2>2, GridUp
  <2> QED BY <2>3, <2>4, Zenon DEF T!RolledUp
<1> QED BY <1>2, <1>3, <1>4, <1>5, Zenon DEF T!Feed

\* The cursor goes to another column, or to the next row.
LEMMA AdvanceStep ==
    ASSUME IInv, shown, NEW k \in Nat, k < U32, NEW m, OfMain(m), SameScreen(con[Main], m),
           m.x = k, m.y = con[Main].y,
           NEW b, con'[Main] = Final(m), buffer'[Main] = Rolled(m, b), shown'
    PROVE  T!Advance(k, GridOf(b))
<1>1. PICK h \in Nat \ {0} : h = Height[Main] /\ h + 2 < U32
  BY MainSize
<1>2. PICK y \in Nat : y = con[Main].y /\ y < h
  BY <1>1, MainShown DEF OfMain
<1>3. PICK w \in Nat : w = Width[Main]
  BY MainSize
<1>4. /\ asGrid' = GridOf(Rolled(m, b)) /\ mainView = con[Main] /\ mainView' = Final(m)
  BY View
<1>5. m.width = w /\ m.height = h
  BY <1>1, <1>3 DEF OfMain
<1>6. CASE k < w
  <2>1. Final(m).x = k /\ Final(m).y = y /\ Rolled(m, b) = b
    BY <1>2, <1>5, <1>6, FinalStays
  <2> QED BY <1>2, <1>3, <1>4, <1>6, <2>1 DEF T!Advance
<1>7. CASE ~(k < w)
  <2>1. Inc(y) = y + 1
    <3>1. y + 1 \in 0..(U32 - 1) /\ U32 \in Nat
      BY <1>1, <1>2, ConsoleAssumption
    <3> QED BY <3>1 DEF Inc
  <2>2. Wrapped(m) = [m EXCEPT !.x = 0, !.y = y + 1]
    BY <1>2, <1>5, <1>7, <2>1 DEF Wrapped
  <2>3. Wrapped(m).x = 0 /\ Wrapped(m).y = con[Main].y + 1
    BY <1>2, <2>2 DEF OfMain, ConsoleT
  <2>4. T!Feed(GridOf(b))
    BY <2>3, FeedStep
  <2> QED BY <1>3, <1>7, <2>4 DEF T!Advance
<1> QED BY <1>6, <1>7

\* The next tab stop.
LEMMA TabColumn ==
    ASSUME NEW x \in Nat, x < Width[Main]
    PROVE  \E k \in (x + 1)..(x + TabStop) :
               /\ k = ((x + TabStop) \div TabStop) * TabStop % U32
               /\ k % TabStop = 0 /\ k < U32
<1>1. PICK t \in Nat \ {0} : t = TabStop
  BY ConsoleAssumption
<1>2. PICK w \in Nat : w = Width[Main] /\ w + t < U32
  BY <1>1, MainSize
<1>3. x + t \in Nat
  OBVIOUS
<1>4. PICK q \in Nat, e \in 0..(t - 1) : q = (x + t) \div t /\ x + t = q * t + e
  <2>1. (x + t) \div t \in Nat /\ (x + t) % t \in 0..(t - 1) /\ x + t = ((x + t) \div t) * t + ((x + t) % t)
    BY <1>3, DivMod
  <2> QED BY <2>1, Zenon
<1>5. q * t \in Nat
  OBVIOUS
<1>6. PICK k \in Nat : k = q * t
  BY <1>5
<1>7. k \in (x + 1)..(x + t) /\ k < U32
  BY <1>2, <1>4, <1>6, ConsoleAssumption
<1>8. k % t = 0
  <2>1. k \div t \in Nat /\ k % t \in 0..(t - 1) /\ k = (k \div t) * t + (k % t)
    BY DivMod
  <2>2. PICK d \in Nat, f \in 0..(t - 1) : f = k % t /\ k = d * t + f
    BY <2>1, Zenon
  <2>3. d * t + f = q * t + 0 /\ 0 \in 0..(t - 1) /\ d \in Int /\ q \in Int
    BY <1>6, <2>2
  <2>4. f = 0
    BY <2>3, SameRow
  <2> QED BY <2>2, <2>4
<1>9. (q * t) % U32 = k
  BY <1>6, <1>7, ConsoleAssumption
<1> QED BY <1>1, <1>4, <1>7, <1>8, <1>9

\* What console_putchar does on main_console.
LEMMA PutcharMain ==
    ASSUME IInv, shown, active = Main, NEW c \in Glyphs \cup Controls, Putchar(c)
    PROVE  /\ con'[Main] = Final(Moved(con[Main], c))
           /\ buffer'[Main] = Rolled(Moved(con[Main], c), Drawn(con[Main], c, buffer[Main]))
           /\ SameScreen(con[Main], Moved(con[Main], c)) /\ OfMain(Moved(con[Main], c))
           /\ shown' /\ UNCHANGED <<mainView.color, mainView.scroll_enabled>>
<1>1. OfMain(con[Main]) /\ Main \in Consoles /\ con \in [Consoles -> ConsoleT] /\ DOMAIN buffer = Consoles
  BY MainShown, ConsoleAssumption DEF IInv, TypeOK
<1> DEFINE m == Moved(con[Main], c)
<1>2. SameScreen(con[Main], m)
  BY <1>1, MovedType DEF OfMain
<1>3. OfMain(m)
  BY <1>1, <1>2 DEF OfMain, SameScreen
<1>4. /\ con' = [con EXCEPT ![Main] = Final(m)]
      /\ buffer' = [buffer EXCEPT ![Main] = Rolled(m, Drawn(con[Main], c, buffer[Main]))]
  <2>1. CASE wild'
    <3>1. con' = con
      BY <2>1 DEF Putchar
    <3>2. IInv'
      BY PutcharStep
    <3> QED BY <2>1, <3>1, <3>2 DEF IInv, WritesOnScreen, shown
  <2>2. CASE ~wild'
    BY <2>2 DEF Putchar, Update, Final, Rolled, Drawn, shown
  <2> QED BY <2>1, <2>2
<1> HIDE DEF m
<1>5. con'[Main] = Final(m) /\ buffer'[Main] = Rolled(m, Drawn(con[Main], c, buffer[Main]))
  BY <1>1, <1>4
<1>6. SameScreen(m, Final(m))
  BY <1>3, FinalIsBack
<1>7. shown' /\ con'[Main].color = con[Main].color /\ con'[Main].scroll_enabled = con[Main].scroll_enabled
  BY <1>2, <1>3, <1>5, <1>6 DEF SameScreen, OfMain, shown
<1>8. UNCHANGED <<mainView.color, mainView.scroll_enabled>>
  BY <1>7, View
<1> QED BY <1>2, <1>3, <1>5, <1>7, <1>8 DEF m

\* console_putchar writes as the terminal does, or does nothing.
LEMMA PutcharWrites ==
    ASSUME IInv, shown, active = Main, NEW c \in Glyphs \cup Controls, Putchar(c)
    PROVE  T!Writing \/ UNCHANGED T!tvars
<1> DEFINE r == con[Main]
           m == Moved(r, c)
           b == Drawn(r, c, buffer[Main])
<1>1. /\ con'[Main] = Final(m) /\ buffer'[Main] = Rolled(m, b)
      /\ SameScreen(r, m) /\ OfMain(m)
      /\ shown' /\ UNCHANGED <<mainView.color, mainView.scroll_enabled>>
  BY PutcharMain
<1>2. UNCHANGED <<shown, mainView.color, mainView.scroll_enabled>>
  BY <1>1
<1>3. /\ OfMain(r) /\ r.x < r.width /\ r.y < r.height /\ r.x \in Nat /\ r.y \in Nat
      /\ buffer[Main] \in [Cells(Main) -> Cell]
  BY MainShown
<1>4. asGrid = GridOf(buffer[Main]) /\ mainView = r
  BY View
<1>5. /\ c \in Glyphs => GridOf(b) = PutAt(asGrid, r.y, r.x, [ch |-> c, color |-> r.color])
      /\ c = "BS" /\ r.x > 0 => GridOf(b) = PutAt(asGrid, r.y, r.x - 1, Blank(r))
      /\ c \notin Glyphs /\ ~(c = "BS" /\ r.x > 0) => b = buffer[Main]
  BY <1>3, <1>4, DrawnGrid
<1>6. PICK w \in Nat, h \in Nat : /\ w = r.width /\ h = r.height /\ w + TabStop < U32 /\ h + 2 < U32
                                  /\ TabStop \in Nat \ {0} /\ U32 \in Nat /\ w = Width[Main]
  BY <1>3, MainSize, ConsoleAssumption DEF OfMain
<1>7. CASE c \in Glyphs
  <2>1. m = [r EXCEPT !.x = Inc(r.x)]
    BY <1>7, ConsoleAssumption DEF Moved
  <2>2. Inc(r.x) = r.x + 1 /\ r.x + 1 \in Nat /\ r.x + 1 < U32
    <3>1. r.x + 1 \in 0..(U32 - 1)
      BY <1>3, <1>6
    <3> QED BY <1>6, <3>1 DEF Inc
  <2>3. m.x = r.x + 1 /\ m.y = r.y
    BY <1>3, <2>1, <2>2 DEF OfMain, ConsoleT
  <2> HIDE DEF m, b
  <2>4. T!Advance(r.x + 1, GridOf(b))
    BY <1>1, <2>2, <2>3, AdvanceStep
  <2>5. T!Type(c)
    BY <1>4, <1>5, <1>7, <2>4 DEF T!Type, PutAt
  <2> QED BY <1>2, <1>7, <2>5 DEF T!Writing
<1>8. CASE c = "LF" /\ c \notin Glyphs
  <2>1. m = [r EXCEPT !.x = 0, !.y = Inc(r.y)]
    BY <1>8, ConsoleAssumption DEF Moved
  <2>2. Inc(r.y) = r.y + 1
    <3>1. r.y + 1 \in 0..(U32 - 1)
      BY <1>3, <1>6
    <3> QED BY <1>6, <3>1 DEF Inc
  <2>3. m.x = 0 /\ m.y = r.y + 1 /\ m.width = w
    BY <1>3, <1>6, <2>1, <2>2 DEF OfMain, ConsoleT
  <2> HIDE DEF m, b
  <2>4. Wrapped(m) = m
    BY <1>3, <1>6, <2>3 DEF Wrapped
  <2>5. T!Feed(GridOf(b))
    BY <1>1, <2>3, <2>4, FeedStep
  <2>6. T!LineFeed
    BY <1>4, <1>5, <1>8, <2>5 DEF T!LineFeed
  <2> QED BY <1>2, <2>6 DEF T!Writing
<1>9. CASE c \in {"CR", "BS"} /\ c \notin Glyphs
  <2>1. PICK k \in Nat : k =< r.x /\ m = [r EXCEPT !.x = k] /\ k = IF c = "CR" THEN 0 ELSE IF r.x > 0 THEN r.x - 1 ELSE r.x
    <3>1. CASE c = "CR"
      <4>1. m = [r EXCEPT !.x = 0] /\ 0 \in Nat /\ 0 =< r.x
        BY <1>3, <1>9, <3>1, ConsoleAssumption DEF Moved
      <4> QED BY <3>1, <4>1
    <3>2. CASE c = "BS"
      <4>1. m = [r EXCEPT !.x = IF r.x > 0 THEN r.x - 1 ELSE r.x]
        BY <1>9, <3>2, ConsoleAssumption DEF Moved
      <4>2. (IF r.x > 0 THEN r.x - 1 ELSE r.x) \in Nat /\ (IF r.x > 0 THEN r.x - 1 ELSE r.x) =< r.x
        BY <1>3
      <4> QED BY <3>2, <4>1, <4>2
    <3> QED BY <1>9, <3>1, <3>2
  <2>2. m.x = k /\ m.y = r.y /\ m.x < m.width /\ m.y < m.height
    BY <1>3, <1>6, <2>1 DEF OfMain, ConsoleT
  <2> HIDE DEF m, b
  <2>3. Final(m).x = k /\ Final(m).y = r.y /\ Rolled(m, b) = b
    BY <1>1, <2>2, FinalStays
  <2>4. asGrid' = GridOf(b) /\ mainView'.x = k /\ mainView'.y = mainView.y
    BY <1>1, <1>4, <2>3, View
  <2>5. CASE c = "CR"
    <3>1. T!Return
      BY <1>4, <1>5, <1>9, <2>1, <2>4, <2>5 DEF T!Return
    <3> QED BY <1>2, <3>1 DEF T!Writing
  <2>6. CASE c = "BS" /\ r.x > 0
    <3>1. GridOf(b) = [asGrid EXCEPT ![mainView.y][mainView.x - 1] = [ch |-> Space, color |-> mainView.color]]
      BY <1>4, <1>5, <2>6, Zenon DEF PutAt, Blank
    <3>2. k = r.x - 1
      BY <2>1, <2>6
    <3>3. T!Rubout
      BY <1>4, <2>4, <2>6, <3>1, <3>2 DEF T!Rubout
    <3> QED BY <1>2, <3>3 DEF T!Writing
  <2>7. CASE c = "BS" /\ ~(r.x > 0)
    <3>1. k = r.x
      BY <1>3, <2>1, <2>7
    <3>2. UNCHANGED T!tvars
      BY <1>2, <1>4, <1>5, <1>9, <2>4, <2>7, <3>1 DEF T!tvars
    <3> QED BY <3>2
  <2> QED BY <1>9, <2>5, <2>6, <2>7
<1>10. CASE c = "HT" /\ c \notin Glyphs
  <2>1. PICK k \in (r.x + 1)..(r.x + TabStop) :
            k = ((r.x + TabStop) \div TabStop) * TabStop % U32 /\ k % TabStop = 0 /\ k < U32
    BY <1>3, <1>6, TabColumn
  <2>2. m = [r EXCEPT !.x = k]
    BY <1>10, <2>1, ConsoleAssumption DEF Moved
  <2>3. m.x = k /\ m.y = r.y /\ k \in Nat
    BY <1>3, <1>6, <2>2 DEF OfMain, ConsoleT
  <2> HIDE DEF m, b
  <2>4. T!Advance(k, GridOf(b))
    BY <1>1, <2>1, <2>3, AdvanceStep
  <2>5. T!Tab
    BY <1>4, <1>5, <1>10, <2>1, <2>4 DEF T!Tab
  <2> QED BY <1>2, <2>5 DEF T!Writing
<1>11. CASE c = "ignored" /\ c \notin Glyphs
  <2>1. m = r
    BY <1>11, ConsoleAssumption DEF Moved
  <2> HIDE DEF b
  <2>2. Final(r).x = r.x /\ Final(r).y = r.y /\ Rolled(r, b) = b
    BY <1>3, FinalStays
  <2>3. asGrid' = asGrid /\ mainView'.x = mainView.x /\ mainView'.y = mainView.y
    BY <1>1, <1>4, <1>5, <1>11, <2>1, <2>2, View
  <2> QED BY <1>2, <2>3 DEF T!tvars
<1> QED BY <1>7, <1>8, <1>9, <1>10, <1>11 DEF Controls

\* An operation on another console, or on a screen that is not set up and
\* stays so, shows nothing.
LEMMA IdleStep ==
    ASSUME IInv, IInv',
           \/ con'[Main] = con[Main] /\ buffer'[Main] = buffer[Main]
           \/ ~shown /\ ~shown'
    PROVE  UNCHANGED T!tvars
<1>1. CASE con'[Main] = con[Main] /\ buffer'[Main] = buffer[Main]
  BY <1>1 DEF T!tvars, shown, mainView, asGrid
<1>2. CASE ~shown /\ ~shown'
  <2>1. mainView = Zeroed /\ mainView' = Zeroed /\ shown' = shown
    <3>1. shown \in BOOLEAN /\ shown' \in BOOLEAN
      BY ConsoleAssumption DEF IInv, TypeOK, ConsoleT, shown
    <3>2. mainView = Zeroed /\ mainView' = Zeroed
      BY <1>2 DEF mainView
    <3> QED BY <1>2, <3>1, <3>2
  <2>2. asGrid' = asGrid
    BY <1>2 DEF asGrid
  <2> QED BY <2>1, <2>2 DEF T!tvars
<1> QED BY <1>1, <1>2

\* Only console_init sets a console up, and an operation changes the active
\* console alone.
LEMMA OthersKept ==
    ASSUME IInv, Next, ~ConsoleInit
    PROVE  /\ active # Main => con'[Main] = con[Main] /\ buffer'[Main] = buffer[Main]
           /\ ~shown => ~shown'
<1>1. /\ Main \in Consoles /\ active \in Consoles /\ con \in [Consoles -> ConsoleT]
      /\ DOMAIN buffer = Consoles
  BY ConsoleAssumption DEF IInv, TypeOK
<1>2. ASSUME NEW r, NEW b, con' = [con EXCEPT ![active] = r], r.ready = con[active].ready,
             buffer' = buffer \/ buffer' = [buffer EXCEPT ![active] = b]
      PROVE  /\ active # Main => con'[Main] = con[Main] /\ buffer'[Main] = buffer[Main]
             /\ ~shown => ~shown'
  <2>1. con'[Main] = IF active = Main THEN r ELSE con[Main]
    BY <1>1, <1>2
  <2>2. active # Main => buffer'[Main] = buffer[Main]
    BY <1>1, <1>2
  <2> QED BY <1>2, <2>1, <2>2 DEF shown
<1> DEFINE r0 == con[active]
<1>3. r0 \in ConsoleT
  BY <1>1
<1>4. \A px, py : AtPos(r0, px, py).ready = r0.ready
  BY <1>3 DEF AtPos, ConsoleT
<1>5. CASE Clear
  <2>1. Update(AtPos(r0, 0, 0), IF AtPos(r0, 0, 0).ready THEN Erased(active, AtPos(r0, 0, 0)) ELSE buffer[active])
    BY <1>5 DEF Clear
  <2> HIDE DEF r0
  <2> QED BY <1>2, <1>4, <2>1 DEF Update, r0
<1>6. CASE \E c \in Glyphs \cup Controls : Putchar(c)
  <2>1. PICK c \in Glyphs \cup Controls : Putchar(c)
    BY <1>6
  <2> DEFINE m == Moved(r0, c)
             r2 == BackOnScreen(Wrapped(m))
             r3 == IF r2.cursor_enabled THEN AtPos(r2, r2.x, r2.y) ELSE r2
  <2>2. SameScreen(r0, m)
    BY <1>3, MovedType
  <2>3. m \in ConsoleT /\ m.ready = r0.ready /\ (m.ready => m.width = Width[active] /\ m.height = Height[active])
    BY <2>2, ActiveType DEF SameScreen
  <2>4. SameScreen(m, r2)
    <3> HIDE DEF m
    <3> QED BY <1>1, <2>3, BackGood
  <2>5. r3.ready = r0.ready
    <3> HIDE DEF m, r2, r0
    <3>1. r2 \in ConsoleT /\ r2.ready = r0.ready
      BY <2>3, <2>4 DEF SameScreen
    <3> QED BY <3>1 DEF AtPos, ConsoleT
  <2>6. (con' = con /\ buffer' = buffer) \/ \E b : Update(r3, b)
    BY <2>1 DEF Putchar
  <2> HIDE DEF r3
  <2>7. CASE con' = con /\ buffer' = buffer
    BY <2>7 DEF shown
  <2>8. CASE \E b : Update(r3, b)
    BY <1>2, <2>5, <2>8 DEF Update
  <2> QED BY <2>6, <2>7, <2>8
<1>7. CASE \/ \E fg, bg \in Hues : SetColor(fg, bg)
           \/ \E fg \in Hues : SetForeground(fg)
           \/ \E bg \in Hues : SetBackground(bg)
           \/ EnableCursor \/ DisableCursor
  <2>1. PICK r : con' = [con EXCEPT ![active] = r] /\ r.ready = con[active].ready
    <3>1. ASSUME NEW v PROVE /\ [r0 EXCEPT !.color = v].ready = r0.ready
                             /\ [r0 EXCEPT !.cursor_enabled = v].ready = r0.ready
      BY <1>3 DEF ConsoleT
    <3> HIDE DEF r0
    <3>2. \/ \E v : con' = [con EXCEPT ![active] = [r0 EXCEPT !.color = v]]
          \/ \E v : con' = [con EXCEPT ![active] = [r0 EXCEPT !.cursor_enabled = v]]
      BY <1>7 DEF SetColor, SetForeground, SetBackground, EnableCursor, DisableCursor, r0
    <3> QED BY <3>1, <3>2 DEF r0
  <2>2. buffer' = buffer
    BY <1>7 DEF SetColor, SetForeground, SetBackground, EnableCursor, DisableCursor
  <2> QED BY <1>2, <2>1, <2>2
<1>8. CASE \E px, py \in Coordinates : SetCursorPos(px, py)
  <2>1. PICK px, py \in Coordinates : SetCursorPos(px, py)
    BY <1>8
  <2>2. con' = [con EXCEPT ![active] = AtPos(r0, px, py)] /\ buffer' = buffer
    BY <2>1 DEF SetCursorPos
  <2> HIDE DEF r0
  <2> QED BY <1>2, <1>4, <2>2 DEF r0
<1>9. CASE ScrollUp \/ ScrollDown
  <2>1. PICK b : Update(con[active], b)
    BY <1>9 DEF ScrollUp, ScrollDown
  <2> QED BY <1>2, <2>1 DEF Update
<1>10. CASE \E c \in Consoles : Switch(c)
  BY <1>10 DEF Switch, shown
<1> QED BY <1>5, <1>6, <1>7, <1>8, <1>9, <1>10 DEF Next

\* console_init brings the terminal up, or resets it.
LEMMA PowerStep ==
    ASSUME IInv, ConsoleInit
    PROVE  T!PowerOn
<1>1. /\ Main \in Consoles /\ active \in Consoles /\ con \in [Consoles -> ConsoleT]
      /\ DOMAIN buffer = Consoles
  BY ConsoleAssumption DEF IInv, TypeOK
<1> DEFINE f == Fresh(Main, TRUE, TRUE)
           cons == [con EXCEPT ![Main] = f]
           r == AtPos(cons[active], 0, 0)
           q == [r EXCEPT !.cursor_enabled = TRUE]
<1>2. con' = [cons EXCEPT ![active] = q] /\ buffer' = [buffer EXCEPT ![active] = Erased(active, r)]
  BY DEF ConsoleInit
<1>3. /\ f \in ConsoleT /\ f.x = 0 /\ f.y = 0 /\ f.cursor_enabled = TRUE
      /\ f.width = Width[Main] /\ f.height = Height[Main]
  BY <1>1, FreshGood DEF Fresh, Good
<1>4. CASE active # Main
  <2>1. con'[Main] = f /\ buffer'[Main] = buffer[Main]
    <3>1. cons[Main] = f /\ DOMAIN cons = Consoles
      BY <1>1
    <3> HIDE DEF cons, f, q, r
    <3> QED BY <1>1, <1>2, <1>4, <3>1
  <2>2. shown' /\ mainView' = f
    BY <2>1, View DEF Fresh, shown
  <2>3. shown => asGrid' = asGrid
    BY <2>1, <2>2, View
  <2> QED BY <2>2, <2>3 DEF T!PowerOn, Fresh
<1>5. CASE active = Main
  <2>1. cons[active] = f
    BY <1>1, <1>5
  <2>2. r = f
    <3>1. Clamp(0, Width[Main]) = 0 /\ Clamp(0, Height[Main]) = 0
      BY <1>1, ConsoleAssumption DEF Clamp
    <3> HIDE DEF cons, f
    <3>2. AtPos(f, 0, 0) = f
      BY <1>3, <3>1 DEF AtPos, ConsoleT
    <3> QED BY <2>1, <3>2
  <2>3. q = f
    <3> HIDE DEF f, r
    <3> QED BY <1>3, <2>2 DEF ConsoleT
  <2>4. con'[Main] = f /\ buffer'[Main] = Erased(Main, f)
    <3>1. DOMAIN cons = Consoles
      BY <1>1
    <3> HIDE DEF cons, f, q, r
    <3> QED BY <1>1, <1>2, <1>5, <2>2, <2>3, <3>1
  <2> HIDE DEF cons, q, r
  <2>5. shown' /\ mainView' = f
    BY <2>4, View DEF Fresh, shown
  <2>6. asGrid' = [y \in 0..(Height[Main] - 1) |-> BlankRow(f)]
    <3> HIDE DEF f
    <3> QED BY <2>4, <2>5, View, GridErased
  <2>7. \A y \in 0..(Height[Main] - 1), k \in 0..(Width[Main] - 1) :
           asGrid'[y][k] = [ch |-> Space, color |-> mainView'.color]
    <3> HIDE DEF f
    <3> QED BY <2>5, <2>6 DEF BlankRow, Blank
  <2> QED BY <2>5, <2>7 DEF T!PowerOn, Fresh
<1> QED BY <1>4, <1>5

\* Every step of the console is a step of the terminal or shows nothing.
LEMMA TerminalStep ==
    ASSUME IInv, [Next]_vars
    PROVE  T!TNext \/ UNCHANGED T!tvars
<1>1. IInv'
  BY StepIInv
<1>2. CASE UNCHANGED vars
  BY <1>1, <1>2, IdleStep DEF vars
<1>3. CASE ConsoleInit
  BY <1>3, PowerStep DEF T!TNext
<1>4. CASE Next /\ ~ConsoleInit /\ (active # Main \/ ~shown)
  BY <1>1, <1>4, OthersKept, IdleStep
<1>5. CASE Next /\ ~ConsoleInit /\ active = Main /\ shown
  <2> DEFINE r == con[Main]
  <2>1. /\ OfMain(r) /\ r.x < r.width /\ r.y < r.height /\ r.x \in Nat /\ r.y \in Nat
        /\ r \in ConsoleT /\ buffer[Main] \in [Cells(Main) -> Cell]
    BY <1>5, MainShown DEF OfMain
  <2>2. asGrid = GridOf(buffer[Main]) /\ mainView = r
    BY <1>5, View
  <2>3. /\ Main \in Consoles /\ con \in [Consoles -> ConsoleT] /\ DOMAIN buffer = Consoles
    BY ConsoleAssumption DEF IInv, TypeOK
  <2>4. ASSUME NEW q, con'[Main] = q, SameScreen(r, q)
        PROVE  /\ shown' /\ mainView' = q /\ asGrid' = GridOf(buffer'[Main])
               /\ UNCHANGED <<shown, mainView.color, mainView.scroll_enabled>>
    <3>1. shown' /\ shown' = shown
      BY <2>1, <2>4 DEF SameScreen, OfMain, shown
    <3> QED BY <2>2, <2>4, <3>1, View DEF SameScreen
  <2>5. PICK w \in Nat \ {0}, h \in Nat \ {0} : w = Width[Main] /\ h = Height[Main] /\ w < U32 /\ h < U32
    <3>1. PICK w \in Nat \ {0}, h \in Nat \ {0} :
             w = Width[Main] /\ h = Height[Main] /\ w + TabStop < U32 /\ h + 2 < U32
      BY MainSize
    <3> QED BY <3>1, ConsoleAssumption
  <2>6. ASSUME NEW px \in Nat, NEW py \in Nat
        PROVE  /\ SameScreen(r, AtPos(r, px, py))
               /\ AtPos(r, px, py).x = Clamp(px, w) /\ AtPos(r, px, py).y = Clamp(py, h)
               /\ Clamp(px, w) \in 0..(w - 1) /\ Clamp(py, h) \in 0..(h - 1)
    <3>1. /\ Clamp(px, w) \in Nat /\ Clamp(px, w) < w
          /\ Clamp(py, h) \in Nat /\ Clamp(py, h) < h
      BY <2>5, ClampBelow
    <3>2. r.width = w /\ r.height = h
      BY <2>1, <2>5 DEF OfMain
    <3>3. AtPos(r, px, py) = [r EXCEPT !.x = Clamp(px, w), !.y = Clamp(py, h)]
      BY <3>2 DEF AtPos
    <3>4. PICK x \in Nat, y \in Nat : x = Clamp(px, w) /\ y = Clamp(py, h)
      BY <3>1
    <3>5. AtPos(r, px, py) = [r EXCEPT !.x = x, !.y = y]
      BY <3>3, <3>4
    <3> HIDE DEF r
    <3>6. /\ SameScreen(r, [r EXCEPT !.x = x, !.y = y])
          /\ [r EXCEPT !.x = x, !.y = y].x = x /\ [r EXCEPT !.x = x, !.y = y].y = y
      BY <2>1 DEF SameScreen, ConsoleT
    <3>7. x \in 0..(w - 1) /\ y \in 0..(h - 1)
      BY <3>1, <3>4
    <3> QED BY <3>4, <3>5, <3>6, <3>7
  <2>7. CASE Clear
    <3> DEFINE q == AtPos(r, 0, 0)
    <3>1. SameScreen(r, q) /\ q.x = 0 /\ q.y = 0
      <4>1. Clamp(0, w) = 0 /\ Clamp(0, h) = 0
        BY DEF Clamp
      <4> QED BY <2>6, <4>1
    <3>2. con'[Main] = q /\ buffer'[Main] = Erased(Main, q)
      BY <1>5, <2>1, <2>3, <2>7, <3>1 DEF Clear, Update, SameScreen, OfMain
    <3> HIDE DEF q
    <3>3. asGrid' = [y \in 0..(Height[Main] - 1) |-> BlankRow(q)]
      BY <2>4, <3>1, <3>2, GridErased
    <3>4. BlankRow(q) = T!EmptyRow
      BY <2>2, <3>1 DEF BlankRow, Blank, T!EmptyRow, SameScreen
    <3>5. asGrid' = T!EmptyGrid
      BY <3>3, <3>4, Zenon DEF T!EmptyGrid
    <3>6. /\ mainView'.x = 0 /\ mainView'.y = 0
          /\ UNCHANGED <<shown, mainView.color, mainView.scroll_enabled>>
      BY <2>4, <3>1, <3>2
    <3> QED BY <1>5, <3>5, <3>6 DEF T!TNext, T!Wipe
  <2>8. CASE \E c \in Glyphs \cup Controls : Putchar(c)
    BY <1>5, <2>8, PutcharWrites DEF T!TNext
  <2>9. CASE \/ \E fg, bg \in Hues : SetColor(fg, bg)
             \/ \E fg \in Hues : SetForeground(fg)
             \/ \E bg \in Hues : SetBackground(bg)
             \/ EnableCursor \/ DisableCursor
    <3>1. /\ con'[Main].ready = r.ready /\ con'[Main].x = r.x /\ con'[Main].y = r.y
          /\ con'[Main].scroll_enabled = r.scroll_enabled /\ buffer' = buffer
      BY <1>5, <2>1, <2>3, <2>9
         DEF SetColor, SetForeground, SetBackground, EnableCursor, DisableCursor, ConsoleT
    <3>2. UNCHANGED <<shown, asGrid, mainView.y, mainView.x, mainView.scroll_enabled>>
      <4>1. shown' = shown /\ shown'
        BY <1>5, <3>1 DEF shown
      <4> QED BY <1>5, <2>2, <3>1, <4>1, View
    <3> QED BY <1>5, <3>2 DEF T!TNext, T!Dip
  <2>10. CASE \E px, py \in Coordinates : SetCursorPos(px, py)
    <3>1. PICK px, py \in Coordinates : SetCursorPos(px, py)
      BY <2>10
    <3>2. px \in Nat /\ py \in Nat
      BY ConsoleAssumption
    <3>3. con'[Main] = AtPos(r, px, py) /\ buffer' = buffer
      BY <1>5, <2>3, <3>1 DEF SetCursorPos
    <3>4. /\ mainView'.x \in 0..(w - 1) /\ mainView'.y \in 0..(h - 1)
          /\ UNCHANGED <<shown, asGrid, mainView.color, mainView.scroll_enabled>>
      BY <2>2, <2>4, <2>6, <3>2, <3>3
    <3> QED BY <1>5, <2>5, <3>4 DEF T!TNext, T!Locate
  <2>11. CASE ScrollUp \/ ScrollDown
    <3>1. /\ con'[Main] = r
          /\ buffer'[Main] \in {ScrolledUp(Main, r, buffer[Main]), ScrolledDown(Main, r, buffer[Main])}
      BY <1>5, <2>3, <2>11 DEF ScrollUp, ScrollDown, Update
    <3>2. SameScreen(r, r) /\ r.width = Width[Main] /\ r.height = Height[Main]
      BY <2>1 DEF SameScreen, OfMain
    <3>3. BlankRow(r) = T!EmptyRow
      BY <2>2 DEF BlankRow, Blank, T!EmptyRow
    <3> HIDE DEF r
    <3>4. GridOf(ScrolledUp(Main, r, buffer[Main])) = T!RolledUp(asGrid)
      <4>1. PICK b : b = buffer[Main]
        OBVIOUS
      <4>2. GridOf(ScrolledUp(Main, r, b))
              = [p \in 0..(Height[Main] - 1) |->
                    IF p = Height[Main] - 1 THEN BlankRow(r) ELSE GridOf(b)[p + 1]]
        BY <3>2, GridUp
      <4> QED BY <2>2, <3>3, <4>1, <4>2, Zenon DEF T!RolledUp
    <3>5. GridOf(ScrolledDown(Main, r, buffer[Main])) = T!RolledDown(asGrid)
      <4>1. PICK b : b = buffer[Main]
        OBVIOUS
      <4>2. GridOf(ScrolledDown(Main, r, b))
              = [p \in 0..(Height[Main] - 1) |->
                    IF p = 0 THEN BlankRow(r) ELSE GridOf(b)[p - 1]]
        BY <3>2, GridDown
      <4> QED BY <2>2, <3>3, <4>1, <4>2, Zenon DEF T!RolledDown
    <3>6. /\ asGrid' \in {T!RolledUp(asGrid), T!RolledDown(asGrid)} /\ mainView' = r
          /\ UNCHANGED <<shown, mainView.color, mainView.scroll_enabled>>
      BY <2>4, <3>1, <3>2, <3>4, <3>5
    <3> QED BY <1>5, <2>2, <3>6 DEF T!TNext, T!Roll
  <2>12. CASE \E c \in Consoles : Switch(c)
    <3>1. con' = con /\ buffer' = buffer
      BY <2>12 DEF Switch
    <3> QED BY <1>1, <3>1, IdleStep
  <2> QED BY <1>5, <2>7, <2>8, <2>9, <2>10, <2>11, <2>12 DEF Next
<1> QED BY <1>2, <1>3, <1>4, <1>5

(***************************************************************************)
(* main_console, on a screen of any size and among any other consoles,     *)
(* behaves as the Terminal of its size.                                    *)
(***************************************************************************)
THEOREM ConsoleIsTerminal == Spec => IsTerminal
<1>1. Init => T!TInit
  <2>1. Init => con[Main] = Zeroed
    BY ConsoleAssumption DEF Init
  <2> QED BY <2>1 DEF T!TInit, shown, Zeroed
<1>2. IInv /\ [Next]_vars => [T!TNext]_(T!tvars)
  BY TerminalStep
<1> QED BY <1>1, <1>2, Invariance, PTL DEF Spec, IsTerminal, T!TSpec
=============================================================================
