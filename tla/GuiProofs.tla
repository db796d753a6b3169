----------------------------- MODULE GuiProofs -----------------------------
(***************************************************************************)
(* Theorems about the memory of jarvis_gui.c, for any size of the heap and *)
(* of the window list and any number of calls of gui_init.                 *)
(***************************************************************************)
EXTENDS Gui, NaturalLemmas, TLAPS

Pointers == 0..Blocks
FbT == [self : Pointers, pixels : Pointers, back : Pointers]
WmT == [self : Pointers, windows : Pointers, framebuffer : FbT, list : Seq(1..Blocks)]
Starting == {"framebuffer", "wm", "theme", "main", "dashboard"}

TypeOK ==
    /\ pc \in Starting \cup {"idle", "panic", "fault"}
    /\ heap \subseteq 1..Blocks
    /\ fb \in FbT /\ wm \in WmT
    /\ theme \in Pointers
    /\ roots \in [main : Pointers, dashboard : Pointers]
    /\ held \subseteq 1..Blocks
    /\ inits \in Nat /\ shut \in BOOLEAN

\* The blocks nothing ever frees.
Never ==
    {fb.self, fb.pixels, fb.back, wm.windows, wm.framebuffer.self, wm.framebuffer.pixels,
     wm.framebuffer.back, roots.main, roots.dashboard} \cup held

\* Windows in the list are windows of gui_init or of applications.
Listed ==
    /\ Len(wm.list) =< Capacity
    /\ \A i \in DOMAIN wm.list : wm.list[i] \in held \cup {roots.main, roots.dashboard}
    /\ pc \in {"theme", "main"} => wm.list = <<>>
    /\ pc = "dashboard" => \A i \in DOMAIN wm.list : wm.list[i] = roots.main

\* They are in use, and what gui_shutdown will free is none of them.
Kept == Never \ {NULL} \subseteq heap
Managed == ~shut /\ wm.self # NULL => wm.self \in heap \ Never
Themed == ~shut /\ pc \notin {"theme", "panic"} /\ theme # NULL => theme \in heap \ Never

\* A window manager has a framebuffer with all its blocks.
Whole(f) == f.self # NULL /\ f.pixels # NULL /\ f.back # NULL
FbWhole == (pc = "wm" => Whole(fb)) /\ (wm.self # NULL => Whole(wm.framebuffer))

FaultOnly == pc = "fault" /\ ~shut => wm.windows = NULL

\* During the first gui_init what was not yet made is NULL.
FirstInit ==
    /\ inits = 0 => pc = "idle"
    /\ inits = 0 \/ (inits = 1 /\ pc = "framebuffer") => fb = NoFb
    /\ inits = 0 \/ (inits = 1 /\ pc \in {"framebuffer", "wm"}) => wm = NoWm /\ ~shut
    /\ inits = 0 \/ (inits = 1 /\ pc \in {"framebuffer", "wm", "theme"}) => theme = NULL
    /\ inits = 0 \/ (inits = 1 /\ pc \in Starting \ {"dashboard"}) => roots.main = NULL
    /\ inits = 0 \/ (inits = 1 /\ pc \in Starting) => roots.dashboard = NULL

Parts == Listed /\ Kept /\ Managed /\ Themed /\ FbWhole /\ FaultOnly
IInv == TypeOK /\ Parts /\ FirstInit /\ GuiBlocksOwned

-----------------------------------------------------------------------------
\* kmalloc returns NULL or a block that is not in use.
LEMMA KmallocFact ==
    ASSUME NEW h, NEW p \in Kmalloc(h)
    PROVE  p = NULL \/ (p \in 1..Blocks /\ p # NULL /\ p \notin h)
<1>1. CASE p = NULL
  BY <1>1
<1>2. CASE p # NULL
  <2> DEFINE S == FreeBlocks(h)
  <2>1. S # {} /\ p = Min(S)
    BY <1>2 DEF Kmalloc
  <2>2. S \in SUBSET Nat
    BY DEF FreeBlocks
  <2>3. \E x \in S : \A y \in S : x =< y
    BY <2>1, <2>2, LeastExists
  <2>4. p \in S
    BY <2>1, <2>3 DEF Min
  <2>5. QED
    BY <1>2, <2>4 DEF FreeBlocks
<1>3. QED
  BY <1>1, <1>2

\* NULL and the blocks are pointers.
LEMMA PointerFacts ==
    /\ NULL \in Pointers /\ 1..Blocks \subseteq Pointers
    /\ NoFb \in FbT /\ NoWm \in WmT
<1>1. NULL \in Pointers /\ 1..Blocks \subseteq Pointers
  BY GuiAssumption DEF NULL, Pointers
<1>2. NoFb \in FbT
  BY <1>1 DEF NoFb, FbT
<1>3. <<>> \in Seq(1..Blocks)
  OBVIOUS
<1>4. QED
  BY <1>1, <1>2, <1>3 DEF NoWm, WmT

\* Nothing is allocated before the first gui_init.
LEMMA InitIInv == Init => IInv
<1> SUFFICES ASSUME Init PROVE IInv
  OBVIOUS
<1> USE GuiAssumption DEF Init
<1>1. TypeOK
  BY PointerFacts DEF TypeOK
<1>2. Parts
  BY DEF Parts, Listed, Kept, Managed, Themed, FbWhole, FaultOnly, Never, NoFb, NoWm, NULL
<1>3. FirstInit /\ GuiBlocksOwned
  BY DEF FirstInit, GuiBlocksOwned, Reachable, NoFb, NoWm, NULL
<1>4. QED
  BY <1>1, <1>2, <1>3 DEF IInv

\* gui_init begins.
LEMMA GuiInitIInv == IInv /\ GuiInit => IInv'
<1> SUFFICES ASSUME IInv, GuiInit PROVE IInv'
  OBVIOUS
<1>1. TypeOK'
  BY DEF IInv, TypeOK, GuiInit, Starting
<1>2. Parts'
  BY DEF IInv, GuiInit, Parts, Listed, Kept, Managed, Themed, FbWhole, FaultOnly, Never
<1>3. FirstInit' /\ GuiBlocksOwned'
  BY DEF IInv, TypeOK, GuiInit, FirstInit, GuiBlocksOwned, Reachable, Starting
<1>4. QED
  BY <1>1, <1>2, <1>3 DEF IInv

\* framebuffer_create gives back what it got when it cannot get all.
LEMMA FramebufferCreateIInv == IInv /\ FramebufferCreate => IInv'
<1> SUFFICES ASSUME IInv, FramebufferCreate PROVE IInv'
  OBVIOUS
<1> DEFINE made(s, p, b) ==
         LET f == [self |-> s, pixels |-> p, back |-> b]
             got == With(With(With(heap, s), p), b)
         IN  IF b # NULL
             THEN heap' = got /\ fb' = f /\ pc' = "wm"
             ELSE heap' = got \ Undone(f) /\ pc' = "panic" /\ UNCHANGED fb
<1>s. PICK s \in Kmalloc(heap) :
         \E p \in IF s = NULL THEN {NULL} ELSE Kmalloc(heap \cup {s}) :
         \E b \in IF p = NULL THEN {NULL} ELSE Kmalloc(heap \cup {s, p}) : made(s, p, b)
  BY DEF FramebufferCreate
<1>p. PICK p \in IF s = NULL THEN {NULL} ELSE Kmalloc(heap \cup {s}) :
         \E b \in IF p = NULL THEN {NULL} ELSE Kmalloc(heap \cup {s, p}) : made(s, p, b)
  BY <1>s
<1>1. PICK b \in IF p = NULL THEN {NULL} ELSE Kmalloc(heap \cup {s, p}) : made(s, p, b)
  BY <1>p
<1>2. UNCHANGED <<wm, theme, roots, held, inits, shut>> /\ pc = "framebuffer"
  BY DEF FramebufferCreate
<1>3. s = NULL \/ (s \in 1..Blocks /\ s # NULL /\ s \notin heap)
  BY KmallocFact
<1>4. p = NULL \/ (p \in 1..Blocks /\ p # NULL /\ p \notin heap /\ s # NULL /\ p # s)
  BY KmallocFact
<1>5. b = NULL \/ (b \in 1..Blocks /\ b # NULL /\ b \notin heap /\ p # NULL /\ b # s /\ b # p)
  BY KmallocFact
<1>6. CASE b # NULL
  <2>1. s # NULL /\ p # NULL /\ {s, p, b} \subseteq 1..Blocks /\ {s, p, b} \cap heap = {}
    BY <1>3, <1>4, <1>5, <1>6
  <2>2. /\ heap' = heap \cup {s, p, b} /\ pc' = "wm"
        /\ fb' = [self |-> s, pixels |-> p, back |-> b]
    BY <1>1, <1>6, <2>1 DEF With
  <2>3. TypeOK'
    <3>1. fb' \in FbT
      BY <2>1, <2>2, PointerFacts DEF FbT
    <3>2. heap' \subseteq 1..Blocks
      BY <2>1, <2>2 DEF IInv, TypeOK
    <3>3. QED
      BY <1>2, <2>2, <3>1, <3>2 DEF IInv, TypeOK, Starting
  <2>4. Parts'
    <3>1. Listed' /\ FaultOnly'
      BY <1>2, <2>2 DEF IInv, Parts, Listed, FaultOnly
    <3>2. Never' \subseteq Never \cup {s, p, b}
      BY <1>2, <2>2 DEF Never
    <3>3. Kept'
      BY <2>2, <3>2 DEF IInv, Parts, Kept
    <3>4. Managed' /\ Themed'
      BY <1>2, <2>1, <2>2, <3>2 DEF IInv, Parts, Managed, Themed
    <3>5. FbWhole'
      BY <1>2, <1>6, <2>1, <2>2 DEF IInv, Parts, FbWhole, Whole
    <3>6. QED
      BY <3>1, <3>3, <3>4, <3>5 DEF Parts
  <2>5. FirstInit'
    BY <1>2, <2>2 DEF IInv, TypeOK, FirstInit, Starting
  <2>6. GuiBlocksOwned'
    <3> SUFFICES ASSUME inits =< 1, ~shut PROVE heap' = Reachable'
      BY <1>2 DEF GuiBlocksOwned
    <3>1. heap = Reachable
      BY DEF IInv, GuiBlocksOwned
    <3>2. fb = NoFb
      BY <1>2 DEF IInv, TypeOK, FirstInit
    <3>3. Reachable' = Reachable \cup {s, p, b}
      BY <1>2, <1>6, <2>1, <2>2, <3>2 DEF Reachable, NoFb, NULL
    <3>4. QED
      BY <2>2, <3>1, <3>3
  <2>7. QED
    BY <2>3, <2>4, <2>5, <2>6 DEF IInv
<1>7. CASE b = NULL
  <2>1. heap' = heap /\ fb' = fb /\ pc' = "panic"
    BY <1>1, <1>3, <1>4, <1>5, <1>7 DEF With, Undone
  <2>2. TypeOK'
    BY <1>2, <2>1 DEF IInv, TypeOK
  <2>3. Parts'
    BY <1>2, <2>1
       DEF IInv, Parts, Listed, Kept, Managed, Themed, FbWhole, FaultOnly, Never
  <2>4. FirstInit' /\ GuiBlocksOwned'
    BY <1>2, <2>1 DEF IInv, FirstInit, GuiBlocksOwned, Reachable, Starting
  <2>5. QED
    BY <2>2, <2>3, <2>4 DEF IInv
<1>8. QED
  BY <1>6, <1>7

\* wm_create.
LEMMA WmCreateIInv == IInv /\ WmCreate => IInv'
<1> SUFFICES ASSUME IInv, WmCreate PROVE IInv'
  OBVIOUS
<1>1. PICK s \in Kmalloc(heap) :
         IF s = NULL
         THEN wm' = NoWm /\ pc' = "panic" /\ UNCHANGED heap
         ELSE \E a \in Kmalloc(heap \cup {s}) :
                /\ wm' = [self |-> s, windows |-> a, framebuffer |-> fb, list |-> <<>>]
                /\ heap' = With(heap \cup {s}, a)
                /\ pc' = "theme"
  BY DEF WmCreate
<1>2. UNCHANGED <<fb, theme, roots, held, inits>> /\ shut' = FALSE /\ pc = "wm"
  BY DEF WmCreate
<1>3. CASE s = NULL
  <2>1. wm' = NoWm /\ pc' = "panic" /\ heap' = heap
    BY <1>1, <1>3
  <2>2. TypeOK'
    BY <1>2, <2>1, PointerFacts DEF IInv, TypeOK
  <2>3. Parts'
    BY <1>2, <2>1, GuiAssumption
       DEF IInv, Parts, Listed, Kept, Managed, Themed, FbWhole, FaultOnly, Never, NoWm, NoFb, NULL
  <2>4. FirstInit' /\ GuiBlocksOwned'
    BY <1>2, <2>1 DEF IInv, TypeOK, FirstInit, GuiBlocksOwned, Reachable, Starting
  <2>5. QED
    BY <2>2, <2>3, <2>4 DEF IInv
<1>4. CASE s # NULL
  <2>1. PICK a \in Kmalloc(heap \cup {s}) :
           /\ wm' = [self |-> s, windows |-> a, framebuffer |-> fb, list |-> <<>>]
           /\ heap' = With(heap \cup {s}, a)
           /\ pc' = "theme"
    BY <1>1, <1>4
  <2>2. s \in 1..Blocks /\ s \notin heap
    BY <1>4, KmallocFact
  <2>3. a = NULL \/ (a \in 1..Blocks /\ a # NULL /\ a \notin heap /\ a # s)
    BY KmallocFact
  <2>4. heap' = heap \cup ({s, a} \ {NULL})
    BY <1>4, <2>1 DEF With
  <2>5. /\ wm'.self = s /\ wm'.windows = a /\ wm'.framebuffer = fb /\ wm'.list = <<>>
    BY <2>1
  <2>6. TypeOK'
    <3>1. s \in Pointers /\ a \in Pointers
      BY <2>2, <2>3, PointerFacts
    <3>2. wm' \in WmT
      BY <2>1, <3>1 DEF IInv, TypeOK, WmT
    <3>3. heap' \subseteq 1..Blocks
      BY <2>2, <2>3, <2>4 DEF IInv, TypeOK
    <3>4. QED
      BY <1>2, <2>1, <3>2, <3>3 DEF IInv, TypeOK, Starting
  <2>7. Parts'
    <3>1. Listed' /\ Themed' /\ FaultOnly'
      BY <2>1, <2>5, GuiAssumption DEF Listed, Themed, FaultOnly
    <3>2. Never' \subseteq Never \cup {a}
      BY <1>2, <2>5 DEF Never
    <3>3. Kept'
      BY <2>4, <3>2 DEF IInv, Parts, Kept
    <3>4. s \notin Never
      BY <1>4, <2>2 DEF IInv, Parts, Kept
    <3>5. Managed'
      BY <1>4, <2>3, <2>4, <2>5, <3>2, <3>4 DEF Managed
    <3>6. FbWhole'
      BY <1>2, <2>1, <2>5 DEF IInv, Parts, FbWhole
    <3>7. QED
      BY <3>1, <3>3, <3>5, <3>6 DEF Parts
  <2>8. FirstInit'
    BY <1>2, <2>1 DEF IInv, TypeOK, FirstInit, Starting
  <2>9. GuiBlocksOwned'
    <3> SUFFICES ASSUME inits =< 1 PROVE heap' = Reachable'
      BY <1>2 DEF GuiBlocksOwned
    <3>1. wm = NoWm /\ ~shut
      BY <1>2 DEF IInv, TypeOK, FirstInit
    <3>2. heap = Reachable
      BY <3>1 DEF IInv, GuiBlocksOwned
    <3>3. Reachable' = Reachable \cup ({s, a} \ {NULL})
      BY <1>2, <2>5, <3>1 DEF Reachable, NoWm, NULL
    <3>4. QED
      BY <2>4, <3>2, <3>3
  <2>10. QED
    BY <2>6, <2>7, <2>8, <2>9 DEF IInv
<1>5. QED
  BY <1>3, <1>4

\* theme_create_jarvis.
LEMMA ThemeCreateIInv == IInv /\ ThemeCreate => IInv'
<1> SUFFICES ASSUME IInv, ThemeCreate PROVE IInv'
  OBVIOUS
<1>1. PICK t \in Kmalloc(heap) : theme' = t /\ heap' = With(heap, t)
  BY DEF ThemeCreate
<1>2. pc = "theme" /\ pc' = "main" /\ UNCHANGED <<fb, wm, roots, held, inits, shut>>
  BY DEF ThemeCreate
<1>3. t = NULL \/ (t \in 1..Blocks /\ t # NULL /\ t \notin heap)
  BY KmallocFact
<1>4. heap' = heap \cup ({t} \ {NULL})
  BY <1>1 DEF With
<1>5. TypeOK'
  <2>1. theme' \in Pointers /\ heap' \subseteq 1..Blocks
    BY <1>1, <1>3, <1>4, PointerFacts DEF IInv, TypeOK
  <2>2. QED
    BY <1>2, <2>1 DEF IInv, TypeOK, Starting
<1>6. Parts'
  <2>1. Never' = Never
    BY <1>2 DEF Never
  <2>2. Listed' /\ FaultOnly' /\ FbWhole'
    BY <1>2 DEF IInv, Parts, Listed, FaultOnly, FbWhole
  <2>3. Kept' /\ Managed' /\ Themed'
    BY <1>1, <1>2, <1>3, <1>4, <2>1 DEF IInv, Parts, Kept, Managed, Themed
  <2>4. QED
    BY <2>2, <2>3 DEF Parts
<1>7. FirstInit'
  BY <1>2 DEF IInv, TypeOK, FirstInit, Starting
<1>8. GuiBlocksOwned'
  <2> SUFFICES ASSUME inits =< 1, ~shut PROVE heap' = Reachable'
    BY <1>2 DEF GuiBlocksOwned
  <2>1. heap = Reachable /\ theme = NULL
    BY <1>2 DEF IInv, TypeOK, GuiBlocksOwned, FirstInit
  <2>2. Reachable' = Reachable \cup ({t} \ {NULL})
    BY <1>1, <1>2, <2>1 DEF Reachable
  <2>3. QED
    BY <1>4, <2>1, <2>2
<1>9. QED
  BY <1>5, <1>6, <1>7, <1>8 DEF IInv

-----------------------------------------------------------------------------
(***************************************************************************)
(* The window list.                                                        *)
(***************************************************************************)
\* Adding a window to the list changes the list only, by at most that window.
LEMMA AddedFacts ==
    ASSUME TypeOK, Len(wm.list) =< Capacity, NEW w \in Pointers
    PROVE  /\ Added(w) \in WmT
           /\ Len(Added(w).list) =< Capacity
           /\ Added(w).self = wm.self /\ Added(w).windows = wm.windows
           /\ Added(w).framebuffer = wm.framebuffer
           /\ \A i \in DOMAIN Added(w).list :
                 Added(w).list[i] = w \/ \E j \in DOMAIN wm.list : Added(w).list[i] = wm.list[j]
<1>1. wm \in WmT /\ wm.list \in Seq(1..Blocks) /\ Capacity \in Nat
  BY GuiAssumption DEF TypeOK, WmT
<1>2. CASE ~Adds(w)
  <2>1. Added(w) = wm
    BY <1>2 DEF Added
  <2>2. QED
    BY <1>1, <2>1
<1>3. CASE Adds(w)
  <2>1. Added(w) = [wm EXCEPT !.list = Append(wm.list, w)]
    BY <1>3 DEF Added
  <2>2. w \in 1..Blocks /\ Len(wm.list) < Capacity
    BY <1>3, GuiAssumption DEF Adds, Pointers, NULL
  <2> DEFINE l == wm.list
             l2 == Append(l, w)
  <2>3. l2 \in Seq(1..Blocks) /\ Len(l2) = Len(l) + 1
    BY <1>1, <2>2
  <2>4. \A i \in DOMAIN l2 : l2[i] = w \/ \E j \in DOMAIN l : l2[i] = l[j]
    BY <1>1, <2>2
  <2>5. Added(w) = [self |-> wm.self, windows |-> wm.windows, framebuffer |-> wm.framebuffer,
                    list |-> l2]
    BY <1>1, <2>1 DEF WmT
  <2>6. Added(w) \in WmT
    BY <1>1, <2>3, <2>5 DEF WmT
  <2> HIDE DEF l2
  <2>7. Added(w).list = l2 /\ Added(w).self = wm.self /\ Added(w).windows = wm.windows
        /\ Added(w).framebuffer = wm.framebuffer
    BY <2>5
  <2>8. Len(l2) =< Capacity
    BY <1>1, <2>2, <2>3
  <2>9. QED
    BY <2>4, <2>6, <2>7, <2>8
<1>4. QED
  BY <1>2, <1>3

\* An element of a list of windows is a block.
LEMMA ListElement ==
    ASSUME NEW S, NEW l \in Seq(S), NEW i \in DOMAIN l
    PROVE  l[i] \in S
OBVIOUS

\* Before gui_shutdown a window cannot be added only for lack of an array.
LEMMA AddFaultsOnly ==
    ASSUME Parts, NEW w, AddFaults(w), ~shut
    PROVE  wm.windows = NULL
<1>1. wm.self # NULL => WmValid
  BY DEF Parts, Managed, WmValid
<1>2. wm.windows # NULL => wm.windows \in heap
  BY DEF Parts, Kept, Never
<1>3. QED
  BY <1>1, <1>2 DEF AddFaults

\* A window is created and added by gui_init.
LEMMA InitWindowIInv ==
    ASSUME IInv,
           NEW here, NEW next, NEW root,
           \/ here = "main" /\ next = "dashboard" /\ root = "main"
           \/ here = "dashboard" /\ next = "idle" /\ root = "dashboard",
           InitWindow(here, next, root)
    PROVE  IInv'
<1>1. PICK w \in Kmalloc(heap) :
         /\ heap' = With(heap, w)
         /\ roots' = [roots EXCEPT ![root] = w]
         /\ IF AddFaults(w) THEN pc' = "fault" /\ UNCHANGED wm
            ELSE pc' = next /\ wm' = Added(w)
  BY DEF InitWindow
<1>2. pc = here /\ UNCHANGED <<fb, theme, held, inits, shut>>
  BY DEF InitWindow
<1>3. w = NULL \/ (w \in 1..Blocks /\ w # NULL /\ w \notin heap)
  BY KmallocFact
<1>4. w \in Pointers /\ heap' = heap \cup ({w} \ {NULL})
  BY <1>1, <1>3, PointerFacts DEF With
<1>5. /\ roots' \in [main : Pointers, dashboard : Pointers]
      /\ root = "main" => roots'.main = w /\ roots'.dashboard = roots.dashboard
      /\ root = "dashboard" => roots'.dashboard = w /\ roots'.main = roots.main
  BY <1>1, <1>4 DEF IInv, TypeOK
<1>6. TypeOK /\ Len(wm.list) =< Capacity
  BY DEF IInv, Parts, Listed
<1>7. /\ wm' \in WmT /\ Len(wm'.list) =< Capacity
      /\ wm'.self = wm.self /\ wm'.windows = wm.windows /\ wm'.framebuffer = wm.framebuffer
      /\ \A i \in DOMAIN wm'.list :
            wm'.list[i] = w \/ \E j \in DOMAIN wm.list : wm'.list[i] = wm.list[j]
  <2>1. CASE AddFaults(w)
    BY <1>1, <1>6, <2>1 DEF TypeOK
  <2>2. CASE ~AddFaults(w)
    <3>1. wm' = Added(w)
      BY <1>1, <2>2
    <3>2. QED
      BY <1>4, <1>6, <3>1, AddedFacts
  <2>3. QED
    BY <2>1, <2>2
<1>8. pc' \in {next, "fault"}
  BY <1>1
<1>9. TypeOK'
  <2>1. heap' \subseteq 1..Blocks
    BY <1>3, <1>4 DEF IInv, TypeOK
  <2>2. QED
    BY <1>2, <1>5, <1>7, <1>8, <2>1 DEF IInv, TypeOK, Starting
<1>10. Never' \subseteq Never \cup {w}
  <2>1. roots'.main \in {roots.main, w} /\ roots'.dashboard \in {roots.dashboard, w}
    BY <1>5
  <2>2. QED
    BY <1>2, <1>7, <2>1 DEF Never
<1>11. Listed'
  <2>1. here = "main" => \A i \in DOMAIN wm'.list : wm'.list[i] = roots'.main
    <3> SUFFICES ASSUME here = "main", NEW i \in DOMAIN wm'.list PROVE wm'.list[i] = roots'.main
      OBVIOUS
    <3>1. wm.list = <<>>
      BY <1>2 DEF IInv, Parts, Listed
    <3>2. wm'.list[i] = w
      BY <1>7, <3>1
    <3>3. QED
      BY <1>5, <3>2
  <2>2. here = "dashboard" => \A i \in DOMAIN wm'.list : wm'.list[i] \in {roots'.main, roots'.dashboard}
    <3> SUFFICES ASSUME here = "dashboard", NEW i \in DOMAIN wm'.list
                 PROVE  wm'.list[i] \in {roots'.main, roots'.dashboard}
      OBVIOUS
    <3>1. \A j \in DOMAIN wm.list : wm.list[j] = roots.main
      BY <1>2 DEF IInv, Parts, Listed
    <3>2. wm'.list[i] = w \/ wm'.list[i] = roots.main
      BY <1>7, <3>1
    <3>3. QED
      BY <1>5, <3>2
  <2>3. QED
    BY <1>2, <1>7, <1>8, <2>1, <2>2 DEF Listed
<1>12. Kept'
  BY <1>4, <1>10 DEF IInv, Parts, Kept
<1>13. Managed' /\ Themed'
  <2>1. pc \notin {"theme", "panic"}
    BY <1>2
  <2>2. QED
    BY <1>2, <1>3, <1>4, <1>7, <1>10, <2>1 DEF IInv, Parts, Managed, Themed
<1>14. FbWhole'
  BY <1>2, <1>7, <1>8 DEF IInv, Parts, FbWhole
<1>15. FaultOnly'
  <2> SUFFICES ASSUME pc' = "fault", ~shut PROVE wm.windows = NULL
    BY <1>2, <1>7 DEF FaultOnly
  <2>1. AddFaults(w)
    BY <1>1
  <2>2. QED
    BY <2>1, AddFaultsOnly DEF IInv
<1>16. FirstInit'
  BY <1>2, <1>5, <1>8 DEF IInv, TypeOK, FirstInit, Starting
<1>17. GuiBlocksOwned'
  <2> SUFFICES ASSUME inits =< 1, ~shut PROVE heap' = Reachable'
    BY <1>2 DEF GuiBlocksOwned
  <2>1. heap = Reachable
    BY DEF IInv, GuiBlocksOwned
  <2>2. /\ root = "main" => roots.main = NULL
        /\ root = "dashboard" => roots.dashboard = NULL
    BY <1>2 DEF IInv, TypeOK, FirstInit, Starting
  <2>3. Reachable' = Reachable \cup ({w} \ {NULL})
    BY <1>2, <1>5, <1>7, <2>2 DEF Reachable
  <2>4. QED
    BY <1>4, <2>1, <2>3
<1>18. QED
  BY <1>9, <1>11, <1>12, <1>13, <1>14, <1>15, <1>16, <1>17 DEF IInv, Parts

\* An application creates a window.
LEMMA WindowCreateIInv == IInv /\ WindowCreate => IInv'
<1> SUFFICES ASSUME IInv, WindowCreate PROVE IInv'
  OBVIOUS
<1>1. PICK w \in Kmalloc(heap) : w # NULL /\ heap' = With(heap, w) /\ held' = held \cup {w}
  BY DEF WindowCreate
<1>2. pc = "idle" /\ UNCHANGED <<pc, fb, wm, theme, roots, inits, shut>>
  BY DEF WindowCreate
<1>3. w \in 1..Blocks /\ w \notin heap /\ heap' = heap \cup {w}
  BY <1>1, KmallocFact DEF With
<1>4. TypeOK'
  BY <1>1, <1>2, <1>3 DEF IInv, TypeOK
<1>5. Never' = Never \cup {w}
  BY <1>1, <1>2 DEF Never
<1>6. Parts'
  <2>1. Listed' /\ FbWhole' /\ FaultOnly'
    BY <1>1, <1>2 DEF IInv, Parts, Listed, FbWhole, FaultOnly
  <2>2. Kept' /\ Managed' /\ Themed'
    BY <1>2, <1>3, <1>5 DEF IInv, Parts, Kept, Managed, Themed
  <2>3. QED
    BY <2>1, <2>2 DEF Parts
<1>7. FirstInit'
  BY <1>2 DEF IInv, FirstInit
<1>8. GuiBlocksOwned'
  <2>1. Reachable' = Reachable \cup {w}
    BY <1>1, <1>2 DEF Reachable
  <2>2. QED
    BY <1>2, <1>3, <2>1 DEF IInv, GuiBlocksOwned
<1>9. QED
  BY <1>4, <1>6, <1>7, <1>8 DEF IInv

\* An application adds a window to the list, again perhaps.
LEMMA WmAddWindowIInv ==
    ASSUME IInv, NEW w \in held, WmAddWindow(w)
    PROVE  IInv'
<1>1. /\ pc = "idle"
      /\ IF AddFaults(w) THEN pc' = "fault" /\ UNCHANGED wm
         ELSE wm' = Added(w) /\ UNCHANGED pc
      /\ UNCHANGED <<heap, fb, theme, roots, held, inits, shut>>
  BY DEF WmAddWindow
<1>2. TypeOK /\ Len(wm.list) =< Capacity /\ w \in Pointers
  BY PointerFacts DEF IInv, TypeOK, Parts, Listed
<1>3. /\ wm' \in WmT /\ Len(wm'.list) =< Capacity
      /\ wm'.self = wm.self /\ wm'.windows = wm.windows /\ wm'.framebuffer = wm.framebuffer
      /\ \A i \in DOMAIN wm'.list :
            wm'.list[i] = w \/ \E j \in DOMAIN wm.list : wm'.list[i] = wm.list[j]
  <2>1. CASE AddFaults(w)
    BY <1>1, <1>2, <2>1 DEF TypeOK
  <2>2. CASE ~AddFaults(w)
    <3>1. wm' = Added(w)
      BY <1>1, <2>2
    <3>2. QED
      BY <1>2, <3>1, AddedFacts
  <2>3. QED
    BY <2>1, <2>2
<1>4. pc' \in {"idle", "fault"}
  BY <1>1
<1>5. TypeOK'
  BY <1>1, <1>3, <1>4 DEF IInv, TypeOK
<1>6. Never' = Never
  BY <1>1, <1>3 DEF Never
<1>7. Listed'
  <2>1. \A i \in DOMAIN wm'.list : wm'.list[i] \in held \cup {roots.main, roots.dashboard}
    BY <1>3 DEF IInv, Parts, Listed
  <2>2. QED
    BY <1>1, <1>3, <1>4, <2>1 DEF Listed
<1>8. Kept' /\ Managed' /\ Themed' /\ FbWhole'
  BY <1>1, <1>3, <1>4, <1>6 DEF IInv, Parts, Kept, Managed, Themed, FbWhole
<1>9. FaultOnly'
  <2> SUFFICES ASSUME pc' = "fault", ~shut PROVE wm.windows = NULL
    BY <1>1, <1>3 DEF FaultOnly
  <2>1. AddFaults(w)
    BY <1>1
  <2>2. QED
    BY <2>1, AddFaultsOnly DEF IInv
<1>10. FirstInit'
  <2>1. inits = 0 => ~AddFaults(w) /\ ~Adds(w)
    BY DEF IInv, FirstInit, AddFaults, Adds, NoWm
  <2>2. inits = 0 => wm' = wm /\ pc' = pc
    BY <1>1, <2>1 DEF Added
  <2>3. QED
    BY <1>1, <1>4, <2>2 DEF IInv, TypeOK, FirstInit, Starting
<1>11. GuiBlocksOwned'
  BY <1>1, <1>3 DEF IInv, GuiBlocksOwned, Reachable
<1>12. QED
  BY <1>5, <1>7, <1>8, <1>9, <1>10, <1>11 DEF IInv, Parts

\* wm_render reads valid memory before gui_shutdown, if there is an array.
LEMMA WmRenderIInv == IInv /\ WmRender => IInv'
<1> SUFFICES ASSUME IInv, WmRender PROVE IInv'
  OBVIOUS
<1>1. /\ pc = "idle" /\ wm.self # NULL
      /\ pc' = IF WmValid /\ RenderReads \subseteq heap THEN "idle" ELSE "fault"
      /\ UNCHANGED <<heap, fb, wm, theme, roots, held, inits, shut>>
  BY DEF WmRender
<1>2. TypeOK'
  BY <1>1 DEF IInv, TypeOK
<1>3. Listed' /\ Kept' /\ Managed' /\ Themed' /\ FbWhole'
  BY <1>1 DEF IInv, Parts, Listed, Kept, Managed, Themed, FbWhole, Never
<1>4. FaultOnly'
  <2> SUFFICES ASSUME ~shut, wm.windows # NULL PROVE pc' = "idle"
    BY <1>1 DEF FaultOnly
  <2>1. WmValid
    BY <1>1 DEF IInv, Parts, Managed, WmValid
  <2>2. Never \ {NULL} \subseteq heap /\ Whole(wm.framebuffer)
    BY <1>1 DEF IInv, Parts, Kept, FbWhole
  <2>3. \A i \in DOMAIN wm.list : wm.list[i] \in heap
    <3> SUFFICES ASSUME NEW i \in DOMAIN wm.list PROVE wm.list[i] \in heap
      OBVIOUS
    <3>1. wm.list[i] # NULL
      <4>1. wm.list \in Seq(1..Blocks)
        BY DEF IInv, TypeOK, WmT
      <4>2. wm.list[i] \in 1..Blocks
        BY <4>1, ListElement
      <4>3. QED
        BY <4>2 DEF NULL
    <3>2. wm.list[i] \in Never
      BY DEF IInv, Parts, Listed, Never
    <3>3. QED
      BY <2>2, <3>1, <3>2
  <2>4. {wm.self, wm.framebuffer.self, wm.framebuffer.pixels, wm.framebuffer.back, wm.windows}
        \subseteq heap
    BY <2>1, <2>2 DEF WmValid, Whole, Never
  <2>5. RenderReads \subseteq heap
    BY <2>3, <2>4 DEF RenderReads
  <2>6. QED
    BY <1>1, <2>1, <2>5
<1>5. FirstInit' /\ GuiBlocksOwned'
  <2>1. inits # 0
    BY <1>1 DEF IInv, FirstInit, NoWm
  <2>2. QED
    BY <1>1, <2>1 DEF IInv, FirstInit, GuiBlocksOwned, Reachable, Starting
<1>6. QED
  BY <1>2, <1>3, <1>4, <1>5 DEF IInv, Parts

\* gui_shutdown frees none of the blocks that stay in use.
LEMMA GuiShutdownIInv == IInv /\ GuiShutdown => IInv'
<1> SUFFICES ASSUME IInv, GuiShutdown PROVE IInv'
  OBVIOUS
<1>1. /\ pc = "idle"
      /\ IF Freed = {} \/ (WmValid /\ Freed \subseteq heap)
         THEN heap' = heap \ Freed /\ UNCHANGED pc
         ELSE pc' = "fault" /\ UNCHANGED heap
      /\ shut' = (shut \/ Freed # {})
      /\ UNCHANGED <<fb, wm, theme, roots, held, inits>>
  BY DEF GuiShutdown
<1>2. CASE Freed = {}
  <2>1. heap' = heap /\ pc' = pc /\ shut' = shut
    BY <1>1, <1>2 DEF IInv, TypeOK
  <2>2. TypeOK'
    BY <1>1, <2>1 DEF IInv, TypeOK
  <2>3. Parts'
    BY <1>1, <2>1
       DEF IInv, Parts, Listed, Kept, Managed, Themed, FbWhole, FaultOnly, Never
  <2>4. FirstInit' /\ GuiBlocksOwned'
    BY <1>1, <2>1 DEF IInv, FirstInit, GuiBlocksOwned, Reachable
  <2>5. QED
    BY <2>2, <2>3, <2>4 DEF IInv
<1>3. CASE Freed # {}
  <2>1. shut' = TRUE /\ pc' \in {"idle", "fault"} /\ heap' \subseteq heap
    BY <1>1, <1>3
  <2>2. TypeOK'
    BY <1>1, <2>1 DEF IInv, TypeOK
  <2>3. Never' = Never
    BY <1>1 DEF Never
  <2>4. Kept'
    <3>1. CASE heap' = heap
      BY <2>3, <3>1 DEF IInv, Parts, Kept
    <3>2. CASE WmValid /\ heap' = heap \ Freed
      <4>1. ~shut
        BY <3>2 DEF WmValid
      <4>2. Freed \cap Never = {}
        BY <1>1, <4>1 DEF IInv, Parts, Managed, Themed, Freed
      <4>3. QED
        BY <2>3, <3>2, <4>2 DEF IInv, Parts, Kept
    <3>3. QED
      BY <1>1, <1>3, <3>1, <3>2
  <2>5. Listed' /\ Managed' /\ Themed' /\ FbWhole' /\ FaultOnly'
    BY <1>1, <2>1 DEF IInv, Parts, Listed, Managed, Themed, FbWhole, FaultOnly
  <2>6. FirstInit' /\ GuiBlocksOwned'
    <3>1. inits # 0
      BY <1>3 DEF IInv, FirstInit, Freed, NoWm
    <3>2. QED
      BY <1>1, <2>1, <3>1 DEF IInv, FirstInit, GuiBlocksOwned, Starting
  <2>7. QED
    BY <2>2, <2>4, <2>5, <2>6 DEF IInv, Parts
<1>4. QED
  BY <1>2, <1>3

\* Every step preserves the invariant.
LEMMA NextIInv == IInv /\ [Next]_vars => IInv'
<1> SUFFICES ASSUME IInv, [Next]_vars PROVE IInv'
  OBVIOUS
<1>1. CASE MainWindow \/ DashboardWindow
  BY <1>1, InitWindowIInv DEF MainWindow, DashboardWindow
<1>2. CASE UNCHANGED vars
  BY <1>2 DEF vars, IInv, TypeOK, Parts, Listed, Kept, Managed, Themed, FbWhole, FaultOnly,
     Never, FirstInit, GuiBlocksOwned, Reachable
<1>3. QED
  BY <1>1, <1>2, GuiInitIInv, FramebufferCreateIInv, WmCreateIInv, ThemeCreateIInv,
     WindowCreateIInv, WmAddWindowIInv, WmRenderIInv, GuiShutdownIInv DEF Next

\* IInv is an invariant of the interface.
LEMMA Invariance == Spec => []IInv
BY InitIInv, NextIInv, PTL DEF Spec

-----------------------------------------------------------------------------
(***************************************************************************)
(* No constructor of a first gui_init leaks a block or gives back one that *)
(* is still used, wherever an allocation fails, for any size of heap.      *)
(***************************************************************************)
THEOREM GuiBlocksAreOwned == Spec => []GuiBlocksOwned
BY Invariance, PTL DEF IInv

(***************************************************************************)
(* The window list stays inside its array and lists windows only; before   *)
(* gui_shutdown the unchecked array of wm_create is the only pointer that  *)
(* fails, however often gui_init is called.                                *)
(***************************************************************************)
THEOREM WindowListIsSound == Spec => []WindowListSound
<1>1. IInv => WindowListSound
  BY DEF IInv, Parts, Listed, FaultOnly, WindowListSound
<1>2. QED
  BY <1>1, Invariance, PTL
=============================================================================
