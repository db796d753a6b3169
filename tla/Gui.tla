------------------------------- MODULE Gui -------------------------------
(***************************************************************************)
(* The graphical interface's ownership of memory                           *)
(* (gui/src/jarvis_gui.c): gui_init with the three constructors it calls,  *)
(* jarvis_gui_init, the window list, wm_render and gui_shutdown.  kmalloc  *)
(* and kfree are only stubs in this repository (kernel/src/stubs.c returns *)
(* NULL from every kmalloc), so the heap is modelled by its contract: an   *)
(* allocation either fails or returns a block that is not in use.          *)
(*                                                                         *)
(* What is drawn is left out; only the memory the drawing goes through is  *)
(* kept.  Line.tla models the drawing of lines and pixels.                 *)
(***************************************************************************)
EXTENDS Naturals, Sequences, FiniteSets, FiniteSetsExt

CONSTANTS
    Blocks,     \* how many blocks the heap has (bound)
    Capacity,   \* wm->capacity: 32 in wm_create
    MaxInits    \* how often gui_init is called (bound)

ASSUME GuiAssumption == /\ Blocks \in Nat \ {0}
                        /\ Capacity \in Nat \ {0}
                        /\ MaxInits \in Nat \ {0}

VARIABLES
    pc,      \* where gui_init is: "idle" between calls, "panic" in panic(),
             \* "fault" after an access through a pointer that is not valid
    heap,    \* the blocks in use
    fb,      \* the framebuffer of gui_init: the three blocks of framebuffer_t
    wm,      \* *global_wm: its own block, its array, framebuffer and windows
    theme,   \* jarvis_theme
    roots,   \* main_window and dashboard_window
    held,    \* the windows that applications created with window_create
    inits,   \* calls of gui_init
    shut     \* gui_shutdown has freed what global_wm and jarvis_theme point to

vars == <<pc, heap, fb, wm, theme, roots, held, inits, shut>>

NULL == 0

NoFb == [self |-> NULL, pixels |-> NULL, back |-> NULL]
NoWm == [self |-> NULL, windows |-> NULL, framebuffer |-> NoFb, list |-> <<>>]

Init ==
    /\ pc = "idle"
    /\ heap = {}
    /\ fb = NoFb
    /\ wm = NoWm
    /\ theme = NULL
    /\ roots = [main |-> NULL, dashboard |-> NULL]
    /\ held = {}
    /\ inits = 0
    /\ shut = FALSE

-----------------------------------------------------------------------------
(***************************************************************************)
(* The heap.                                                               *)
(***************************************************************************)
FreeBlocks(h) == (1..Blocks) \ h

\* What kmalloc may return on heap h: NULL, or a block not in use (the lowest:
\* nothing below looks at the number).
Kmalloc(h) == {NULL} \cup IF FreeBlocks(h) = {} THEN {} ELSE {Min(FreeBlocks(h))}

\* The heap after an allocation that returned p.
With(h, p) == IF p = NULL THEN h ELSE h \cup {p}

-----------------------------------------------------------------------------
(***************************************************************************)
(* gui_init, one step per constructor.                                     *)
(***************************************************************************)
GuiInit ==
    /\ pc = "idle"
    /\ inits < MaxInits
    /\ inits' = inits + 1
    /\ pc' = "framebuffer"
    /\ UNCHANGED <<heap, fb, wm, theme, roots, held, shut>>

\* Mutant of Undone: the pixels leak.
UndoneButPixels(f) == {f.self} \ {NULL}

\* What framebuffer_create gives back before it returns NULL: nothing when the
\* structure itself is missing, the structure when the pixels are, and the
\* structure and the pixels when the back buffer is.
Undone(f) == {f.self, f.pixels} \ {NULL}

\* framebuffer_create asks for the three blocks in turn and stops at the first
\* that is missing.
FramebufferCreate ==
    /\ pc = "framebuffer"
    /\ \E s \in Kmalloc(heap) :
       \E p \in IF s = NULL THEN {NULL} ELSE Kmalloc(heap \cup {s}) :
       \E b \in IF p = NULL THEN {NULL} ELSE Kmalloc(heap \cup {s, p}) :
         LET f == [self |-> s, pixels |-> p, back |-> b]
             got == With(With(With(heap, s), p), b)
         IN  IF b # NULL
             THEN /\ heap' = got
                  /\ fb' = f
                  /\ pc' = "wm"
             ELSE /\ heap' = got \ Undone(f)
                  /\ pc' = "panic"
                  /\ UNCHANGED fb
    /\ UNCHANGED <<wm, theme, roots, held, inits, shut>>

\* wm_create: the array's own allocation is not checked.  gui_init stores the
\* result in global_wm, whatever was there, and panics when it is NULL.
WmCreate ==
    /\ pc = "wm"
    /\ \E s \in Kmalloc(heap) :
         IF s = NULL
         THEN /\ wm' = NoWm
              /\ pc' = "panic"
              /\ UNCHANGED heap
         ELSE \E a \in Kmalloc(heap \cup {s}) :
                /\ wm' = [self |-> s, windows |-> a, framebuffer |-> fb, list |-> <<>>]
                /\ heap' = With(heap \cup {s}, a)
                /\ pc' = "theme"
    /\ shut' = FALSE
    /\ UNCHANGED <<fb, theme, roots, held, inits>>

\* theme_create_jarvis; a missing theme is not an error.
ThemeCreate ==
    /\ pc = "theme"
    /\ \E t \in Kmalloc(heap) :
         /\ theme' = t
         /\ heap' = With(heap, t)
    /\ pc' = "main"
    /\ UNCHANGED <<fb, wm, roots, held, inits, shut>>

-----------------------------------------------------------------------------
(***************************************************************************)
(* The window list.                                                        *)
(***************************************************************************)
\* The pointer to the window manager may be followed: its block was not freed
\* (after gui_shutdown it may well be in use again, as something else).
WmValid == wm.self \in heap /\ ~shut

\* Mutant of Adds: the check is off by one.
AddsOnePast(w) == wm.self # NULL /\ w # NULL /\ Len(wm.list) <= Capacity

\* wm_add_window does something: there is a manager, a window and room.
Adds(w) == wm.self # NULL /\ w # NULL /\ Len(wm.list) < Capacity

\* The store into the array goes through wm and through wm->windows.
AddFaults(w) == \/ wm.self # NULL /\ w # NULL /\ ~WmValid
                \/ Adds(w) /\ (wm.windows = NULL \/ wm.windows \notin heap)

Added(w) == IF Adds(w) THEN [wm EXCEPT !.list = Append(@, w)] ELSE wm

\* One window_create and wm_add_window of jarvis_gui_init; a window that could
\* not be created is passed on as NULL and ignored.
InitWindow(here, next, root) ==
    /\ pc = here
    /\ \E w \in Kmalloc(heap) :
         /\ heap' = With(heap, w)
         /\ roots' = [roots EXCEPT ![root] = w]
         /\ IF AddFaults(w)
            THEN pc' = "fault" /\ UNCHANGED wm
            ELSE pc' = next /\ wm' = Added(w)
    /\ UNCHANGED <<fb, theme, held, inits, shut>>

MainWindow == InitWindow("main", "dashboard", "main")
DashboardWindow == InitWindow("dashboard", "idle", "dashboard")

\* An application creates a window ...
WindowCreate ==
    /\ pc = "idle"
    /\ \E w \in Kmalloc(heap) :
         /\ w # NULL
         /\ heap' = With(heap, w)
         /\ held' = held \cup {w}
    /\ UNCHANGED <<pc, fb, wm, theme, roots, inits, shut>>

\* ... and hands it to the window manager, as often as it likes.
WmAddWindow(w) ==
    /\ pc = "idle"
    /\ IF AddFaults(w)
       THEN pc' = "fault" /\ UNCHANGED wm
       ELSE wm' = Added(w) /\ UNCHANGED pc
    /\ UNCHANGED <<heap, fb, theme, roots, held, inits, shut>>

\* wm_render(global_wm) reads the manager, the framebuffer (through which it
\* clears and presents) and every listed window.
RenderReads ==
    {wm.self, wm.framebuffer.self, wm.framebuffer.pixels, wm.framebuffer.back}
        \cup IF wm.list = <<>> THEN {}
             ELSE {wm.windows} \cup {wm.list[i] : i \in DOMAIN wm.list}

WmRender ==
    /\ pc = "idle"
    /\ wm.self # NULL
    /\ pc' = IF WmValid /\ RenderReads \subseteq heap THEN "idle" ELSE "fault"
    /\ UNCHANGED <<heap, fb, wm, theme, roots, held, inits, shut>>

\* gui_shutdown frees the manager and the theme, neither the array nor the
\* framebuffer nor a window, and leaves both globals as they are: freeing a
\* block that is not in use is the heap's undefined behaviour.
Freed == {wm.self, theme} \ {NULL}

GuiShutdown ==
    /\ pc = "idle"
    /\ IF Freed = {} \/ (WmValid /\ Freed \subseteq heap)
       THEN heap' = heap \ Freed /\ UNCHANGED pc
       ELSE pc' = "fault" /\ UNCHANGED heap
    /\ shut' = (shut \/ Freed # {})
    /\ UNCHANGED <<fb, wm, theme, roots, held, inits>>

Next ==
    \/ GuiInit
    \/ FramebufferCreate
    \/ WmCreate
    \/ ThemeCreate
    \/ MainWindow
    \/ DashboardWindow
    \/ WindowCreate
    \/ \E w \in held : WmAddWindow(w)
    \/ WmRender
    \/ GuiShutdown

Spec == Init /\ [][Next]_vars

-----------------------------------------------------------------------------
(***************************************************************************)
(* Properties.                                                             *)
(***************************************************************************)
\* Every block a pointer of the interface or of an application leads to.
Reachable ==
    ({fb.self, fb.pixels, fb.back, wm.self, wm.windows, theme, roots.main, roots.dashboard}
        \cup held) \ {NULL}

\* Whatever allocation of a first gui_init fails, and wherever it stops, the
\* blocks in use are exactly the ones some pointer leads to: no constructor
\* leaks what it had obtained (framebuffer_create, jarvis_gui.c:84-97) and none
\* gives back what is still used.  A later gui_init overwrites the globals and
\* gui_shutdown frees only part of it, so the property ends there.
GuiBlocksOwned == (inits <= 1 /\ ~shut) => heap = Reachable

\* The window list never outgrows its array (jarvis_gui.c:206), lists only
\* blocks that are windows, and before gui_shutdown the only pointer that fails
\* is the array whose allocation wm_create does not check (jarvis_gui.c:200).
WindowListSound ==
    /\ Len(wm.list) <= Capacity
    /\ inits <= 1 => \A i \in DOMAIN wm.list :
                        wm.list[i] \in held \cup {roots.main, roots.dashboard}
    /\ (pc = "fault" /\ ~shut) => wm.windows = NULL

=============================================================================
