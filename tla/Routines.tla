------------------------------ MODULE Routines ------------------------------
(***************************************************************************)
(* Functions that compute their result in a loop and share no state, of    *)
(* the C library (libc/src) and of the GUI: a program makes the calls that *)
(* one of the modules describes.                                           *)
(***************************************************************************)
EXTENDS Sort, Calendar, Digits, Printf, Strings, Buffer, Heap, Strftime, Maths, Line

vars == <<sortVars, calVars, digVars, fmtVars, strVars, bufVars,
          heapVars, tfVars, mathVars, lineVars, searchVars>>

Init ==
    \E family \in {"sort", "cal", "dig", "fmt", "str", "buf",
                   "heap", "tf", "math", "line", "search"} :
        /\ IF family = "sort" THEN SortInit ELSE SortRest
        /\ IF family = "cal" THEN CalInit ELSE CalRest
        /\ IF family = "dig" THEN DigInit ELSE DigRest
        /\ IF family = "fmt" THEN FmtInit ELSE FmtRest
        /\ IF family = "str" THEN StrInit ELSE StrRest
        /\ IF family = "buf" THEN BufInit ELSE BufRest
        /\ IF family = "heap" THEN HeapInit ELSE HeapRest
        /\ IF family = "tf" THEN TfInit ELSE TfRest
        /\ IF family = "math" THEN MathInit ELSE MathRest
        /\ IF family = "line" THEN LineInit ELSE LineRest
        /\ IF family = "search" THEN SearchInit ELSE SearchRest

Next ==
    \/ SortNext /\ UNCHANGED <<calVars, digVars, fmtVars, strVars, bufVars,
          heapVars, tfVars, mathVars, lineVars, searchVars>>
    \/ CalNext /\ UNCHANGED <<sortVars, digVars, fmtVars, strVars, bufVars,
          heapVars, tfVars, mathVars, lineVars, searchVars>>
    \/ DigNext /\ UNCHANGED <<sortVars, calVars, fmtVars, strVars, bufVars,
          heapVars, tfVars, mathVars, lineVars, searchVars>>
    \/ FmtNext /\ UNCHANGED <<sortVars, calVars, digVars, strVars, bufVars,
          heapVars, tfVars, mathVars, lineVars, searchVars>>
    \/ StrNext /\ UNCHANGED <<sortVars, calVars, digVars, fmtVars, bufVars,
          heapVars, tfVars, mathVars, lineVars, searchVars>>
    \/ BufNext /\ UNCHANGED <<sortVars, calVars, digVars, fmtVars, strVars,
          heapVars, tfVars, mathVars, lineVars, searchVars>>
    \/ HeapNext /\ UNCHANGED <<sortVars, calVars, digVars, fmtVars, strVars,
          bufVars, tfVars, mathVars, lineVars, searchVars>>
    \/ TfNext /\ UNCHANGED <<sortVars, calVars, digVars, fmtVars, strVars,
          bufVars, heapVars, mathVars, lineVars, searchVars>>
    \/ MathNext /\ UNCHANGED <<sortVars, calVars, digVars, fmtVars, strVars,
          bufVars, heapVars, tfVars, lineVars, searchVars>>
    \/ LineNext /\ UNCHANGED <<sortVars, calVars, digVars, fmtVars, strVars,
          bufVars, heapVars, tfVars, mathVars, searchVars>>

\* A call runs without interruption.
Spec == Init /\ [][Next]_vars /\ WF_vars(Next)

\* Every call returns: no loop of these functions runs forever.
Returns ==
    <>({sort_pc, cal_pc, dig_pc, fmt_pc, str_pc, buf_pc, heap_pc, tf_pc, math_pc, line_pc}
         = {"done"})
=============================================================================
