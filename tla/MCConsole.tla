----------------------------- MODULE MCConsole -----------------------------
(***************************************************************************)
(* Small instances of Console.                                             *)
(***************************************************************************)
EXTENDS ScrollLoops, TLC

CONSTANTS Aux   \* a console of a caller

MainAndAux == {Main, Aux}

TwoWidths == Main :> 2 @@ Aux :> 1
TwoHeights == Main :> 2 @@ Aux :> 3
=============================================================================
