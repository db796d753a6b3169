------------------------------ MODULE MCGui ------------------------------
(***************************************************************************)
(* The graphical interface on a heap of ten blocks: the eight of a full    *)
(* gui_init and two windows of applications, so that a second gui_init     *)
(* meets a heap that is nearly exhausted, and a list that holds three      *)
(* windows, so that it fills up.                                           *)
(***************************************************************************)
EXTENDS Gui
=============================================================================
