---------------------------- MODULE StringBuffer ----------------------------
(***************************************************************************)
(* What the users of a character array expect of it: it holds a string of  *)
(* at most BufSize - 1 characters, copying sets it, appending extends it,  *)
(* both cut off what does not fit, and trimming drops blanks at its ends.  *)
(* Buffer implements this specification with the functions of string.c.    *)
(***************************************************************************)
EXTENDS Ctype, Sequences

CONSTANTS
    BufSize,        \* size of the array in bytes
    Pieces          \* the strings that are copied to it

VARIABLE str        \* the string the array holds

Kept(t) == SubSeq(t, 1, IF Len(t) < BufSize THEN Len(t) ELSE BufSize - 1)
Solid == {k \in 1..Len(str) : ~Isspace(str[k])}

BInit == str = <<>>

Copy == \E t \in Pieces : str' = Kept(t)
Extend == \E t \in Pieces : str' = Kept(str \o t)

\* Of a string of blanks the first one stays.
TrimEnd ==
    \E k \in 0..Len(str) :
        /\ \A i \in Solid : i =< k
        /\ k \in Solid \/ k = 1 \/ str = <<>>
        /\ Solid # {} => k \in Solid
        /\ str' = SubSeq(str, 1, k)

Trim ==
    \/ Solid = {} /\ str' = <<>>
    \/ \E j, k \in Solid : /\ Solid \subseteq j..k
                           /\ str' = SubSeq(str, j, k)

BSpec == BInit /\ [][Copy \/ Extend \/ TrimEnd \/ Trim]_str
=============================================================================
