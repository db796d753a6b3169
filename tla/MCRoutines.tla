------------------------------- MODULE MCRoutines -------------------------------
(***************************************************************************)
(* A small instance of Routines.  Characters are their codes.              *)
(***************************************************************************)
EXTENDS Routines

\* The years after the epoch, the leap century, and the century that is none.
MCClockYears == (1970..1973) \cup (1999..2001) \cup (2099..2101)

\* Arguments convert to one, three or no characters.
MCTexts == {<<>>, <<"x">>, <<"x", "y", "z">>}

\* The strings of at most k of the characters, with their NUL.
MCStrings(chars, k) == {s \o <<0>> : s \in UNION {[1..j -> chars] : j \in 0..k}}

\* Two cases of a letter and another letter; the neighbours of the alphabet.
MCTexts1 == MCStrings({65, 97, 98}, 4) \cup MCStrings({91, 90, 122, 200}, 2)
MCTexts2 == MCStrings({65, 97, 98}, 2) \cup MCStrings({91, 90, 122, 200}, 1)

\* A blank and a letter.
MCPieces == UNION {[1..j -> {32, 97}] : j \in 0..4}

MCDupTexts == {<<0>>, <<97, 98, 0>>}
=============================================================================
