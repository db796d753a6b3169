------------------------------- MODULE Ctype -------------------------------
(***************************************************************************)
(* Character classes, libc/src/ctype.c.  Characters are their codes.       *)
(***************************************************************************)
EXTENDS Integers

Chars == 0..255

\* ctype_table: the classes of a character.  127 counts as punctuation.
ctype_table ==
    [c \in Chars |->
        CASE c \in 9..13                         -> {"C", "S"}
          [] c \in (0..8) \cup (14..31)          -> {"C"}
          [] c = 32                              -> {"S"}
          [] c \in 48..57                        -> {"D", "X"}
          [] c \in 65..70                        -> {"U", "X"}
          [] c \in 71..90                        -> {"U"}
          [] c \in 97..102                       -> {"L", "X"}
          [] c \in 103..122                      -> {"L"}
          [] c > 127                             -> {}
          [] OTHER                               -> {"P"}]

Is(classes, c) == ctype_table[c] \cap classes # {}

Isalnum(c) == Is({"U", "L", "D"}, c)
Isalpha(c) == Is({"U", "L"}, c)
Iscntrl(c) == Is({"C"}, c)
Isdigit(c) == Is({"D"}, c)
Isgraph(c) == c > 32 /\ c < 127
Islower(c) == Is({"L"}, c)
Isprint(c) == c >= 32 /\ c < 127
Ispunct(c) == Is({"P"}, c)
Isspace(c) == Is({"S"}, c)
Isupper(c) == Is({"U"}, c)
Isxdigit(c) == Is({"X"}, c)
Tolower(c) == IF Isupper(c) THEN c + 32 ELSE c
Toupper(c) == IF Islower(c) THEN c - 32 ELSE c

\* The table and the ranges agree, but for DEL.
ASSUME ClassesAgree ==
    \A c \in 0..126 :
        /\ Isgraph(c) <=> Isalnum(c) \/ Ispunct(c)
        /\ Isprint(c) <=> ~Iscntrl(c)
        /\ Isxdigit(c) => Isalnum(c)
        /\ Isalpha(c) => {Toupper(Tolower(c)), Tolower(Toupper(c))} = {Toupper(c), Tolower(c)}
=============================================================================
