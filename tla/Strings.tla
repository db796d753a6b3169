------------------------------ MODULE Strings ------------------------------
(***************************************************************************)
(* Two functions of libc/src/string.c that work in place: memmove on areas *)
(* that overlap, a byte in each step, and strtok with the pointer it keeps *)
(* from one call to the next, a call in each step.                         *)
(***************************************************************************)
EXTENDS StrSearch, FiniteSets

CONSTANTS
    Memory,         \* bytes of the area memmove works in
    MaxString       \* longest string given to strtok

ASSUME StringsAssumption == Memory \in Nat /\ MaxString \in Nat

NoPointer == 0
Dash == 45
delim == <<Dash, NUL>>

VARIABLES
    mem, dest, src, count,      \* memmove: the bytes and what is left to do
    moving,                     \* history: the call
    text,                       \* strtok: the line with its NUL
    line,                       \* history: the line at the first call
    saveptr, tokens,            \* the static pointer; the tokens returned
    str_pc

moveVars == <<mem, dest, src, count, moving>>
tokVars == <<text, line, saveptr, tokens>>
strVars == <<moveVars, tokVars, str_pc>>

Bytes == [n \in 1..Memory |-> n]        \* all different

MoveRest == mem = Bytes /\ dest = 1 /\ src = 1 /\ count = 0
            /\ moving = [dest |-> 1, src |-> 1, count |-> 0]
TokRest == text = <<NUL>> /\ line = <<>> /\ saveptr = NoPointer /\ tokens = <<>>

StrInit ==
    \/ /\ mem = Bytes
       /\ moving \in [dest : 1..Memory, src : 1..Memory, count : 0..Memory]
       /\ moving.dest + moving.count =< Memory + 1
       /\ moving.src + moving.count =< Memory + 1
       /\ dest = moving.dest /\ src = moving.src /\ count = moving.count
       /\ str_pc = "memmove"
       /\ TokRest
    \/ /\ line \in UNION {[1..n -> {97, Dash}] : n \in 0..MaxString}
       /\ text = Append(line, NUL)
       /\ saveptr = 1 /\ tokens = <<>>
       /\ str_pc = "strtok"
       /\ MoveRest

StrRest == MoveRest /\ TokRest /\ str_pc = "done"

-----------------------------------------------------------------------------
\* Mutant of Forward: the direction is chosen the wrong way round.
ForwardAlways == TRUE

\* memmove, line 26.
Forward == moving.dest < moving.src

\* Lines 26-36.  dest and src stay at the start of what is left.
MoveByte ==
    /\ str_pc = "memmove" /\ count > 0
    /\ IF Forward
       THEN /\ mem' = [mem EXCEPT ![dest] = mem[src]]
            /\ dest' = dest + 1 /\ src' = src + 1
       ELSE /\ mem' = [mem EXCEPT ![dest + count - 1] = mem[src + count - 1]]
            /\ UNCHANGED <<dest, src>>
    /\ count' = count - 1
    /\ UNCHANGED <<moving, tokVars, str_pc>>

MoveEnd ==
    /\ str_pc = "memmove" /\ count = 0
    /\ str_pc' = "done"
    /\ UNCHANGED <<moveVars, tokVars>>

-----------------------------------------------------------------------------
\* Mutant of Strtok: the pointer stays on the NUL it has written.
StrtokStays ==
    /\ str_pc = "strtok" /\ saveptr # NoPointer
    /\ LET p == Span(text, saveptr, delim)
           q == Cspan(text, p, delim)
       IN  IF text[p] = NUL
           THEN saveptr' = NoPointer /\ UNCHANGED <<text, tokens>>
           ELSE /\ tokens' = Append(tokens, p)
                /\ IF text[q] = NUL THEN saveptr' = NoPointer /\ text' = text
                   ELSE saveptr' = q /\ text' = [text EXCEPT ![q] = NUL]
    /\ UNCHANGED <<line, moveVars, str_pc>>

\* strtok_r with the static saveptr.
Strtok ==
    /\ str_pc = "strtok" /\ saveptr # NoPointer
    /\ LET p == Span(text, saveptr, delim)
           q == Cspan(text, p, delim)
       IN  IF text[p] = NUL
           THEN saveptr' = NoPointer /\ UNCHANGED <<text, tokens>>
           ELSE /\ tokens' = Append(tokens, p)
                /\ IF text[q] = NUL THEN saveptr' = NoPointer /\ text' = text
                   ELSE saveptr' = q + 1 /\ text' = [text EXCEPT ![q] = NUL]
    /\ UNCHANGED <<line, moveVars, str_pc>>

\* Line 202: without a pointer the answer is NULL.
StrtokEnd ==
    /\ str_pc = "strtok" /\ saveptr = NoPointer
    /\ str_pc' = "done"
    /\ UNCHANGED <<moveVars, tokVars>>

StrNext == MoveByte \/ MoveEnd \/ Strtok \/ StrtokEnd

-----------------------------------------------------------------------------
(***************************************************************************)
(* memmove delivers the bytes the source held at the call, and touches no  *)
(* other, however the two areas overlap.                                   *)
(***************************************************************************)
MovesAll ==
    str_pc = "done" =>
        \A n \in 1..Memory :
            mem[n] = IF n \in moving.dest..(moving.dest + moving.count - 1)
                     THEN n - moving.dest + moving.src ELSE n

\* Where the runs without a delimiter begin in the line.
Starts == {n \in 1..Len(line) : line[n] # Dash /\ (n = 1 \/ line[n - 1] = Dash)}
\* The string at p, as a reader of text and as one of the line sees it.
InText(p) == SubSeq(text, p, Loop(p, Len(text), LAMBDA q : text[q] # NUL) - 1)
InLine(p) == LET ends == {q \in p..Len(line) : q = Len(line) \/ line[q + 1] = Dash}
             IN  SubSeq(line, p, CHOOSE q \in ends : \A r \in ends : q =< r)

(***************************************************************************)
(* The calls of strtok return every run of the line between delimiters,    *)
(* each once and in order, and a token stays intact while later calls cut  *)
(* the rest of the line.                                                   *)
(***************************************************************************)
TokensRight ==
    /\ \A n \in 1..Len(tokens) :
          /\ tokens[n] \in Starts
          /\ n > 1 => tokens[n - 1] < tokens[n]
          /\ InText(tokens[n]) = InLine(tokens[n])
    /\ str_pc = "done" => Len(tokens) = Cardinality(Starts)
=============================================================================
