------------------------------- MODULE Printf -------------------------------
(***************************************************************************)
(* The two interpreters of format strings: vsnprintf, libc/src/stdio.c,    *)
(* which copies into a buffer of size bytes and cuts off where it ends,    *)
(* and console_vprintf, kernel/src/console.c, which prints without a limit *)
(* and also knows "%l".  One step is one iteration of the outer loop.  Of  *)
(* the format only the kind of its characters matters: "%", "v" (a letter  *)
(* of a conversion that yields text: d i u x X p s), "c", "l", and "o"     *)
(* (any other character, which is no conversion).                          *)
(***************************************************************************)
EXTENDS Integers, Sequences

CONSTANTS
    Texts,          \* the texts arguments are converted to
    MaxFormat,      \* length of the longest format
    MaxSize,        \* largest buffer
    SizeMod         \* one more than the largest size_t

\* The characters that are printed.
Letters == {"%", "v", "c", "o", "l"} \cup UNION {{t[n] : n \in DOMAIN t} : t \in Texts}

ASSUME PrintfAssumption ==
    /\ Texts \subseteq Seq(Letters)
    /\ {MaxFormat, MaxSize, SizeMod} \subseteq Nat /\ SizeMod > 1 /\ MaxSize < SizeMod

VARIABLES
    writer,         \* "libc" or "console"
    format,
    size,
    at,             \* the place in the format
    out,            \* the characters in the buffer
    full,           \* history: what an endless buffer would hold
    fmt_pc

fmtVars == <<writer, format, size, at, out, full, fmt_pc>>

Prefix(s, n) == SubSeq(s, 1, IF Len(s) < n THEN Len(s) ELSE n)

\* size - 1 in size_t: an empty buffer has no end.
Room == (size + SizeMod - 1) % SizeMod

FmtInit ==
    /\ writer \in {"libc", "console"}
    /\ format \in UNION {[1..n -> {"%", "v", "c", "o", "l"}] : n \in 0..MaxFormat}
    /\ IF writer = "console" THEN size = 0
       ELSE /\ size \in 0..MaxSize \cup {SizeMod - 1}      \* the last one: vsprintf
            /\ \A n \in DOMAIN format : format[n] # "l"    \* there "l" is an "o"
    /\ at = 1 /\ out = <<>> /\ full = <<>>
    /\ fmt_pc = "loop"

FmtRest ==
    writer = "libc" /\ format = <<>> /\ size = 1 /\ at = 1 /\ out = <<>> /\ full = <<>> /\ fmt_pc = "done"

Fits == writer = "console" \/ Len(out) < Room
Looping == fmt_pc = "loop" /\ at =< Len(format) /\ Fits
\* Line 75 (console.c:115): a conversion begins, unless "%" is the last character.
Converting == format[at] = "%" /\ at < Len(format)

\* Mutant of ConvertText: the text is not cut off.
ConvertTextUncut(t) ==
    /\ Looping /\ Converting /\ format[at + 1] = "v"
    /\ out' = out \o t
    /\ full' = full \o t
    /\ at' = at + 2
    /\ UNCHANGED <<writer, format, size, fmt_pc>>

\* Lines 78-129 (console.c:123-169).
ConvertText(t) ==
    /\ Looping /\ Converting /\ format[at + 1] = "v"
    /\ out' = IF writer = "console" THEN out \o t ELSE Prefix(out \o t, Room)
    /\ full' = full \o t
    /\ at' = at + 2
    /\ UNCHANGED <<writer, format, size, fmt_pc>>

\* Lines 130-139: "%c" and "%%" (console.c:118-122 and 191-194).
ConvertChar ==
    /\ Looping /\ Converting /\ format[at + 1] \in {"c", "%"}
    /\ out' = Append(out, format[at + 1])
    /\ full' = Append(full, format[at + 1])
    /\ at' = at + 2
    /\ UNCHANGED <<writer, format, size, fmt_pc>>

\* Lines 140-144 (console.c:195-199): both characters are copied, whatever room there is.
Unknown ==
    /\ Looping /\ Converting /\ format[at + 1] = "o"
    /\ out' = out \o <<"%", "o">>
    /\ full' = full \o <<"%", "o">>
    /\ at' = at + 2
    /\ UNCHANGED <<writer, format, size, fmt_pc>>

(***************************************************************************)
(* console.c:170-190, where "%l" takes one more letter, whatever it is:    *)
(* u, d and x print a text, any other, i, X, p and s among them, nothing.  *)
(* It does not look for the end of the format before it takes that letter, *)
(* and the loop goes on behind the NUL.                                    *)
(***************************************************************************)
ConvertLong(t) ==
    /\ Looping /\ Converting /\ format[at + 1] = "l"
    /\ t = <<>> \/ (at + 2 =< Len(format) /\ format[at + 2] = "v")
    /\ out' = out \o t
    /\ full' = full \o t
    /\ at' = at + 3
    /\ UNCHANGED <<writer, format, size, fmt_pc>>

Literal ==
    /\ Looping /\ ~Converting
    /\ out' = Append(out, format[at])
    /\ full' = Append(full, format[at])
    /\ at' = at + 1
    /\ UNCHANGED <<writer, format, size, fmt_pc>>

\* Lines 153-158: NUL goes behind the text.
FmtEnd ==
    /\ fmt_pc = "loop" /\ (at > Len(format) \/ ~Fits)
    /\ fmt_pc' = "done"
    /\ UNCHANGED <<writer, format, size, at, out, full>>

FmtNext ==
    \/ \E t \in Texts : ConvertText(t) \/ ConvertLong(t)
    \/ ConvertChar \/ Unknown \/ Literal \/ FmtEnd

\* The format ended in a conversion that is none, where one byte was left.
CutConversion ==
    /\ at > 2 /\ format[at - 2] = "%" /\ format[at - 1] = "o"
    /\ Len(out) = size

(***************************************************************************)
(* What vsnprintf leaves in a buffer is the text an endless one would      *)
(* hold, up to the last byte but one, so that its NUL is inside; only an   *)
(* unknown conversion at the end takes that byte too (CutConversion), and  *)
(* its NUL lands behind the buffer (line 154).  In a buffer of size 0 the  *)
(* code sees no end (line 74): it writes the whole text there, as          *)
(* console_vprintf prints all of it.  No text is given up while there is   *)
(* room, and neither function reads behind the NUL of its format, except   *)
(* console_vprintf when the format breaks off in "%l" (console.c:171).     *)
(***************************************************************************)
PrintsPrefix ==
    fmt_pc = "done" =>
        /\ size > 0 => /\ out = Prefix(full, IF CutConversion THEN size ELSE size - 1)
                       /\ Len(full) < size - 1 => at > Len(format)
        /\ size = 0 /\ (writer = "libc" => Len(full) < SizeMod - 1)
              => out = full /\ at > Len(format)
        /\ at > Len(format) + 1 =>
              /\ writer = "console" /\ Len(format) > 1
              /\ format[Len(format)] = "l" /\ format[Len(format) - 1] = "%"
=============================================================================
