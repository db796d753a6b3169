---------------------------- MODULE ShellParser ----------------------------
(***************************************************************************)
(* shell_parse_line, tools/src/shell.c: the line is cut into arguments in  *)
(* place, by writing NUL over separators and quotes, and argv points into  *)
(* it.  One step is one iteration of a loop.  The commands that join their *)
(* arguments again (jarvis, learn, search) are the reason to ask how long  *)
(* the arguments are together.                                             *)
(***************************************************************************)
EXTENDS Integers, Sequences, FiniteSets

CONSTANTS
    Letters,        \* characters of no special meaning
    MaxLen,         \* length of the longest line, SHELL_BUFFER_SIZE - 1
    MaxArgs         \* SHELL_MAX_ARGS

ASSUME ParserAssumption ==
    /\ MaxLen \in Nat /\ MaxArgs \in Nat \ {0}
    /\ Letters \cap {" ", "quote", "NUL"} = {}

Space == " "        \* isspace
Quote == "quote"
NUL == "NUL"
Chars == Letters \cup {Space, Quote}

VARIABLES
    text,           \* history: the line as it was entered
    line,           \* the line, a NUL behind it
    p,              \* the next character to look at
    argv,           \* where the arguments start
    in_quotes,
    pc              \* the loop that runs

parserVars == <<text, line, p, argv, in_quotes, pc>>

ParserInit ==
    /\ text \in UNION {[1..n -> Chars] : n \in 0..MaxLen}
    /\ line = Append(text, NUL)
    /\ p = 1 /\ argv = <<>> /\ in_quotes = FALSE
    /\ pc = "lead"

\* Line 132: leading blanks.
SkipLead ==
    /\ pc = "lead"
    /\ IF line[p] = Space THEN p' = p + 1 /\ pc' = pc
                          ELSE p' = p /\ pc' = "argument"
    /\ UNCHANGED <<text, line, argv, in_quotes>>

\* Lines 138-140.
StartArgument ==
    /\ pc = "argument"
    /\ line[p] # NUL /\ Len(argv) < MaxArgs
    /\ argv' = Append(argv, p)
    /\ pc' = "scan"
    /\ UNCHANGED <<text, line, p, in_quotes>>

Finish ==
    /\ pc = "argument"
    /\ line[p] = NUL \/ Len(argv) >= MaxArgs
    /\ pc' = "done"
    /\ UNCHANGED <<text, line, p, argv, in_quotes>>

\* Lines 143-153: the end of the line, a quote, a separator, anything else.
ScanEnd ==
    /\ pc = "scan" /\ line[p] = NUL
    /\ pc' = "gap"
    /\ UNCHANGED <<text, line, p, argv, in_quotes>>

\* Mutant of ScanQuote: a quote is never closed.
ScanQuoteOpens ==
    /\ pc = "scan" /\ line[p] = Quote
    /\ in_quotes' = TRUE
    /\ line' = [line EXCEPT ![p] = NUL]
    /\ p' = p + 1
    /\ UNCHANGED <<text, argv, pc>>

ScanQuote ==
    /\ pc = "scan" /\ line[p] = Quote
    /\ in_quotes' = ~in_quotes
    /\ line' = [line EXCEPT ![p] = NUL]
    /\ p' = p + 1
    /\ UNCHANGED <<text, argv, pc>>

\* Mutant of ScanSpace: the separator stays in the line.
ScanSpaceKept ==
    /\ pc = "scan" /\ line[p] = Space /\ ~in_quotes
    /\ p' = p + 1
    /\ pc' = "gap"
    /\ UNCHANGED <<text, line, argv, in_quotes>>

ScanSpace ==
    /\ pc = "scan" /\ line[p] = Space /\ ~in_quotes
    /\ line' = [line EXCEPT ![p] = NUL]
    /\ p' = p + 1
    /\ pc' = "gap"
    /\ UNCHANGED <<text, argv, in_quotes>>

ScanOther ==
    /\ pc = "scan"
    /\ line[p] \in Letters \/ (line[p] = Space /\ in_quotes)
    /\ p' = p + 1
    /\ UNCHANGED <<text, line, argv, in_quotes, pc>>

\* Mutant of SkipGap: the loop does not advance.
SkipGapStuck ==
    /\ pc = "gap"
    /\ IF line[p] = Space THEN p' = p /\ pc' = pc
                          ELSE p' = p /\ pc' = "argument"
    /\ UNCHANGED <<text, line, argv, in_quotes>>

\* Line 156.
SkipGap ==
    /\ pc = "gap"
    /\ IF line[p] = Space THEN p' = p + 1 /\ pc' = pc
                          ELSE p' = p /\ pc' = "argument"
    /\ UNCHANGED <<text, line, argv, in_quotes>>

\* No line.
ParserRest ==
    text = <<>> /\ line = <<NUL>> /\ p = 1 /\ argv = <<>> /\ in_quotes = FALSE /\ pc = "done"

ParserNext ==
    \/ SkipLead \/ StartArgument \/ Finish
    \/ ScanEnd \/ ScanQuote \/ ScanSpace \/ ScanOther
    \/ SkipGap

-----------------------------------------------------------------------------
\* The string a pointer into the line stands for.
StringAt(i) ==
    LET end == CHOOSE j \in i..Len(line) :
                  line[j] = NUL /\ \A k \in i..(j - 1) : line[k] # NUL
    IN  SubSeq(line, i, end - 1)

\* Lines 564-568, 586-590 and 638-642: the arguments from the n-th on, a blank behind each.
JoinedLength(n) ==
    LET upTo[k \in (n - 1)..Len(argv)] ==
            IF k < n THEN 0 ELSE upTo[k - 1] + Len(StringAt(argv[k])) + 1
    IN  upTo[Len(argv)]

\* Pieces of the line as the user reads it: blanks outside quotes separate.
QuotesBefore(i) == Cardinality({j \in 1..(i - 1) : text[j] = Quote})
Separates(i) == text[i] = Space /\ QuotesBefore(i) % 2 = 0
Starts == {i \in 1..Len(text) : ~Separates(i) /\ (i > 1 => Separates(i - 1))}
PieceAt(i) ==
    LET end == CHOOSE j \in i..Len(text) :
                  /\ \A k \in i..j : ~Separates(k)
                  /\ j < Len(text) => Separates(j + 1)
    IN  SubSeq(text, i, end)

-----------------------------------------------------------------------------
(***************************************************************************)
(* On every line, with quotes or not, closed or not, the arguments are the *)
(* pieces between unquoted blanks, in order, up to the limit; a piece      *)
(* without quotes is handed over unchanged.                                *)
(***************************************************************************)
SplitsIntoPieces ==
    pc = "done" =>
        /\ \A k \in 1..Len(argv) : argv[k] \in Starts /\ (k > 1 => argv[k - 1] < argv[k])
        /\ \A i \in Starts : \/ \E k \in 1..Len(argv) : argv[k] = i
                             \/ Len(argv) = MaxArgs /\ argv[MaxArgs] < i
        /\ \A k \in 1..Len(argv) :
              (\A c \in 1..Len(PieceAt(argv[k])) : PieceAt(argv[k])[c] # Quote)
              => StringAt(argv[k]) = PieceAt(argv[k])

(***************************************************************************)
(* Joined again with a blank behind each (lines 564, 586 and 638), the     *)
(* arguments and their NUL take no more bytes than the line had            *)
(* characters, however long it is: the blank behind the last one takes     *)
(* the place of the name of the command.  The line is the only bound:      *)
(* strcat has none, and the buffers (1024 bytes) are smaller than the      *)
(* longest line (SHELL_BUFFER_SIZE - 1 characters).                        *)
(***************************************************************************)
JoinedInLine ==
    pc = "done" /\ Len(argv) >= 2 => JoinedLength(2) + 1 =< Len(text)

\* Every line is parsed to its end; no loop hangs.
Terminates == <>(pc = "done")

(***************************************************************************)
(* The user guide quotes arguments that hold blanks: on a line whose       *)
(* quotes are closed, a quoted piece is handed over without its quotes.    *)
(***************************************************************************)
QuotedArgumentKept ==
    pc = "done" /\ QuotesBefore(Len(text) + 1) % 2 = 0 =>
        \A k \in 1..Len(argv) :
            StringAt(argv[k]) = SelectSeq(PieceAt(argv[k]), LAMBDA c : c # Quote)
=============================================================================
