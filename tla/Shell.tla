------------------------------- MODULE Shell -------------------------------
(***************************************************************************)
(* The shell, tools/src/shell.c, on top of the AI core: the prompt, the    *)
(* table of commands, and every handler as the list of the calls it makes  *)
(* that another part of the system can see: changes of the colour, output, *)
(* calls of the core.  What is printed is reduced to whose voice it is.    *)
(*                                                                         *)
(* Line 206 stands in for the keyboard: here a line is any command with    *)
(* any arguments, as ShellParser hands them over, so without blanks.       *)
(***************************************************************************)
EXTENDS JarvisCore, ShellParser

CONSTANTS
    Words           \* arguments, and names that are no commands

ASSUME ShellAssumption ==
    /\ {Space, "What is the command:"} \subseteq Characters
    /\ Words \subseteq CStrings
    /\ \A w \in Words : \A i \in 1..Len(w) : w[i] # Space

VARIABLES
    color,              \* the foreground colour of the active console
    current_directory,
    todo                \* the calls that the command still has to make

shellVars == <<color, current_directory, todo>>
vars == <<coreVars, shellVars, parserVars>>

Colour(c) == [call |-> "colour", colour |-> c]
ResetColor == Colour("grey")
Say(voice) == [call |-> "print", voice |-> voice]     \* one or more lines
Clear == [call |-> "clear"]                             \* fills the screen with color
Ask(query) == [call |-> "ask", query |-> query]
Answer(words) == [call |-> "answer", words |-> words]   \* prints the response to them
Learn(topic, content) == [call |-> "learn", topic |-> topic, content |-> content]
GoHome == [call |-> "home"]

AiOutput == Colour("green")
AiThinking == Colour("blue")
Plain == <<Say("plain")>>
Titled(colour) == <<Colour(colour), Say("title"), ResetColor>>
Spoken == <<AiOutput, Say("jarvis"), ResetColor>>

\* Commands that print a usage when arguments are missing.
Needs(n, args, script) == IF Len(args) < n THEN Plain ELSE script

\* strcat of the arguments, a blank behind each.
Joined(args) ==
    LET upTo[n \in 0..Len(args)] ==
            IF n = 0 THEN <<>> ELSE upTo[n - 1] \o args[n] \o <<Space>>
    IN  upTo[Len(args)]

-----------------------------------------------------------------------------
(***************************************************************************)
(* The handlers.                                                           *)
(***************************************************************************)
ShellInit == Plain \o Titled("cyan") \o Plain
Prompt == Spoken

CmdHelp == Plain \o Titled("cyan") \o Plain
CmdClear == <<Clear>>
CmdEcho == Plain
CmdLs == Plain
CmdCd(args) == IF args = <<>> THEN <<GoHome>> ELSE Plain
CmdPwd == Plain
CmdCat(args) == Needs(1, args, Plain)
CmdMkdir(args) == Needs(1, args, Plain)
CmdRm(args) == Needs(1, args, Plain)
CmdCp(args) == Needs(2, args, Plain)
CmdMv(args) == Needs(2, args, Plain)
CmdPs == Plain
CmdKill(args) == Needs(1, args, Plain)
CmdMeminfo == Plain
CmdCpuinfo == Plain
CmdDiskinfo == Plain
CmdNetinfo == Plain
CmdPing(args) == Needs(1, args, Plain)
CmdIfconfig == CmdNetinfo
CmdDate == Plain
CmdUptime == Plain
CmdReboot == Plain
CmdShutdown == Plain
CmdJarvis(args) ==
    IF args = <<>> THEN Spoken
    ELSE <<Ask(Joined(args)), AiOutput, Answer(args), ResetColor>>
CmdLearn(args) ==
    Needs(2, args, <<Learn(args[1], Joined(Tail(args)))>> \o Spoken)
CmdThink == <<AiThinking, Say("jarvis"), ResetColor>> \o Spoken
CmdEvolve == Spoken
CmdSearch(args) == Needs(1, args, Spoken)

\* Mutant of CmdStatus: the last colour stays.
CmdStatusStaysGreen ==
    Plain \o Titled("cyan") \o Plain \o <<Colour("green"), Say("title")>>

CmdStatus == Plain \o Titled("cyan") \o Plain \o Titled("green")
CmdVersion == Plain \o Titled("cyan") \o Plain
CmdEdit(args) == Needs(1, args, Plain)
CmdCompile(args) == Needs(1, args, Plain)
CmdDebug == Plain

\* The table of commands, lines 56-107.
Builtin(name, args) ==
    CASE name \in {"help", "?"}        -> CmdHelp
      [] name \in {"clear", "cls"}     -> CmdClear
      [] name = "echo"                 -> CmdEcho
      [] name \in {"ls", "dir"}        -> CmdLs
      [] name = "cd"                   -> CmdCd(args)
      [] name = "pwd"                  -> CmdPwd
      [] name \in {"cat", "type"}      -> CmdCat(args)
      [] name \in {"mkdir", "md"}      -> CmdMkdir(args)
      [] name \in {"rm", "del"}        -> CmdRm(args)
      [] name \in {"cp", "copy"}       -> CmdCp(args)
      [] name \in {"mv", "rename"}     -> CmdMv(args)
      [] name = "ps"                   -> CmdPs
      [] name = "kill"                 -> CmdKill(args)
      [] name \in {"meminfo", "free"}  -> CmdMeminfo
      [] name = "cpuinfo"              -> CmdCpuinfo
      [] name \in {"diskinfo", "df"}   -> CmdDiskinfo
      [] name = "netinfo"              -> CmdNetinfo
      [] name \in {"ifconfig", "ip"}   -> CmdIfconfig
      [] name = "ping"                 -> CmdPing(args)
      [] name \in {"date", "time"}     -> CmdDate
      [] name = "uptime"               -> CmdUptime
      [] name \in {"reboot", "restart"} -> CmdReboot
      [] name \in {"shutdown", "halt"} -> CmdShutdown
      [] name \in {"jarvis", "ai"}     -> CmdJarvis(args)
      [] name = "learn"                -> CmdLearn(args)
      [] name = "think"                -> CmdThink
      [] name = "evolve"               -> CmdEvolve
      [] name = "search"               -> CmdSearch(args)
      [] name = "status"               -> CmdStatus
      [] name \in {"version", "ver"}   -> CmdVersion
      [] name = "edit"                 -> CmdEdit(args)
      [] name = "compile"              -> CmdCompile(args)
      [] name = "debug"                -> CmdDebug

Names ==
    {"help", "?", "clear", "cls", "echo", "ls", "dir", "cd", "pwd", "cat", "type", "mkdir",
     "md", "rm", "del", "cp", "copy", "mv", "rename", "ps", "kill", "meminfo", "free",
     "cpuinfo", "diskinfo", "df", "netinfo", "ifconfig", "ip", "ping", "date", "time",
     "uptime", "reboot", "restart", "shutdown", "halt", "jarvis", "ai", "learn", "think",
     "evolve", "search", "status", "version", "ver", "edit", "compile", "debug"}

\* "What is the command: " as a string, its characters left out.
WhatIs == <<"What is the command:", Space>>

\* Mutant of NotFound: the answer is printed before the core is asked.
NotFoundEarly(name) ==
    Spoken \o <<AiOutput, Answer(<<WhatIs \o name>>), ResetColor, Ask(WhatIs \o name)>>

\* Lines 173-186.
NotFound(name) ==
    Spoken \o <<Ask(WhatIs \o name), AiOutput, Answer(<<WhatIs \o name>>), ResetColor>>

-----------------------------------------------------------------------------
\* The parser gets any line; the shell runs on what it made of a line.
Init ==
    /\ CoreStart
    /\ color = "grey"
    /\ current_directory = "/"
    /\ todo = ShellInit
    /\ ParserInit \/ ParserRest

Running == pc = "done" /\ text = <<>> /\ ~crashed
AtPrompt == Running /\ todo = <<>>
ArgLists == UNION {[1..n -> Words] : n \in 0..(MaxArgs - 1)}

\* shell_execute: what the lines that can be entered lead to.
Scripts ==
    {Builtin(name, args) : name \in Names, args \in ArgLists}
    \cup {NotFound(name) : name \in Words} \cup {<<>>}

\* A turn of shell_run; the response buffers of a command are not initialised.
RunLine(script) ==
    /\ AtPrompt
    /\ todo' = Prompt \o script
    /\ response' = NULL
    /\ UNCHANGED <<color, current_directory, instance, network, knowledge, nodes,
                   learned, result, crashed>>

\* The rest of the system initialises the core, while no command runs.
InitCore ==
    /\ AtPrompt
    /\ CoreInitCalls
    /\ UNCHANGED shellVars

Calls(call) == Running /\ todo # <<>> /\ Head(todo).call = call

SetColor ==
    /\ Calls("colour")
    /\ color' = Head(todo).colour
    /\ todo' = Tail(todo)
    /\ UNCHANGED <<coreVars, current_directory>>

Output ==
    /\ Calls("print") \/ Calls("clear") \/ Calls("answer")
    /\ todo' = Tail(todo)
    /\ UNCHANGED <<coreVars, color, current_directory>>

ChangeToRoot ==
    /\ Calls("home")
    /\ current_directory' = "/"
    /\ todo' = Tail(todo)
    /\ UNCHANGED <<coreVars, color>>

AskCore ==
    /\ Calls("ask")
    /\ ProcessInput(Head(todo).query)
    /\ todo' = Tail(todo)
    /\ UNCHANGED <<color, current_directory>>

(***************************************************************************)
(* jarvis_learn, which is not in the repository: the knowledge base of the *)
(* core, if there is one, takes the topic and the content.                 *)
(***************************************************************************)
JarvisLearn(topic, content) ==
    \/ /\ instance = "absent" \/ knowledge = NULL
       /\ result' = "JAR_INVAL"
       /\ UNCHANGED <<instance, network, knowledge, nodes, learned, response, crashed>>
    \/ AddFull
    \/ \E tail, tail2 \in Tails : Add(topic, content, tail, tail2)
    \/ AddCrash

\* Lines 592-600: only a success is reported.
LearnTopic ==
    /\ Calls("learn")
    /\ JarvisLearn(Head(todo).topic, Head(todo).content)
    /\ todo' = IF result' = "JAR_OK" THEN Tail(todo) ELSE <<>>
    /\ UNCHANGED <<color, current_directory>>

Commands ==
    \/ \E script \in Scripts : RunLine(script)
    \/ InitCore
    \/ SetColor \/ Output \/ ChangeToRoot \/ AskCore \/ LearnTopic

Next ==
    \/ Commands /\ UNCHANGED parserVars
    \/ ParserNext /\ UNCHANGED <<coreVars, shellVars>>

\* The parser runs without interruption.
Spec == Init /\ [][Next]_vars /\ WF_parserVars(ParserNext)

-----------------------------------------------------------------------------
Palette == [plain |-> {"grey"}, title |-> {"cyan", "green"}, jarvis |-> {"green", "blue"}]

(***************************************************************************)
(* Colours never leak: whatever commands came before, however they ended,  *)
(* plain output and the cleared screen are grey, titles are not, JARVIS    *)
(* speaks in its own colours, and the shell waits for a line in grey.      *)
(***************************************************************************)
ColoursKept ==
    IF todo = <<>> THEN color = "grey"
    ELSE CASE Head(todo).call = "print"  -> color \in Palette[Head(todo).voice]
           [] Head(todo).call = "answer" -> color \in Palette.jarvis
           [] Head(todo).call = "clear"  -> color = "grey"
           [] OTHER                      -> TRUE

(***************************************************************************)
(* A response that is printed is one that the core has written for this    *)
(* command, exactly when there is a core.  Before jarvis_core_init, and    *)
(* when it found no memory, jarvis_process_input writes nothing, and the   *)
(* shell, which ignores its result (lines 182 and 571), prints the         *)
(* uninitialised buffer (lines 178 and 570).                               *)
(***************************************************************************)
AnswersWritten ==
    todo # <<>> /\ Head(todo).call = "answer" => (response = NULL <=> instance = "absent")
=============================================================================
