----------------------------- MODULE JarvisCore -----------------------------
(***************************************************************************)
(* The AI core, ai_core/src/jarvis_core.c: a singleton made of several     *)
(* heap blocks, and a knowledge base of limited capacity searched from its *)
(* oldest entry.  kmalloc is external and may return NULL at any call.     *)
(***************************************************************************)
EXTENDS Integers, Sequences

CONSTANTS
    Characters,     \* a fixed text of the program counts as one
    Concepts,       \* the strings the properties ask about
    Lower(_),       \* tolower
    Field,          \* characters of a concept that strncpy copies, 63
    DefField,       \* characters of a definition that strncpy copies, 255
    Tails,          \* what the heap block holds behind them
    Capacity,       \* of the knowledge base, 100
    NULL

\* A string is the sequence of its characters; NULL is none.
CStrings == Seq(Characters)

ASSUME CoreAssumption ==
    /\ Field \in Nat \ {0} /\ DefField \in Nat \ {0} /\ Capacity \in Nat
    /\ Concepts \subseteq CStrings /\ Tails \subseteq CStrings /\ Tails # {}
    /\ NULL \notin CStrings \cup {"whole"}
    /\ "Analyse en cours..." \in Characters

Analysing == <<"Analyse en cours...">>    \* line 59

VARIABLES
    instance,       \* jarvis_instance: "absent" or "present"
    network,        \* nlp_network: NULL, or whether all weights were allocated
    knowledge,      \* NULL, or whether the array of nodes was allocated
    nodes,          \* the entries of the knowledge base
    learned,        \* history: concepts and definitions accepted, in order
    response,       \* what the last call of jarvis_process_input left
    result,         \* what the last call returned
    crashed         \* NULL was dereferenced

coreVars == <<instance, network, knowledge, nodes, learned, response, result, crashed>>

CoreStart ==
    /\ instance = "absent" /\ network = NULL /\ knowledge = NULL
    /\ nodes = <<>> /\ learned = <<>>
    /\ response = NULL /\ result = "none"
    /\ crashed = FALSE

\* jarvis_core_init, when the core exists already or has no block.
InitAgain ==
    /\ ~crashed
    /\ instance = "present"
    /\ result' = "JAR_OK"
    /\ UNCHANGED <<instance, network, knowledge, nodes, learned, response, crashed>>

InitFails ==
    /\ ~crashed
    /\ instance = "absent"
    /\ result' = "JAR_NOMEM"
    /\ UNCHANGED <<instance, network, knowledge, nodes, learned, response, crashed>>

(***************************************************************************)
(* jarvis_core_init with neural_network_create and knowledge_base_create.  *)
(* Missing networks, weights, knowledge and node arrays go unnoticed.      *)
(***************************************************************************)
CoreInit ==
    /\ ~crashed
    /\ instance = "absent"
    /\ instance' = "present"
    /\ network' \in {NULL, "whole", "weights missing"}
    /\ knowledge' \in {NULL, "whole", "array missing"}
    /\ result' = "JAR_OK"
    /\ UNCHANGED <<nodes, learned, response, crashed>>

\* Lines 73 and 75-77: no block for the layers or for the neurons of one.
CoreInitCrash ==
    /\ ~crashed
    /\ instance = "absent"
    /\ instance' = "present"
    /\ crashed' = TRUE
    /\ UNCHANGED <<network, knowledge, nodes, learned, response, result>>

-----------------------------------------------------------------------------
\* Mutant of Stored: no NUL is written behind a short concept.
StoredUnterminated(c, tail) ==
    IF Len(c) < Field THEN c \o tail ELSE SubSeq(c, 1, Field) \o tail

\* strncpy of a concept into a block that was not cleared (line 100).
Stored(c, tail) == IF Len(c) < Field THEN c ELSE SubSeq(c, 1, Field) \o tail

\* The same for its definition (line 101).
StoredDef(d, tail) == IF Len(d) < DefField THEN d ELSE SubSeq(d, 1, DefField) \o tail

\* knowledge_base_add.
AddFull ==
    /\ ~crashed
    /\ knowledge # NULL
    /\ Len(nodes) >= Capacity
    /\ result' = "JAR_NOMEM"
    /\ UNCHANGED <<instance, network, knowledge, nodes, learned, response, crashed>>

Room == Len(nodes) < Capacity

Add(c, d, tail, tail2) ==
    /\ ~crashed
    /\ knowledge = "whole"
    /\ Room
    /\ nodes' = Append(nodes, [concept |-> Stored(c, tail), definition |-> StoredDef(d, tail2)])
    /\ learned' = Append(learned, [concept |-> c, definition |-> d])
    /\ result' = "JAR_OK"
    /\ UNCHANGED <<instance, network, knowledge, response, crashed>>

\* No block for the node, or no array to put it in.
AddCrash ==
    /\ ~crashed
    /\ knowledge # NULL
    /\ Room
    /\ crashed' = TRUE
    /\ UNCHANGED <<instance, network, knowledge, nodes, learned, response, result>>

Fold(c) == [i \in 1..Len(c) |-> Lower(c[i])]
Matches(c) == {i \in 1..Len(nodes) : Fold(nodes[i].concept) = Fold(c)}

\* Mutant of QueryKnowledge: the newest entry wins.
QueryNewest(c) ==
    IF instance = "absent" \/ knowledge = NULL \/ Matches(c) = {} THEN NULL
    ELSE nodes[CHOOSE i \in Matches(c) : \A j \in Matches(c) : j =< i].definition

\* jarvis_query_knowledge: the first entry whose concept is the input.
QueryKnowledge(c) ==
    IF instance = "absent" \/ knowledge = NULL \/ Matches(c) = {} THEN NULL
    ELSE nodes[CHOOSE i \in Matches(c) : \A j \in Matches(c) : i =< j].definition

\* jarvis_process_input; without a core the response is not written.
ProcessInput(c) ==
    /\ ~crashed
    /\ IF instance = "absent" THEN result' = "JAR_INVAL" /\ response' = response
       ELSE /\ result' = "JAR_OK"
            /\ response' = IF QueryKnowledge(c) = NULL THEN Analysing
                           ELSE QueryKnowledge(c)
    /\ UNCHANGED <<instance, network, knowledge, nodes, learned, crashed>>

CoreInitCalls == InitAgain \/ InitFails \/ CoreInit \/ CoreInitCrash

-----------------------------------------------------------------------------
(***************************************************************************)
(* What the core has once answered it keeps answering: no later concept,   *)
(* no truncated one and no repeated initialisation takes the place of the  *)
(* entry that jarvis_query_knowledge found first.                          *)
(***************************************************************************)
AnswersStable ==
    [][ \A c \in Concepts :
          QueryKnowledge(c) # NULL => QueryKnowledge(c)' = QueryKnowledge(c) ]_coreVars

\* The entries accepted for a concept, whatever its case.
Taught(c) == {i \in 1..Len(learned) : Fold(learned[i].concept) = Fold(c)}

\* The answer starts with the definition, as much of it as its field holds.
Says(answer, d) ==
    IF Len(d) < DefField THEN answer = d
    ELSE answer # NULL /\ SubSeq(answer, 1, DefField) = SubSeq(d, 1, DefField)

(***************************************************************************)
(* A concept shorter than the field is found exactly when it was taught,   *)
(* with the definition taught first: concepts that strncpy cut off without *)
(* a NUL (line 100), and the heap contents read behind them, never pass    *)
(* for it, and what was accepted fits into the array (line 98).            *)
(***************************************************************************)
ShortConceptsFound ==
    /\ Len(learned) =< Capacity /\ (knowledge # "whole" => nodes = <<>>)
    /\ \A c \in Concepts : Len(c) < Field =>
         IF Taught(c) = {} THEN QueryKnowledge(c) = NULL
         ELSE Says(QueryKnowledge(c),
                   learned[CHOOSE i \in Taught(c) : \A j \in Taught(c) : i =< j].definition)
=============================================================================
