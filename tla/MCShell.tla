------------------------------ MODULE MCShell ------------------------------
(***************************************************************************)
(* A small instance of Shell: a field for two characters of a topic and    *)
(* three of a definition, topics of one to three characters, some of which *)
(* differ in case only.                                                    *)
(***************************************************************************)
EXTENDS Shell

MCLower(ch) == IF ch = "A" THEN "a" ELSE ch

MCCharacters ==
    {"a", "A", "b", Space, "What is the command:", "Analyse en cours..."}
MCWords == {<<"a">>, <<"A">>, <<"A", "b", "b">>}
MCConcepts == MCWords \cup {<<"a", " ">>}
MCTails == {<<>>, <<"b">>}
=============================================================================
