---------------------------- MODULE ShellProofs ----------------------------
(***************************************************************************)
(* Theorems about the shell, its parser and the AI core: for any lines and *)
(* words, any sizes of the fields of a knowledge node and any capacity of  *)
(* the knowledge base.                                                     *)
(***************************************************************************)
EXTENDS Shell, NaturalLemmas, FiniteSetTheorems, SequenceTheorems, TLAPS

Node == [concept : CStrings, definition : CStrings]

\* What a node of the knowledge base holds of what was learned.
Holds(node, entry) ==
    \E tail, tail2 \in Tails :
        node = [concept |-> Stored(entry.concept, tail),
                definition |-> StoredDef(entry.definition, tail2)]

\* The nodes are the entries accepted, in order, as far as the fields hold them.
CoreInv ==
    /\ instance \in {"absent", "present"}
    /\ instance = "absent" => knowledge = NULL
    /\ knowledge # "whole" => nodes = <<>>
    /\ nodes \in Seq(Node) /\ learned \in Seq(Node)
    /\ Len(nodes) = Len(learned) /\ Len(learned) =< Capacity
    /\ \A i \in 1..Len(learned) : Holds(nodes[i], learned[i])

-----------------------------------------------------------------------------
\* Intervals from 1 that are equal end at the same number.
LEMMA SameEnd ==
    ASSUME NEW m \in Nat, NEW n \in Nat, 1..m = 1..n
    PROVE  m = n
<1>1. \A x \in Int : x \in 1..m <=> 1 =< x /\ x =< m
  OBVIOUS
<1>2. \A x \in Int : x \in 1..n <=> 1 =< x /\ x =< n
  OBVIOUS
<1>3. QED
  BY <1>1, <1>2

\* Strings have a length.
LEMMA LengthType == \A s \in CStrings : Len(s) \in Nat
BY DEF CStrings

\* Strings of different length differ in more than case.
LEMMA FoldLength ==
    ASSUME NEW c \in CStrings, NEW d \in CStrings, Fold(c) = Fold(d)
    PROVE  Len(c) = Len(d)
<1>1. Len(c) \in Nat /\ Len(d) \in Nat
  BY DEF CStrings
<1>2. DOMAIN Fold(c) = 1..Len(c) /\ DOMAIN Fold(d) = 1..Len(d)
  BY DEF Fold
<1>3. 1..Len(c) = 1..Len(d)
  BY <1>2
<1>4. QED
  BY <1>1, <1>3, SameEnd

\* What strncpy copies of a string that is too long, and what lies behind it.
LEMMA CutFact ==
    ASSUME NEW d \in CStrings, NEW t \in CStrings, NEW k \in Nat, Len(d) >= k
    PROVE  LET s == SubSeq(d, 1, k) \o t
           IN  s \in CStrings /\ Len(s) >= k /\ SubSeq(s, 1, k) = SubSeq(d, 1, k)
<1> DEFINE a == SubSeq(d, 1, k)
           s == a \o t
<1>1. d \in Seq(Characters) /\ t \in Seq(Characters) /\ Len(d) \in Nat /\ Len(t) \in Nat
  BY DEF CStrings
<1>2. a \in Seq(Characters) /\ Len(a) = k /\ \A i \in 1..k : a[i] = d[i]
  BY <1>1
<1> HIDE DEF a
<1>3. s \in Seq(Characters) /\ Len(s) = k + Len(t) /\ \A i \in 1..k : s[i] = a[i]
  BY <1>1, <1>2
<1> HIDE DEF s
<1>4. SubSeq(s, 1, k) = [i \in 1..k |-> s[i]] /\ a = [i \in 1..k |-> a[i]]
  BY <1>1, <1>2, <1>3
<1>5. SubSeq(s, 1, k) = a
  BY <1>3, <1>4
<1>6. QED
  BY <1>1, <1>3, <1>5 DEF a, s, CStrings

\* The stored forms of a string are strings.
LEMMA StoredType ==
    ASSUME NEW d \in CStrings, NEW t \in Tails
    PROVE  Stored(d, t) \in CStrings /\ StoredDef(d, t) \in CStrings
<1>1. t \in CStrings /\ Field \in Nat /\ DefField \in Nat
  BY CoreAssumption
<1>2. CASE Len(d) < Field
  <2>1. Stored(d, t) = d
    BY <1>2 DEF Stored
  <2>2. CASE Len(d) < DefField
    BY <2>1, <2>2 DEF StoredDef
  <2>3. CASE ~(Len(d) < DefField)
    BY <1>1, <2>1, <2>3, CutFact DEF StoredDef, CStrings
  <2>4. QED
    BY <2>2, <2>3
<1>3. CASE ~(Len(d) < Field)
  <2>1. Stored(d, t) \in CStrings
    BY <1>1, <1>3, CutFact DEF Stored, CStrings
  <2>2. CASE Len(d) < DefField
    BY <2>1, <2>2 DEF StoredDef
  <2>3. CASE ~(Len(d) < DefField)
    BY <1>1, <2>1, <2>3, CutFact DEF StoredDef, CStrings
  <2>4. QED
    BY <2>2, <2>3
<1>4. QED
  BY <1>2, <1>3

\* strncpy keeps short strings apart from everything else.
LEMMA StoredMatches ==
    ASSUME NEW c \in CStrings, Len(c) < Field, NEW d \in CStrings, NEW t \in Tails
    PROVE  Fold(Stored(d, t)) = Fold(c) <=> Fold(d) = Fold(c)
<1>1. t \in CStrings /\ Field \in Nat /\ Len(c) \in Nat /\ Len(d) \in Nat
  BY CoreAssumption, LengthType
<1>2. CASE Len(d) < Field
  BY <1>2 DEF Stored
<1>3. CASE Len(d) >= Field
  <2>1. Stored(d, t) \in CStrings /\ Len(Stored(d, t)) >= Field
    BY <1>1, <1>3, CutFact DEF Stored
  <2>2. Len(Stored(d, t)) \in Nat
    BY <2>1 DEF CStrings
  <2>3. Fold(Stored(d, t)) # Fold(c)
    BY <1>1, <2>1, <2>2, FoldLength
  <2>4. Fold(d) # Fold(c)
    BY <1>1, <1>3, FoldLength
  <2>5. QED
    BY <2>3, <2>4
<1>4. QED
  BY <1>1, <1>2, <1>3

\* The definition stored says what was learned.
LEMMA StoredSays ==
    ASSUME NEW d \in CStrings, NEW t \in Tails
    PROVE  Says(StoredDef(d, t), d)
<1>1. t \in CStrings /\ DefField \in Nat /\ Len(d) \in Nat /\ NULL \notin CStrings
  BY CoreAssumption, LengthType
<1>2. CASE Len(d) < DefField
  BY <1>2 DEF StoredDef, Says
<1>3. CASE ~(Len(d) < DefField)
  <2>1. StoredDef(d, t) = SubSeq(d, 1, DefField) \o t
    BY <1>3 DEF StoredDef
  <2>2. StoredDef(d, t) \in CStrings
    BY StoredType
  <2>3. SubSeq(StoredDef(d, t), 1, DefField) = SubSeq(d, 1, DefField)
    BY <1>1, <1>3, <2>1, CutFact
  <2>4. QED
    BY <1>1, <1>3, <2>2, <2>3 DEF Says
<1>4. QED
  BY <1>2, <1>3

\* What jarvis_query_knowledge reads is what was taught.
LEMMA MatchesTaught ==
    ASSUME CoreInv, NEW c \in CStrings, Len(c) < Field
    PROVE  Matches(c) = Taught(c)
<1>1. Len(nodes) = Len(learned)
  BY DEF CoreInv
<1>2. ASSUME NEW i \in 1..Len(learned)
      PROVE  Fold(nodes[i].concept) = Fold(c) <=> Fold(learned[i].concept) = Fold(c)
  <2>1. Holds(nodes[i], learned[i]) /\ learned[i] \in Node
    BY DEF CoreInv
  <2>2. PICK t \in Tails : nodes[i].concept = Stored(learned[i].concept, t)
    BY <2>1 DEF Holds
  <2>3. learned[i].concept \in CStrings
    BY <2>1 DEF Node
  <2>4. Fold(Stored(learned[i].concept, t)) = Fold(c) <=> Fold(learned[i].concept) = Fold(c)
    BY <2>3, StoredMatches
  <2>5. QED
    BY <2>2, <2>4
<1>3. QED
  BY <1>1, <1>2 DEF Matches, Taught

\* A short concept is found when it was taught, with its first definition.
LEMMA CoreFinds ==
    ASSUME CoreInv
    PROVE  ShortConceptsFound
<1>1. Len(learned) =< Capacity /\ (knowledge # "whole" => nodes = <<>>)
  BY DEF CoreInv
<1>2. ASSUME NEW c \in Concepts, Len(c) < Field, Taught(c) = {}
      PROVE  QueryKnowledge(c) = NULL
  <2>1. c \in CStrings
    BY CoreAssumption
  <2>2. QED
    BY <1>2, <2>1, MatchesTaught DEF QueryKnowledge
<1>3. ASSUME NEW c \in Concepts, Len(c) < Field, Taught(c) # {}
      PROVE  Says(QueryKnowledge(c),
                  learned[CHOOSE i \in Taught(c) : \A j \in Taught(c) : i =< j].definition)
  <2>1. c \in CStrings /\ NULL # "whole"
    BY CoreAssumption
  <2>2. Matches(c) = Taught(c)
    BY <1>3, <2>1, MatchesTaught
  <2>3. Taught(c) \in SUBSET Nat /\ Taught(c) \subseteq 1..Len(learned)
    BY DEF Taught, CoreInv
  <2>4. \E i \in Taught(c) : \A j \in Taught(c) : i =< j
    BY <1>3, <2>3, LeastExists
  <2> DEFINE first == CHOOSE i \in Taught(c) : \A j \in Taught(c) : i =< j
  <2>5. first \in Taught(c)
    BY <2>4
  <2>6. nodes # <<>>
    BY <2>3, <2>5 DEF CoreInv
  <2>7. instance # "absent" /\ knowledge # NULL
    BY <2>1, <2>6 DEF CoreInv
  <2>8. QueryKnowledge(c) = nodes[first].definition
    BY <1>3, <2>2, <2>7 DEF QueryKnowledge
  <2> HIDE DEF first
  <2>9. PICK i \in 1..Len(learned) : i = first
    BY <2>3, <2>5
  <2>10. Holds(nodes[i], learned[i]) /\ learned[i] \in Node
    BY DEF CoreInv
  <2>11. PICK t \in Tails : nodes[i].definition = StoredDef(learned[i].definition, t)
    BY <2>10 DEF Holds
  <2>12. learned[i].definition \in CStrings
    BY <2>10 DEF Node
  <2>13. Says(StoredDef(learned[i].definition, t), learned[i].definition)
    BY <2>12, StoredSays
  <2>14. QED
    BY <2>8, <2>9, <2>11, <2>13 DEF first
<1>4. QED
  BY <1>1, <1>2, <1>3 DEF ShortConceptsFound

-----------------------------------------------------------------------------
(***************************************************************************)
(* The steps of the core.                                                  *)
(***************************************************************************)

\* What the calls of the core and the shell do to it.
CoreStep ==
    \/ UNCHANGED <<instance, knowledge, nodes, learned>>
    \/ CoreInit \/ CoreInitCrash
    \/ \E c, d \in CStrings : \E tail, tail2 \in Tails : Add(c, d, tail, tail2)

\* A node is what it was made of.
LEMMA AddedHolds ==
    ASSUME NEW c \in CStrings, NEW d \in CStrings, NEW t \in Tails, NEW t2 \in Tails
    PROVE  LET node  == [concept |-> Stored(c, t), definition |-> StoredDef(d, t2)]
               entry == [concept |-> c, definition |-> d]
           IN  node \in Node /\ entry \in Node /\ Holds(node, entry)
<1>1. Stored(c, t) \in CStrings /\ StoredDef(d, t2) \in CStrings
  BY StoredType
<1>2. QED
  BY <1>1 DEF Node, Holds

\* The core keeps its invariant.
LEMMA CoreKept ==
    ASSUME CoreInv, CoreStep
    PROVE  CoreInv'
<1>1. CASE UNCHANGED <<instance, knowledge, nodes, learned>>
  BY <1>1 DEF CoreInv, Holds, Stored, StoredDef
<1>2. CASE CoreInit \/ CoreInitCrash
  <2>1. instance = "absent" /\ instance' = "present" /\ nodes = <<>>
        /\ UNCHANGED <<nodes, learned>>
    BY <1>2, CoreAssumption DEF CoreInit, CoreInitCrash, CoreInv
  <2>2. QED
    BY <2>1 DEF CoreInv, Holds, Stored, StoredDef
<1>3. ASSUME NEW c \in CStrings, NEW d \in CStrings, NEW t \in Tails, NEW t2 \in Tails,
             Add(c, d, t, t2)
      PROVE  CoreInv'
  <2>1. PICK node \in Node, entry \in Node :
           /\ Holds(node, entry)
           /\ nodes' = Append(nodes, node) /\ learned' = Append(learned, entry)
    BY <1>3, AddedHolds DEF Add
  <2>2. Len(nodes) < Capacity /\ knowledge = "whole" /\ UNCHANGED <<instance, knowledge>>
    BY <1>3 DEF Add, Room
  <2>3. nodes \in Seq(Node) /\ learned \in Seq(Node) /\ Len(nodes) = Len(learned)
        /\ Capacity \in Nat
    BY CoreAssumption DEF CoreInv
  <2>4. /\ nodes' \in Seq(Node) /\ learned' \in Seq(Node)
        /\ Len(nodes') = Len(nodes) + 1 /\ Len(learned') = Len(nodes) + 1
    BY <2>1, <2>3
  <2>5. ASSUME NEW i \in 1..Len(learned')
        PROVE  Holds(nodes'[i], learned'[i])
    <3>1. CASE i =< Len(nodes)
      <4>1. nodes'[i] = nodes[i] /\ learned'[i] = learned[i] /\ i \in 1..Len(learned)
        BY <2>1, <2>3, <2>4, <3>1
      <4>2. QED
        BY <4>1 DEF CoreInv
    <3>2. CASE i = Len(nodes) + 1
      <4>1. nodes'[i] = node /\ learned'[i] = entry
        BY <2>1, <2>3, <3>2
      <4>2. QED
        BY <2>1, <4>1
    <3>3. QED
      BY <2>3, <2>4, <3>1, <3>2
  <2>6. (\A i \in 1..Len(learned) : Holds(nodes[i], learned[i]))'
    BY <2>5 DEF Holds, Stored, StoredDef
  <2>7. QED
    BY <2>2, <2>3, <2>4, <2>6 DEF CoreInv
<1>4. QED
  BY <1>1, <1>2, <1>3 DEF CoreStep

\* An answer once found is found again.
LEMMA AnswerKept ==
    ASSUME CoreInv, CoreStep, NEW c, QueryKnowledge(c) # NULL
    PROVE  QueryKnowledge(c)' = QueryKnowledge(c)
<1>1. instance = "present" /\ knowledge # NULL /\ Matches(c) # {}
  BY DEF QueryKnowledge, CoreInv
<1>2. CASE UNCHANGED <<instance, knowledge, nodes, learned>>
  BY <1>2 DEF QueryKnowledge, Matches
<1>3. ASSUME NEW x \in CStrings, NEW d \in CStrings, NEW t \in Tails, NEW t2 \in Tails,
             Add(x, d, t, t2)
      PROVE  QueryKnowledge(c)' = QueryKnowledge(c)
  <2>1. PICK node \in Node : nodes' = Append(nodes, node)
    BY <1>3, AddedHolds DEF Add
  <2>2. UNCHANGED <<instance, knowledge>> /\ nodes \in Seq(Node)
    BY <1>3 DEF Add, CoreInv
  <2> DEFINE old == Matches(c)
             new == Matches(c)'
  <2>3. Len(nodes') = Len(nodes) + 1 /\ \A i \in 1..Len(nodes) : nodes'[i] = nodes[i]
    BY <2>1, <2>2
  <2>4. new = {i \in 1..Len(nodes') : Fold(nodes'[i].concept) = Fold(c)}
    BY DEF Matches, Fold
  <2>5. old \subseteq new /\ new \subseteq old \cup {Len(nodes) + 1}
        /\ old \subseteq 1..Len(nodes) /\ Len(nodes) \in Nat
    BY <2>2, <2>3, <2>4 DEF Matches
  <2> HIDE DEF old, new
  <2>6. PICK first \in old : \A j \in old : first =< j
    <3>1. old \in SUBSET Nat /\ old # {}
      BY <1>1, <2>5 DEF old
    <3>2. QED
      BY <3>1, LeastExists
  <2>7. \A j \in new : first =< j
    BY <2>5, <2>6
  <2> old \in SUBSET Nat /\ new \in SUBSET Nat
    BY <2>5
  <2>8. first = CHOOSE i \in old : \A j \in old : i =< j
    BY <2>6, LeastChosen
  <2>9. first = CHOOSE i \in new : \A j \in new : i =< j
    BY <2>5, <2>6, <2>7, LeastChosen
  <2>10. QueryKnowledge(c) = nodes[first].definition
    BY <1>1, <2>8 DEF QueryKnowledge, old
  <2>11. new # {} /\ first \in 1..Len(nodes)
    BY <2>5, <2>6
  <2>12. QueryKnowledge(c)' = nodes'[first].definition
    BY <1>1, <2>2, <2>9, <2>11 DEF QueryKnowledge, new
  <2>13. QED
    BY <2>3, <2>10, <2>11, <2>12
<1>4. QED
  BY <1>1, <1>2, <1>3 DEF CoreStep, CoreInit, CoreInitCrash

\* The arguments joined by strcat are a string.
LEMMA JoinedType ==
    ASSUME NEW args \in Seq(CStrings)
    PROVE  Joined(args) \in CStrings
<1>1. Space \in Characters
  BY ShellAssumption
<1>2. Len(args) \in Nat /\ <<>> \in CStrings /\ <<Space>> \in CStrings
  BY <1>1 DEF CStrings
<1>3. ASSUME NEW n \in 1..Len(args), NEW s \in CStrings
      PROVE  s \o args[n] \o <<Space>> \in CStrings
  <2>1. args[n] \in CStrings
    OBVIOUS
  <2>2. s \o args[n] \in CStrings
    BY <2>1 DEF CStrings
  <2>3. QED
    BY <1>2, <2>2 DEF CStrings
<1> DEFINE k == Len(args)
           F == [n \in 1..k |-> [s \in CStrings |-> s \o args[n] \o <<Space>>]]
           up[n \in 0..k] == IF n = 0 THEN <<>> ELSE up[n - 1] \o args[n] \o <<Space>>
<1>4. F \in [1..k -> [CStrings -> CStrings]]
  BY <1>3
<1>5. PICK f \in [0..k -> CStrings] : Iterates(f, <<>>, F, k)
  BY <1>2, <1>4, RecursionExists
<1>6. f[0] = <<>> /\ \A n \in 1..k : f[n] = F[n][f[n - 1]]
  BY <1>5 DEF Iterates
<1>7. \A n \in 1..k : n - 1 \in 0..k /\ f[n - 1] \in CStrings
  BY <1>2
<1>8. \A n \in 1..k : F[n][f[n - 1]] = f[n - 1] \o args[n] \o <<Space>>
  BY <1>7
<1> HIDE DEF F
<1>9. ASSUME NEW n \in 0..k
      PROVE  f[n] = IF n = 0 THEN <<>> ELSE f[n - 1] \o args[n] \o <<Space>>
  <2>1. CASE n = 0
    BY <1>6, <2>1
  <2>2. CASE n # 0
    <3>1. n \in 1..k
      BY <1>2, <2>2
    <3>2. QED
      BY <1>6, <1>8, <2>2, <3>1
  <2>3. QED
    BY <2>1, <2>2
<1>10. f = [n \in 0..k |-> IF n = 0 THEN <<>> ELSE f[n - 1] \o args[n] \o <<Space>>]
  BY <1>9
<1>11. up = [n \in 0..k |-> IF n = 0 THEN <<>> ELSE up[n - 1] \o args[n] \o <<Space>>]
  BY <1>10, Zenon
<1>12. Joined(args) = up[k]
  BY DEF Joined
<1> HIDE DEF up
<1>13. up[0] = <<>> /\ \A n \in 1..k : up[n] = up[n - 1] \o args[n] \o <<Space>>
  <2>1. \A n \in 0..k : up[n] = IF n = 0 THEN <<>> ELSE up[n - 1] \o args[n] \o <<Space>>
    BY <1>11
  <2>2. up[0] = <<>>
    BY <1>2, <2>1
  <2>3. \A n \in 1..k : n \in 0..k /\ n # 0
    BY <1>2
  <2>4. QED
    BY <2>1, <2>2, <2>3, Zenon
<1> DEFINE typed == {n \in Nat : n =< k => up[n] \in CStrings}
<1>14. 0 \in typed
  BY <1>2, <1>13
<1>15. ASSUME NEW n \in typed
       PROVE  n + 1 \in typed
  <2>1. CASE n + 1 =< k
    <3>1. n \in Nat /\ n + 1 \in 1..k /\ (n + 1) - 1 = n /\ up[n] \in CStrings
      BY <1>2, <2>1
    <3>2. up[n + 1] = up[n] \o args[n + 1] \o <<Space>>
      BY <1>13, <3>1
    <3>3. up[n + 1] \in CStrings
      BY <1>3, <3>1, <3>2
    <3>4. QED
      BY <3>1, <3>3
  <2>2. QED
    BY <2>1
<1> HIDE DEF typed
<1>16. typed \in SUBSET Nat
  BY DEF typed
<1>17. \A n \in Nat : n \in typed
  BY <1>14, <1>15, <1>16, Induction
<1>18. up[k] \in CStrings
  BY <1>2, <1>17 DEF typed
<1>19. QED
  BY <1>12, <1>18

-----------------------------------------------------------------------------
(***************************************************************************)
(* Scripts: what holds of the calls of a handler whoever runs it.          *)
(***************************************************************************)
Colours == {"grey", "cyan", "green", "blue"}

CallT ==
    [call : {"colour"}, colour : Colours]
    \cup [call : {"print"}, voice : {"plain", "title", "jarvis"}]
    \cup [call : {"clear", "home"}]
    \cup [call : {"ask"}, query : CStrings]
    \cup [call : {"answer"}, words : Seq(CStrings)]
    \cup [call : {"learn"}, topic : CStrings, content : CStrings]

After(x, c) == IF x.call = "colour" THEN x.colour ELSE c

\* A colour that the call may be made in; learning may end the command.
Suits(x, c) ==
    /\ x.call = "print" => c \in Palette[x.voice]
    /\ x.call = "answer" => c \in Palette.jarvis
    /\ x.call \in {"clear", "learn"} => c = "grey"

\* The calls of s suit the colours they are made in from c on, and end in grey.
Coloured(c, s) ==
    \E seen \in [1..(Len(s) + 1) -> Colours] :
        /\ seen[1] = c /\ seen[Len(s) + 1] = "grey"
        /\ \A k \in 1..Len(s) : Suits(s[k], seen[k]) /\ seen[k + 1] = After(s[k], seen[k])

\* Answers come after a question.
Asked(s) ==
    \A k \in 1..Len(s) : s[k].call = "answer" => \E j \in 1..(k - 1) : s[j].call = "ask"

Good(s) == s \in Seq(CallT) /\ Coloured("grey", s) /\ Asked(s)

\* One call less to make.
LEMMA ColouredTail ==
    ASSUME NEW c, NEW s \in Seq(CallT), s # <<>>, Coloured(c, s)
    PROVE  Suits(Head(s), c) /\ Coloured(After(Head(s), c), Tail(s))
<1>1. PICK seen \in [1..(Len(s) + 1) -> Colours] :
         /\ seen[1] = c /\ seen[Len(s) + 1] = "grey"
         /\ \A k \in 1..Len(s) : Suits(s[k], seen[k]) /\ seen[k + 1] = After(s[k], seen[k])
  BY DEF Coloured
<1>2. /\ Len(s) \in Nat /\ 1 \in 1..Len(s) /\ Head(s) = s[1]
      /\ Len(Tail(s)) = Len(s) - 1 /\ \A k \in 1..(Len(s) - 1) : Tail(s)[k] = s[k + 1]
  OBVIOUS
<1>3. Suits(Head(s), c) /\ seen[2] = After(Head(s), c)
  BY <1>1, <1>2
<1> DEFINE later == [k \in 1..Len(s) |-> seen[k + 1]]
<1>4. later \in [1..Len(s) -> Colours]
  BY <1>2
<1>5. later[1] = After(Head(s), c) /\ later[Len(s)] = "grey"
  BY <1>1, <1>2, <1>3
<1>6. ASSUME NEW k \in 1..(Len(s) - 1)
      PROVE  Suits(Tail(s)[k], later[k]) /\ later[k + 1] = After(Tail(s)[k], later[k])
  <2>1. k + 1 \in 1..Len(s) /\ k \in 1..Len(s) /\ Tail(s)[k] = s[k + 1]
    BY <1>2
  <2>2. later[k] = seen[k + 1] /\ later[k + 1] = seen[(k + 1) + 1]
    BY <2>1
  <2>3. QED
    BY <1>1, <2>1, <2>2
<1> HIDE DEF later
<1>7. (Len(s) - 1) + 1 = Len(s)
  BY <1>2
<1>8. Coloured(After(Head(s), c), Tail(s))
  BY <1>2, <1>4, <1>5, <1>6, <1>7 DEF Coloured
<1>9. QED
  BY <1>3, <1>8

\* One call more.
LEMMA ColouredCons ==
    ASSUME NEW c \in Colours, NEW x \in CallT, NEW s \in Seq(CallT),
           Suits(x, c), Coloured(After(x, c), s)
    PROVE  Coloured(c, <<x>> \o s)
<1>1. PICK seen \in [1..(Len(s) + 1) -> Colours] :
         /\ seen[1] = After(x, c) /\ seen[Len(s) + 1] = "grey"
         /\ \A k \in 1..Len(s) : Suits(s[k], seen[k]) /\ seen[k + 1] = After(s[k], seen[k])
  BY DEF Coloured
<1> DEFINE t == <<x>> \o s
<1>2. /\ Len(s) \in Nat /\ Len(t) = Len(s) + 1
      /\ t[1] = x /\ \A k \in 1..Len(s) : t[k + 1] = s[k]
  OBVIOUS
<1> HIDE DEF t
<1> DEFINE all == [k \in 1..(Len(s) + 2) |-> IF k = 1 THEN c ELSE seen[k - 1]]
<1>3. all \in [1..(Len(t) + 1) -> Colours]
  BY <1>2
<1>4. all[1] = c /\ \A k \in 1..(Len(s) + 1) : all[k + 1] = seen[k]
  BY <1>2
<1> HIDE DEF all
<1>5. ASSUME NEW k \in 1..Len(t)
      PROVE  Suits(t[k], all[k]) /\ all[k + 1] = After(t[k], all[k])
  <2>1. CASE k = 1
    BY <1>1, <1>2, <1>4, <2>1
  <2>2. CASE k # 1
    <3>1. PICK j \in 1..Len(s) : k = j + 1
      BY <1>2, <2>2
    <3>2. j \in 1..(Len(s) + 1) /\ j + 1 \in 1..(Len(s) + 1)
      BY <1>2
    <3>3. t[k] = s[j] /\ all[k] = seen[j] /\ all[k + 1] = seen[j + 1]
      BY <1>2, <1>4, <3>1, <3>2
    <3>4. QED
      BY <1>1, <3>3
  <2>3. QED
    BY <2>1, <2>2
<1>6. all[Len(t) + 1] = "grey"
  BY <1>1, <1>2, <1>4
<1>7. Coloured(c, t)
  BY <1>3, <1>4, <1>5, <1>6 DEF Coloured
<1>8. QED
  BY <1>7 DEF t

\* One script after the other.
LEMMA ColouredConcat ==
    ASSUME NEW c, NEW s \in Seq(CallT), NEW t \in Seq(CallT),
           Coloured(c, s), Coloured("grey", t)
    PROVE  Coloured(c, s \o t)
<1>1. PICK seen \in [1..(Len(s) + 1) -> Colours] :
         /\ seen[1] = c /\ seen[Len(s) + 1] = "grey"
         /\ \A k \in 1..Len(s) : Suits(s[k], seen[k]) /\ seen[k + 1] = After(s[k], seen[k])
  BY DEF Coloured
<1>2. PICK next \in [1..(Len(t) + 1) -> Colours] :
         /\ next[1] = "grey" /\ next[Len(t) + 1] = "grey"
         /\ \A k \in 1..Len(t) : Suits(t[k], next[k]) /\ next[k + 1] = After(t[k], next[k])
  BY DEF Coloured
<1> DEFINE u == s \o t
<1>3. /\ Len(s) \in Nat /\ Len(t) \in Nat /\ Len(u) = Len(s) + Len(t)
      /\ \A k \in 1..Len(s) : u[k] = s[k]
      /\ \A k \in 1..Len(t) : u[Len(s) + k] = t[k]
  OBVIOUS
<1> HIDE DEF u
<1> DEFINE all == [k \in 1..(Len(u) + 1) |->
                    IF k =< Len(s) THEN seen[k] ELSE next[k - Len(s)]]
<1>4. all \in [1..(Len(u) + 1) -> Colours]
  BY <1>3
<1>5. /\ \A k \in 1..(Len(s) + 1) : all[k] = seen[k]
      /\ \A k \in 1..(Len(t) + 1) : all[Len(s) + k] = next[k]
  <2>1. \A k \in 1..Len(s) : all[k] = seen[k]
    BY <1>3
  <2>2. ASSUME NEW k \in 1..(Len(t) + 1)
        PROVE  all[Len(s) + k] = next[k]
    <3>1. Len(s) + k \in 1..(Len(u) + 1) /\ ~(Len(s) + k =< Len(s)) /\ (Len(s) + k) - Len(s) = k
      BY <1>3
    <3>2. QED
      BY <3>1
  <2>3. all[Len(s) + 1] = next[1]
    BY <1>3, <2>2
  <2> HIDE DEF all
  <2>4. \A k \in 1..(Len(s) + 1) : k \in 1..Len(s) \/ k = Len(s) + 1
    BY <1>3
  <2>5. QED
    BY <1>1, <1>2, <2>1, <2>2, <2>3, <2>4
<1> HIDE DEF all
<1>6. ASSUME NEW k \in 1..Len(u)
      PROVE  Suits(u[k], all[k]) /\ all[k + 1] = After(u[k], all[k])
  <2>1. CASE k =< Len(s)
    <3>1. k \in 1..Len(s) /\ k \in 1..(Len(s) + 1) /\ k + 1 \in 1..(Len(s) + 1)
      BY <1>3, <2>1
    <3>2. QED
      BY <1>1, <1>3, <1>5, <3>1
  <2>2. CASE ~(k =< Len(s))
    <3>1. PICK j \in 1..Len(t) : k = Len(s) + j
      <4>1. k - Len(s) \in 1..Len(t) /\ k = Len(s) + (k - Len(s))
        BY <1>3, <2>2
      <4>2. QED
        BY <4>1
    <3>2. j \in 1..(Len(t) + 1) /\ j + 1 \in 1..(Len(t) + 1) /\ k + 1 = Len(s) + (j + 1)
      BY <1>3, <3>1
    <3>3. u[k] = t[j] /\ all[k] = next[j] /\ all[k + 1] = next[j + 1]
      BY <1>3, <1>5, <3>1, <3>2
    <3>4. QED
      BY <1>2, <3>3
  <2>3. QED
    BY <2>1, <2>2
<1>7. all[1] = c /\ all[Len(u) + 1] = "grey"
  <2>1. 1 \in 1..(Len(s) + 1) /\ Len(t) + 1 \in 1..(Len(t) + 1)
        /\ Len(u) + 1 = Len(s) + (Len(t) + 1)
    BY <1>3
  <2>2. QED
    BY <1>1, <1>2, <1>5, <2>1
<1>8. Coloured(c, u)
  BY <1>4, <1>6, <1>7 DEF Coloured
<1>9. QED
  BY <1>8 DEF u

\* Questions stay in front of their answers.
LEMMA AskedConcat ==
    ASSUME NEW s \in Seq(CallT), NEW t \in Seq(CallT), Asked(s), Asked(t)
    PROVE  Asked(s \o t)
<1> DEFINE u == s \o t
<1>1. /\ Len(s) \in Nat /\ Len(t) \in Nat /\ Len(u) = Len(s) + Len(t)
      /\ \A k \in 1..Len(s) : u[k] = s[k]
      /\ \A k \in 1..Len(t) : u[Len(s) + k] = t[k]
  OBVIOUS
<1> HIDE DEF u
<1>2. ASSUME NEW k \in 1..Len(u), u[k].call = "answer"
      PROVE  \E j \in 1..(k - 1) : u[j].call = "ask"
  <2>1. CASE k =< Len(s)
    <3>1. k \in 1..Len(s) /\ s[k].call = "answer"
      BY <1>1, <1>2, <2>1
    <3>2. PICK j \in 1..(k - 1) : s[j].call = "ask"
      BY <3>1 DEF Asked
    <3>3. j \in 1..Len(s)
      BY <1>1, <3>1
    <3>4. QED
      BY <1>1, <3>2, <3>3
  <2>2. CASE ~(k =< Len(s))
    <3>1. PICK i \in 1..Len(t) : k = Len(s) + i
      <4>1. k - Len(s) \in 1..Len(t) /\ k = Len(s) + (k - Len(s))
        BY <1>1, <2>2
      <4>2. QED
        BY <4>1
    <3>2. t[i].call = "answer"
      BY <1>1, <1>2, <3>1
    <3>3. PICK j \in 1..(i - 1) : t[j].call = "ask"
      BY <3>2 DEF Asked
    <3>4. j \in 1..Len(t) /\ Len(s) + j \in 1..(k - 1)
      BY <1>1, <3>1
    <3>5. QED
      BY <1>1, <3>3, <3>4
  <2>3. QED
    BY <2>1, <2>2
<1>3. QED
  BY <1>2 DEF Asked, u

\* A call that is no question leaves the others where they are.
LEMMA AskedTail ==
    ASSUME NEW s \in Seq(CallT), s # <<>>, Asked(s), Head(s).call # "ask"
    PROVE  Head(s).call # "answer" /\ Asked(Tail(s))
<1>1. /\ Len(s) \in Nat /\ 1 \in 1..Len(s) /\ Head(s) = s[1]
      /\ Len(Tail(s)) = Len(s) - 1 /\ \A k \in 1..(Len(s) - 1) : Tail(s)[k] = s[k + 1]
  OBVIOUS
<1>2. Head(s).call # "answer"
  BY <1>1 DEF Asked
<1>3. ASSUME NEW k \in 1..(Len(s) - 1), Tail(s)[k].call = "answer"
      PROVE  \E j \in 1..(k - 1) : Tail(s)[j].call = "ask"
  <2>1. k + 1 \in 1..Len(s) /\ s[k + 1].call = "answer"
    BY <1>1, <1>3
  <2>2. PICK j \in 1..((k + 1) - 1) : s[j].call = "ask"
    BY <2>1 DEF Asked
  <2>3. j # 1 /\ j - 1 \in 1..(k - 1) /\ j - 1 \in 1..(Len(s) - 1) /\ (j - 1) + 1 = j
    BY <1>1, <2>2
  <2>4. QED
    BY <1>1, <2>2, <2>3
<1>4. QED
  BY <1>1, <1>2, <1>3 DEF Asked

\* The calls are calls.
LEMMA CallTypes ==
    /\ \A c \in Colours : Colour(c) \in CallT /\ Colour(c).call = "colour" /\ Colour(c).colour = c
    /\ \A v \in {"plain", "title", "jarvis"} :
          Say(v) \in CallT /\ Say(v).call = "print" /\ Say(v).voice = v
    /\ Clear \in CallT /\ Clear.call = "clear"
    /\ GoHome \in CallT /\ GoHome.call = "home"
    /\ \A q \in CStrings : Ask(q) \in CallT /\ Ask(q).call = "ask"
    /\ \A w \in Seq(CStrings) : Answer(w) \in CallT /\ Answer(w).call = "answer"
    /\ \A t, d \in CStrings : Learn(t, d) \in CallT /\ Learn(t, d).call = "learn"
<1>1. /\ \A c \in Colours : Colour(c) \in CallT /\ Colour(c).call = "colour" /\ Colour(c).colour = c
      /\ \A v \in {"plain", "title", "jarvis"} :
            Say(v) \in CallT /\ Say(v).call = "print" /\ Say(v).voice = v
  BY DEF Colour, Say, CallT
<1>2. Clear \in CallT /\ Clear.call = "clear" /\ GoHome \in CallT /\ GoHome.call = "home"
  BY DEF Clear, GoHome, CallT
<1>3. \A q \in CStrings : Ask(q) \in CallT /\ Ask(q).call = "ask"
  BY DEF Ask, CallT
<1>4. \A w \in Seq(CStrings) : Answer(w) \in CallT /\ Answer(w).call = "answer"
  BY DEF Answer, CallT
<1>5. \A t, d \in CStrings : Learn(t, d) \in CallT /\ Learn(t, d).call = "learn"
  BY DEF Learn, CallT
<1>6. QED
  BY <1>1, <1>2, <1>3, <1>4, <1>5

\* How short scripts are put together.
LEMMA Tuples ==
    ASSUME NEW x \in CallT, NEW y \in CallT, NEW z \in CallT
    PROVE  /\ <<x>> \in Seq(CallT) /\ <<x>> \o <<>> = <<x>>
           /\ <<x, y>> \in Seq(CallT) /\ <<x>> \o <<y>> = <<x, y>>
           /\ <<x, y, z>> \in Seq(CallT) /\ <<x>> \o <<y, z>> = <<x, y, z>>
<1>1. <<x>> \in Seq(CallT) /\ <<x>> \o <<>> = <<x>>
  <2> DEFINE s == <<x>> \o <<>>
             t == <<x>>
  <2>1. s \in Seq(CallT) /\ Len(s) = 1 /\ s[1] = x
    OBVIOUS
  <2>2. t \in Seq(CallT) /\ Len(t) = 1 /\ t[1] = x
    OBVIOUS
  <2> HIDE DEF s, t
  <2>3. s = t
    BY <2>1, <2>2, SeqEqual
  <2>4. QED
    BY <2>2, <2>3 DEF s, t
<1>2. <<x, y>> \in Seq(CallT) /\ <<x>> \o <<y>> = <<x, y>>
  <2> DEFINE s == <<x>> \o <<y>>
             t == <<x, y>>
  <2>1. s \in Seq(CallT) /\ Len(s) = 2 /\ s[1] = x /\ s[2] = y
    OBVIOUS
  <2>2. t \in Seq(CallT) /\ Len(t) = 2 /\ t[1] = x /\ t[2] = y
    OBVIOUS
  <2> HIDE DEF s, t
  <2>3. s = t
    BY <2>1, <2>2, SeqEqual
  <2>4. QED
    BY <2>2, <2>3 DEF s, t
<1>3. <<x, y, z>> \in Seq(CallT) /\ <<x>> \o <<y, z>> = <<x, y, z>>
  <2> DEFINE s == <<x>> \o <<y, z>>
             t == <<x, y, z>>
  <2>1. s \in Seq(CallT) /\ Len(s) = 3 /\ s[1] = x /\ s[2] = y /\ s[3] = z
    OBVIOUS
  <2>2. t \in Seq(CallT) /\ Len(t) = 3 /\ t[1] = x /\ t[2] = y /\ t[3] = z
    OBVIOUS
  <2> HIDE DEF s, t
  <2>3. s = t
    BY <2>1, <2>2, SeqEqual
  <2>4. QED
    BY <2>2, <2>3 DEF s, t
<1>4. QED
  BY <1>1, <1>2, <1>3

\* The same for four calls.
LEMMA FourTuple ==
    ASSUME NEW x \in CallT, NEW y \in CallT, NEW z \in CallT, NEW v \in CallT
    PROVE  <<x, y, z, v>> \in Seq(CallT) /\ <<x>> \o <<y, z, v>> = <<x, y, z, v>>
<1> DEFINE s == <<x>> \o <<y, z, v>>
           t == <<x, y, z, v>>
<1>1. s \in Seq(CallT) /\ Len(s) = 4 /\ s[1] = x /\ s[2] = y /\ s[3] = z /\ s[4] = v
  OBVIOUS
<1>2. t \in Seq(CallT) /\ Len(t) = 4 /\ t[1] = x /\ t[2] = y /\ t[3] = z /\ t[4] = v
  OBVIOUS
<1> HIDE DEF s, t
<1>3. s = t
  BY <1>1, <1>2, SeqEqual
<1>4. QED
  BY <1>2, <1>3 DEF s, t

\* A command that does nothing.
LEMMA GoodEmpty == Good(<<>>)
<1> DEFINE seen == [k \in 1..1 |-> "grey"]
<1>1. seen \in [1..1 -> Colours] /\ seen[1] = "grey"
  BY DEF Colours
<1> HIDE DEF seen
<1>2. <<>> \in Seq(CallT) /\ Len(<<>>) = 0
  OBVIOUS
<1>3. Coloured("grey", <<>>)
  BY <1>1, <1>2 DEF Coloured
<1>4. Asked(<<>>)
  BY DEF Asked
<1>5. QED
  BY <1>2, <1>3, <1>4 DEF Good

\* One command after the other.
LEMMA GoodConcat ==
    ASSUME NEW s, NEW t, Good(s), Good(t)
    PROVE  Good(s \o t)
<1>1. s \in Seq(CallT) /\ t \in Seq(CallT)
  BY DEF Good
<1>2. s \o t \in Seq(CallT)
  BY <1>1
<1>3. QED
  BY <1>1, <1>2, ColouredConcat, AskedConcat DEF Good

\* A call that suits grey and changes no colour.
LEMMA GoodSingle ==
    ASSUME NEW x \in CallT, Suits(x, "grey"), x.call # "colour"
    PROVE  Coloured("grey", <<x>>) /\ <<x>> \in Seq(CallT) /\ (x.call # "answer" => Good(<<x>>))
<1>1. Coloured("grey", <<>>) /\ <<>> \in Seq(CallT) /\ "grey" \in Colours
  BY GoodEmpty DEF Good, Colours
<1>2. Coloured("grey", <<x>> \o <<>>)
  BY <1>1, ColouredCons DEF After
<1>3. <<x>> \o <<>> = <<x>> /\ <<x>> \in Seq(CallT)
  OBVIOUS
<1>4. x.call # "answer" => Asked(<<x>>)
  BY DEF Asked
<1>5. QED
  BY <1>2, <1>3, <1>4 DEF Good

\* A call in a colour of its own, with the colour reset behind it.
LEMMA GoodBox ==
    ASSUME NEW c \in Colours, NEW x \in CallT, Suits(x, c), x.call # "colour"
    PROVE  LET s == <<Colour(c), x, ResetColor>>
           IN  s \in Seq(CallT) /\ Coloured("grey", s) /\ (x.call # "answer" => Good(s))
<1> DEFINE a == Colour(c)
           b == Colour("grey")
<1>1. /\ a \in CallT /\ a.call = "colour" /\ a.colour = c
      /\ b \in CallT /\ b.call = "colour" /\ b.colour = "grey" /\ "grey" \in Colours
  BY CallTypes DEF Colours
<1> HIDE DEF a, b
<1>2. After(a, "grey") = c /\ After(x, c) = c /\ After(b, c) = "grey"
  BY <1>1 DEF After
<1>3. Suits(a, "grey") /\ Suits(b, c)
  BY <1>1 DEF Suits
<1>4. Coloured("grey", <<>>) /\ <<>> \in Seq(CallT)
  BY GoodEmpty DEF Good
<1>5. Coloured(c, <<b>>) /\ <<b>> \in Seq(CallT)
  <2>1. Coloured(c, <<b>> \o <<>>)
    BY <1>1, <1>2, <1>3, <1>4, ColouredCons
  <2>2. QED
    BY <1>1, <2>1, Tuples
<1>6. Coloured(c, <<x, b>>) /\ <<x, b>> \in Seq(CallT)
  <2>1. Coloured(c, <<x>> \o <<b>>)
    BY <1>1, <1>2, <1>5, ColouredCons
  <2>2. QED
    BY <1>1, <2>1, Tuples
<1>7. Coloured("grey", <<a, x, b>>) /\ <<a, x, b>> \in Seq(CallT)
  <2>1. Coloured("grey", <<a>> \o <<x, b>>)
    BY <1>1, <1>2, <1>3, <1>6, ColouredCons
  <2>2. QED
    BY <1>1, <2>1, Tuples
<1>8. x.call # "answer" => Asked(<<a, x, b>>)
  BY <1>1 DEF Asked
<1>9. QED
  BY <1>7, <1>8 DEF Good, a, b, ResetColor

\* The pieces that handlers are made of.
LEMMA GoodPieces ==
    /\ Good(Plain) /\ Good(<<Clear>>) /\ Good(<<GoHome>>)
    /\ \A c \in {"cyan", "green"} : Good(Titled(c))
    /\ Good(Spoken) /\ Good(<<AiThinking, Say("jarvis"), ResetColor>>)
    /\ \A t, d \in CStrings : Good(<<Learn(t, d)>>)
<1>1. Good(Plain)
  BY CallTypes, GoodSingle DEF Suits, Palette, Plain
<1>2. Good(<<Clear>>) /\ Good(<<GoHome>>)
  BY CallTypes, GoodSingle DEF Suits
<1>3. ASSUME NEW c \in {"cyan", "green"}
      PROVE  Good(Titled(c))
  <2>1. c \in Colours /\ Say("title") \in CallT /\ Say("title").call = "print"
        /\ Suits(Say("title"), c)
    BY CallTypes DEF Suits, Palette, Colours
  <2>2. QED
    BY <2>1, GoodBox DEF Titled
<1>4. /\ "green" \in Colours /\ "blue" \in Colours
      /\ Say("jarvis") \in CallT /\ Say("jarvis").call = "print"
      /\ Suits(Say("jarvis"), "green") /\ Suits(Say("jarvis"), "blue")
  BY CallTypes DEF Suits, Palette, Colours
<1>5. Good(Spoken)
  BY <1>4, GoodBox DEF Spoken, AiOutput
<1>6. Good(<<AiThinking, Say("jarvis"), ResetColor>>)
  BY <1>4, GoodBox DEF AiThinking
<1>7. ASSUME NEW t \in CStrings, NEW d \in CStrings
      PROVE  Good(<<Learn(t, d)>>)
  BY CallTypes, GoodSingle DEF Suits
<1>8. QED
  BY <1>1, <1>2, <1>3, <1>5, <1>6, <1>7

\* A question to the core and its answer.
LEMMA GoodQuestion ==
    ASSUME NEW q \in CStrings, NEW w \in Seq(CStrings)
    PROVE  Good(<<Ask(q), AiOutput, Answer(w), ResetColor>>)
<1> DEFINE s == <<AiOutput, Answer(w), ResetColor>>
<1>1. /\ Answer(w) \in CallT /\ Answer(w).call = "answer" /\ Suits(Answer(w), "green")
      /\ "green" \in Colours /\ "grey" \in Colours
  BY CallTypes DEF Suits, Palette, Colours
<1>2. s \in Seq(CallT) /\ Coloured("grey", s)
  BY <1>1, GoodBox DEF AiOutput
<1>3. /\ Ask(q) \in CallT /\ Ask(q).call = "ask" /\ Suits(Ask(q), "grey")
      /\ After(Ask(q), "grey") = "grey"
  BY CallTypes DEF Suits, After
<1>4. AiOutput \in CallT /\ AiOutput.call = "colour" /\ ResetColor \in CallT
  BY <1>1, CallTypes DEF AiOutput, ResetColor
<1>5. /\ Coloured("grey", <<Ask(q), AiOutput, Answer(w), ResetColor>>)
      /\ <<Ask(q), AiOutput, Answer(w), ResetColor>> \in Seq(CallT)
  <2>1. Coloured("grey", <<Ask(q)>> \o s)
    <3> HIDE DEF s
    <3>1. QED
      BY <1>1, <1>2, <1>3, ColouredCons
  <2>2. PICK a \in CallT, b \in CallT, d \in CallT, e \in CallT :
           a = Ask(q) /\ b = AiOutput /\ d = Answer(w) /\ e = ResetColor
    BY <1>1, <1>3, <1>4
  <2>3. <<a>> \o <<b, d, e>> = <<a, b, d, e>> /\ <<a, b, d, e>> \in Seq(CallT)
    BY FourTuple, ZenonT(40)
  <2>4. QED
    BY <2>1, <2>2, <2>3, Zenon
<1>6. Asked(<<Ask(q), AiOutput, Answer(w), ResetColor>>)
  BY <1>3, <1>4 DEF Asked
<1>7. QED
  BY <1>5, <1>6 DEF Good

\* Arguments are strings.
LEMMA ArgsType ==
    ASSUME NEW args \in ArgLists
    PROVE  args \in Seq(CStrings)
<1>1. PICK n \in 0..(MaxArgs - 1) : args \in [1..n -> Words]
  BY DEF ArgLists
<1>2. n \in Nat
  <2>1. MaxArgs \in Nat
    BY ParserAssumption
  <2>2. QED
    BY <2>1
<1>3. Words \subseteq CStrings
  BY ShellAssumption
<1>4. QED
  BY <1>1, <1>2, <1>3

\* The commands that print in grey only.
PlainHandlers(args) ==
    {CmdEcho, CmdLs, CmdPwd, CmdCat(args), CmdMkdir(args), CmdRm(args), CmdCp(args),
     CmdMv(args), CmdPs, CmdKill(args), CmdMeminfo, CmdCpuinfo, CmdDiskinfo, CmdNetinfo,
     CmdPing(args), CmdIfconfig, CmdDate, CmdUptime, CmdReboot, CmdShutdown,
     CmdEdit(args), CmdCompile(args), CmdDebug}

\* The other commands.
OtherHandlers(args) ==
    {CmdHelp, CmdClear, CmdCd(args), CmdJarvis(args), CmdLearn(args), CmdThink, CmdEvolve,
     CmdSearch(args), CmdStatus, CmdVersion}

\* The table has these handlers and no others.
LEMMA TableType ==
    ASSUME NEW args \in ArgLists, NEW name \in Names
    PROVE  Builtin(name, args) \in PlainHandlers(args) \cup OtherHandlers(args)
BY DEF Builtin, Names, PlainHandlers, OtherHandlers

\* The plain handlers are plain.
LEMMA PlainGood ==
    ASSUME NEW args
    PROVE  \A s \in PlainHandlers(args) : Good(s)
<1>1. \A s \in PlainHandlers(args) : s = Plain
  BY DEF PlainHandlers, Needs, CmdEcho, CmdLs, CmdPwd, CmdCat, CmdMkdir, CmdRm, CmdCp, CmdMv,
         CmdPs, CmdKill, CmdMeminfo, CmdCpuinfo, CmdDiskinfo, CmdNetinfo, CmdPing,
         CmdIfconfig, CmdDate, CmdUptime, CmdReboot, CmdShutdown, CmdEdit, CmdCompile, CmdDebug
<1>2. QED
  BY <1>1, GoodPieces

\* cmd_jarvis.
LEMMA JarvisGood ==
    ASSUME NEW args \in Seq(CStrings)
    PROVE  Good(CmdJarvis(args))
<1>1. CASE args = <<>>
  BY <1>1, GoodPieces DEF CmdJarvis
<1>2. CASE args # <<>>
  <2>1. Joined(args) \in CStrings
    BY JoinedType
  <2>2. Good(<<Ask(Joined(args)), AiOutput, Answer(args), ResetColor>>)
    BY <2>1, GoodQuestion
  <2>3. QED
    BY <1>2, <2>2 DEF CmdJarvis
<1>3. QED
  BY <1>1, <1>2

\* cmd_learn.
LEMMA LearnGood ==
    ASSUME NEW args \in Seq(CStrings)
    PROVE  Good(CmdLearn(args))
<1>1. CASE Len(args) < 2
  BY <1>1, GoodPieces DEF CmdLearn, Needs
<1>2. CASE ~(Len(args) < 2)
  <2>1. args[1] \in CStrings /\ Tail(args) \in Seq(CStrings)
    BY <1>2
  <2>2. Joined(Tail(args)) \in CStrings
    BY <2>1, JoinedType
  <2>3. Good(<<Learn(args[1], Joined(Tail(args)))>>) /\ Good(Spoken)
    BY <2>1, <2>2, GoodPieces
  <2>4. Good(<<Learn(args[1], Joined(Tail(args)))>> \o Spoken)
    BY <2>3, GoodConcat
  <2>5. QED
    BY <1>2, <2>4 DEF CmdLearn, Needs
<1>3. QED
  BY <1>1, <1>2

\* The other handlers.
LEMMA OtherGood ==
    ASSUME NEW args \in ArgLists
    PROVE  \A s \in OtherHandlers(args) : Good(s)
<1>1. Good(CmdJarvis(args)) /\ Good(CmdLearn(args))
  BY ArgsType, JarvisGood, LearnGood
<1>2. Good(CmdClear) /\ Good(CmdCd(args)) /\ Good(CmdEvolve) /\ Good(CmdSearch(args))
  BY GoodPieces DEF CmdClear, CmdCd, CmdEvolve, CmdSearch, Needs
<1>3. Good(CmdThink)
  BY GoodPieces, GoodConcat DEF CmdThink
<1>4. Good(Plain \o Titled("cyan") \o Plain)
  <2>1. Good(Plain) /\ Good(Titled("cyan"))
    BY GoodPieces
  <2>2. Good(Plain \o Titled("cyan"))
    BY <2>1, GoodConcat
  <2>3. QED
    BY <2>1, <2>2, GoodConcat
<1>5. Good(CmdHelp) /\ Good(CmdVersion)
  BY <1>4 DEF CmdHelp, CmdVersion
<1>6. Good(CmdStatus)
  <2>1. Good(Titled("green"))
    BY GoodPieces
  <2>2. QED
    BY <1>4, <2>1, GoodConcat DEF CmdStatus
<1>7. QED
  BY <1>1, <1>2, <1>3, <1>5, <1>6 DEF OtherHandlers

\* The answer to a name that is no command.
LEMMA NotFoundGood ==
    ASSUME NEW name \in Words
    PROVE  Good(NotFound(name))
<1>1. name \in CStrings /\ Space \in Characters /\ "What is the command:" \in Characters
  BY ShellAssumption
<1>2. WhatIs \in CStrings
  <2>1. \A x, y \in Characters : <<x, y>> \in CStrings
    BY DEF CStrings
  <2>2. QED
    BY <1>1, <2>1 DEF WhatIs
<1>3. WhatIs \o name \in CStrings
  <2>1. \A s, t \in CStrings : s \o t \in CStrings
    BY DEF CStrings
  <2>2. QED
    BY <1>1, <1>2, <2>1
<1>4. <<WhatIs \o name>> \in Seq(CStrings)
  BY <1>3
<1>5. QED
  BY <1>3, <1>4, GoodQuestion, GoodPieces, GoodConcat DEF NotFound

\* Whatever line is entered.
LEMMA ScriptsGood ==
    ASSUME NEW script \in Scripts
    PROVE  Good(script)
<1>1. ASSUME NEW name \in Names, NEW args \in ArgLists
      PROVE  Good(Builtin(name, args))
  BY TableType, PlainGood, OtherGood
<1>2. QED
  BY <1>1, NotFoundGood, GoodEmpty DEF Scripts

-----------------------------------------------------------------------------
(***************************************************************************)
(* The inductive invariant: what the command still has to do suits the     *)
(* colour the console has now, and a response to be printed has been       *)
(* written, or its question is still to be asked, or nobody can write it.  *)
(***************************************************************************)
ShellInv ==
    /\ color \in Colours /\ todo \in Seq(CallT) /\ Coloured(color, todo)
    /\ Asked(todo) \/ response # NULL \/ instance = "absent"
    /\ instance = "absent" => response = NULL

IInv == CoreInv /\ ShellInv

\* A script starts in grey.
LEMMA StartGood ==
    ASSUME NEW script, Good(script)
    PROVE  Good(Prompt \o script)
<1>1. Good(Prompt)
  BY GoodPieces DEF Prompt
<1>2. QED
  BY <1>1, GoodConcat

\* The invariant holds at the start.
LEMMA InitInv ==
    ASSUME Init
    PROVE  IInv
<1>1. CoreInv
  <2>1. Capacity \in Nat
    BY CoreAssumption
  <2>2. QED
    BY <2>1 DEF Init, CoreStart, CoreInv
<1>2. Good(ShellInit)
  <2>1. Good(Plain) /\ Good(Titled("cyan"))
    BY GoodPieces
  <2>2. Good(Plain \o Titled("cyan"))
    BY <2>1, GoodConcat
  <2>3. QED
    BY <2>1, <2>2, GoodConcat DEF ShellInit
<1>3. ShellInv
  BY <1>2 DEF Init, CoreStart, ShellInv, Good, Colours
<1>4. QED
  BY <1>1, <1>3 DEF IInv

\* The next call: it suits the colour, and the rest suits the colour behind it.
LEMMA NextCall ==
    ASSUME ShellInv, todo # <<>>
    PROVE  /\ Head(todo) \in CallT /\ Tail(todo) \in Seq(CallT)
           /\ Suits(Head(todo), color) /\ After(Head(todo), color) \in Colours
           /\ Coloured(After(Head(todo), color), Tail(todo))
           /\ Head(todo).call # "ask" =>
                 Asked(Tail(todo)) \/ response # NULL \/ instance = "absent"
<1>1. todo \in Seq(CallT) /\ Coloured(color, todo) /\ color \in Colours
  BY DEF ShellInv
<1>2. Head(todo) \in CallT /\ Tail(todo) \in Seq(CallT)
  BY <1>1
<1>3. Suits(Head(todo), color) /\ Coloured(After(Head(todo), color), Tail(todo))
  BY <1>1, ColouredTail
<1>4. After(Head(todo), color) \in Colours
  BY <1>1, <1>2 DEF After, CallT
<1>5. Head(todo).call # "ask" => Asked(Tail(todo)) \/ response # NULL \/ instance = "absent"
  BY <1>1, AskedTail DEF ShellInv
<1>6. QED
  BY <1>2, <1>3, <1>4, <1>5

\* What the invariants of the shell are about.
LEMMA ShellShows ==
    ASSUME ShellInv
    PROVE  ColoursKept /\ AnswersWritten
<1>1. CASE todo = <<>>
  <2>1. PICK seen \in [1..(Len(todo) + 1) -> Colours] :
           seen[1] = color /\ seen[Len(todo) + 1] = "grey"
    BY DEF ShellInv, Coloured
  <2>2. Len(todo) + 1 = 1
    BY <1>1
  <2>3. color = "grey"
    BY <2>1, <2>2
  <2>4. QED
    BY <1>1, <2>3 DEF ColoursKept, AnswersWritten
<1>2. CASE todo # <<>>
  <2>1. Suits(Head(todo), color)
    BY <1>2, NextCall
  <2>2. ColoursKept
    BY <1>2, <2>1 DEF ColoursKept, Suits
  <2>3. AnswersWritten
    <3>1. todo \in Seq(CallT)
      BY DEF ShellInv
    <3>2. QED
      BY <1>2, <3>1, AskedTail DEF AnswersWritten, ShellInv
  <2>4. QED
    BY <2>2, <2>3
<1>3. QED
  BY <1>1, <1>2

\* A step that takes the next call off, with the colour that call leaves.
LEMMA CallTaken ==
    ASSUME ShellInv, todo # <<>>, todo' = Tail(todo), color' = After(Head(todo), color),
           Head(todo).call # "ask", UNCHANGED <<response, instance>>
    PROVE  ShellInv'
<1>1. /\ Tail(todo) \in Seq(CallT) /\ After(Head(todo), color) \in Colours
      /\ Coloured(After(Head(todo), color), Tail(todo))
      /\ Asked(Tail(todo)) \/ response # NULL \/ instance = "absent"
  BY NextCall
<1>2. Coloured(color', todo') /\ color' \in Colours /\ todo' \in Seq(CallT)
  BY <1>1
<1>3. Asked(todo') \/ response' # NULL \/ instance' = "absent"
  BY <1>1
<1>4. QED
  BY <1>2, <1>3 DEF ShellInv, Coloured, Asked, Suits, After, Palette

\* A step that leaves the shell with a script, at the prompt or with nothing to do.
LEMMA ScriptTaken ==
    ASSUME Good(todo'), color' = "grey", instance' = "absent" => response' = NULL
    PROVE  ShellInv'
<1>1. todo' \in Seq(CallT) /\ Coloured(color', todo') /\ Asked(todo') /\ color' \in Colours
  BY DEF Good, Colours
<1>2. QED
  BY <1>1 DEF ShellInv, Coloured, Asked, Suits, After, Palette

\* At the prompt the colour is grey.
LEMMA PromptGrey ==
    ASSUME ShellInv, todo = <<>>
    PROVE  color = "grey"
BY ShellShows DEF ColoursKept

\* jarvis_learn changes the knowledge base or nothing but the result.
LEMMA LearnStep ==
    ASSUME NEW t \in CStrings, NEW d \in CStrings, JarvisLearn(t, d)
    PROVE  CoreStep /\ UNCHANGED <<response, instance>>
BY DEF JarvisLearn, AddFull, Add, AddCrash, CoreStep

\* The core answers a question, unless it is absent.
LEMMA AskStep ==
    ASSUME NEW c, ProcessInput(c), instance \in {"absent", "present"}
    PROVE  /\ UNCHANGED <<instance, knowledge, nodes, learned>>
           /\ response' # NULL \/ instance' = "absent"
           /\ instance' = "absent" => response' = response
<1>1. Analysing # NULL
  <2>1. "Analyse en cours..." \in Characters /\ NULL \notin CStrings
    BY CoreAssumption
  <2>2. Analysing \in CStrings
    <3>1. \A x \in Characters : <<x>> \in CStrings
      BY DEF CStrings
    <3>2. QED
      BY <2>1, <3>1 DEF Analysing
  <2>3. QED
    BY <2>1, <2>2
<1>2. QED
  BY <1>1 DEF ProcessInput

\* Every step of a command keeps the invariant.
LEMMA CommandStep ==
    ASSUME IInv, Commands
    PROVE  CoreStep /\ ShellInv'
<1>1. ShellInv /\ CoreInv
  BY DEF IInv
<1>2. ASSUME NEW script \in Scripts, RunLine(script)
      PROVE  CoreStep /\ ShellInv'
  <2>1. todo = <<>> /\ todo' = Prompt \o script /\ color' = color
        /\ UNCHANGED <<instance, knowledge, nodes, learned>>
    BY <1>2 DEF RunLine, AtPrompt
  <2>2. Good(todo') /\ color' = "grey"
    BY <1>1, <2>1, ScriptsGood, StartGood, PromptGrey
  <2>3. response' = NULL
    BY <1>2 DEF RunLine
  <2>4. QED
    BY <2>1, <2>2, <2>3, ScriptTaken DEF CoreStep
<1>3. CASE InitCore
  <2>1. CoreStep
    BY <1>3 DEF InitCore, CoreInitCalls, InitAgain, InitFails, CoreStep
  <2>2. todo' = <<>> /\ color' = "grey"
    BY <1>1, <1>3, PromptGrey DEF InitCore, AtPrompt, shellVars
  <2>3. instance' = "absent" => response' = NULL
    BY <1>1, <1>3 DEF InitCore, CoreInitCalls, InitAgain, InitFails, CoreInit, CoreInitCrash, ShellInv
  <2>4. QED
    BY <2>1, <2>2, <2>3, ScriptTaken, GoodEmpty
<1>4. CASE SetColor
  <2>1. /\ todo # <<>> /\ Head(todo).call = "colour"
        /\ color' = Head(todo).colour /\ todo' = Tail(todo) /\ UNCHANGED coreVars
    BY <1>4 DEF SetColor, Calls
  <2>2. color' = After(Head(todo), color) /\ UNCHANGED <<response, instance>>
    BY <2>1 DEF After, coreVars
  <2>3. QED
    BY <1>1, <2>1, <2>2, CallTaken DEF CoreStep, coreVars
<1>5. CASE Output \/ ChangeToRoot
  <2>1. /\ todo # <<>> /\ Head(todo).call \notin {"colour", "ask"}
        /\ color' = color /\ todo' = Tail(todo) /\ UNCHANGED coreVars
    BY <1>5 DEF Output, ChangeToRoot, Calls
  <2>2. color' = After(Head(todo), color) /\ UNCHANGED <<response, instance>>
    BY <2>1 DEF After, coreVars
  <2>3. QED
    BY <1>1, <2>1, <2>2, CallTaken DEF CoreStep, coreVars
<1>6. CASE AskCore
  <2>1. /\ todo # <<>> /\ Head(todo).call = "ask" /\ ProcessInput(Head(todo).query)
        /\ color' = color /\ todo' = Tail(todo)
    BY <1>6 DEF AskCore, Calls
  <2>2. UNCHANGED <<instance, knowledge, nodes, learned>>
        /\ (response' # NULL \/ instance' = "absent")
        /\ (instance' = "absent" => response' = response)
    BY <1>1, <2>1, AskStep DEF CoreInv
  <2>3. color' = After(Head(todo), color)
    BY <2>1 DEF After
  <2>4. todo' \in Seq(CallT) /\ Coloured(color', todo') /\ color' \in Colours
    BY <1>1, <2>1, <2>3, NextCall
  <2>5. ShellInv'
    BY <1>1, <2>2, <2>4 DEF ShellInv, Coloured, Suits, After, Palette
  <2>6. QED
    BY <2>2, <2>5 DEF CoreStep
<1>7. CASE LearnTopic
  <2>1. /\ todo # <<>> /\ Head(todo).call = "learn" /\ color' = color
        /\ JarvisLearn(Head(todo).topic, Head(todo).content)
        /\ todo' = Tail(todo) \/ todo' = <<>>
    BY <1>7 DEF LearnTopic, Calls
  <2>2. Head(todo) \in CallT /\ Suits(Head(todo), color)
    BY <1>1, <2>1, NextCall
  <2>3. Head(todo).topic \in CStrings /\ Head(todo).content \in CStrings
    BY <2>1, <2>2 DEF CallT
  <2>4. CoreStep /\ UNCHANGED <<response, instance>>
    BY <2>1, <2>3, LearnStep
  <2>5. color = "grey"
    BY <2>1, <2>2 DEF Suits
  <2>6. CASE todo' = Tail(todo)
    BY <1>1, <2>1, <2>4, <2>6, CallTaken DEF After
  <2>7. CASE todo' = <<>>
    <3>1. instance' = "absent" => response' = NULL
      BY <1>1, <2>4 DEF ShellInv
    <3>2. QED
      BY <2>1, <2>4, <2>5, <2>7, <3>1, ScriptTaken, GoodEmpty
  <2>8. QED
    BY <2>1, <2>6, <2>7
<1>8. QED
  BY <1>2, <1>3, <1>4, <1>5, <1>6, <1>7 DEF Commands

\* Nothing else touches the shell or the core.
LEMMA NextStep ==
    ASSUME IInv, [Next]_vars
    PROVE  CoreStep /\ IInv'
<1>1. CASE Commands
  <2>1. CoreStep /\ ShellInv'
    BY <1>1, CommandStep
  <2>2. QED
    BY <2>1, CoreKept DEF IInv
<1>2. CASE UNCHANGED <<coreVars, shellVars>>
  <2>1. CoreStep
    BY <1>2 DEF CoreStep, coreVars
  <2>2. ShellInv'
    BY <1>2 DEF IInv, ShellInv, Coloured, Asked, Suits, After, Palette, coreVars, shellVars
  <2>3. QED
    BY <2>1, <2>2, CoreKept DEF IInv
<1>3. QED
  BY <1>1, <1>2 DEF Next, vars

\* The invariant of the shell and the core holds in every state.
LEMMA InvHolds == Spec => []IInv
<1>1. Init => IInv
  BY InitInv
<1>2. IInv /\ [Next]_vars => IInv'
  BY NextStep
<1>3. QED
  BY <1>1, <1>2, PTL DEF Spec

-----------------------------------------------------------------------------
(***************************************************************************)
(* Colours never leak from a command, however it ends: for any arguments   *)
(* of any command, plain output and the cleared screen are grey, JARVIS    *)
(* speaks in its own colours and the shell waits for a line in grey.       *)
(***************************************************************************)
THEOREM ColoursAreKept == Spec => []ColoursKept
<1>1. IInv => ColoursKept
  BY ShellShows DEF IInv
<1>2. QED
  BY <1>1, InvHolds, PTL

(***************************************************************************)
(* Whatever was asked and learned before, the response buffer that a       *)
(* command prints has been written by the core if there is one, and is     *)
(* printed as it was found on the stack if there is none.                  *)
(***************************************************************************)
THEOREM AnswersAreWritten == Spec => []AnswersWritten
<1>1. IInv => AnswersWritten
  BY ShellShows DEF IInv
<1>2. QED
  BY <1>1, InvHolds, PTL

(***************************************************************************)
(* A concept shorter than its field is found exactly when it was taught,   *)
(* with the definition taught first: for every field size, capacity, case  *)
(* conversion and whatever lies behind the strings that strncpy cut off.   *)
(***************************************************************************)
THEOREM ShortConceptsAreFound == Spec => []ShortConceptsFound
<1>1. IInv => ShortConceptsFound
  BY CoreFinds DEF IInv
<1>2. QED
  BY <1>1, InvHolds, PTL

(***************************************************************************)
(* What the core has once answered it keeps answering: no later entry and  *)
(* no repeated jarvis_core_init changes the answer of a query.             *)
(***************************************************************************)
THEOREM AnswersAreStable == Spec => AnswersStable
<1> DEFINE Stable ==
      \A c \in Concepts : QueryKnowledge(c) # NULL => QueryKnowledge(c)' = QueryKnowledge(c)
<1>1. IInv /\ [Next]_vars => [Stable]_coreVars
  BY NextStep, AnswerKept DEF IInv
<1>2. QED
  BY <1>1, InvHolds, PTL DEF Spec, AnswersStable

-----------------------------------------------------------------------------
(***************************************************************************)
(* The parser of lines.                                                    *)
(***************************************************************************)
LineTypeOK ==
    /\ text \in Seq(Chars) /\ line \in Seq(Chars \cup {NUL}) /\ Len(line) = Len(text) + 1
    /\ p \in 1..(Len(text) + 1)
    /\ argv \in Seq(1..Len(text)) /\ Len(argv) =< MaxArgs
    /\ in_quotes \in BOOLEAN
    /\ pc \in {"lead", "argument", "scan", "gap", "done"}

\* The rest of the line is as it was entered; of what was read, quotes and the
\* blanks behind pieces may have become NUL, and the latter have.
LineCut ==
    /\ line[Len(text) + 1] = NUL
    /\ \A j \in 1..Len(text) :
          /\ line[j] = text[j] \/ (line[j] = NUL /\ text[j] \notin Letters)
          /\ j >= p => line[j] = text[j]
          /\ j < p /\ j > 1 /\ Separates(j) /\ ~Separates(j - 1) => line[j] = NUL

\* in_quotes counts the quotes.
QuotesCounted ==
    /\ in_quotes <=> QuotesBefore(p) % 2 = 1
    /\ pc \in {"lead", "gap", "argument"} /\ p =< Len(text) => ~in_quotes

\* Where each loop is: inside the last argument, or behind a separator.
InPlace ==
    /\ pc = "scan" => /\ Len(argv) > 0 /\ argv[Len(argv)] =< p
                      /\ \A j \in 1..Len(text) :
                            argv[Len(argv)] =< j /\ j < p => ~Separates(j)
    /\ pc # "scan" => p = 1 \/ p = Len(text) + 1 \/ Separates(p - 1)
    /\ pc = "argument" => p = Len(text) + 1 \/ ~Separates(p)
    /\ pc = "done" => p = Len(text) + 1 \/ Len(argv) = MaxArgs

\* The arguments are the pieces that start in what was read.
Listed ==
    /\ \A k \in 1..Len(argv) :
          /\ argv[k] \in Starts /\ (k > 1 => argv[k - 1] < argv[k])
          /\ argv[k] < p \/ (pc = "scan" /\ argv[k] = p)
    /\ \A i \in Starts : i < p => \E k \in 1..Len(argv) : argv[k] = i

ParserInv == LineTypeOK /\ LineCut /\ QuotesCounted /\ InPlace /\ Listed

\* One more character is one more quote or none.
LEMMA CountQuotes ==
    ASSUME text \in Seq(Chars)
    PROVE  /\ QuotesBefore(1) = 0
           /\ \A i \in 1..(Len(text) + 1) : QuotesBefore(i) \in Nat
           /\ \A i \in 1..Len(text) :
                QuotesBefore(i + 1) = IF text[i] = Quote THEN QuotesBefore(i) + 1 ELSE QuotesBefore(i)
<1> DEFINE Q(i) == {j \in 1..(i - 1) : text[j] = Quote}
<1>1. Q(1) = {}
  OBVIOUS
<1>2. QuotesBefore(1) = 0
  BY <1>1, FS_EmptySet DEF QuotesBefore
<1>3. ASSUME NEW i \in 1..(Len(text) + 1)
      PROVE  IsFiniteSet(Q(i)) /\ QuotesBefore(i) \in Nat
  <2>1. IsFiniteSet(1..(i - 1))
    BY FS_Interval
  <2>2. IsFiniteSet(Q(i))
    <3>1. Q(i) \in SUBSET (1..(i - 1))
      OBVIOUS
    <3> HIDE DEF Q
    <3>2. QED
      BY <2>1, <3>1, FS_Subset
  <2>3. QED
    BY <2>2, FS_CardinalityType, Zenon DEF QuotesBefore
<1>4. ASSUME NEW i \in 1..Len(text)
      PROVE  QuotesBefore(i + 1) = IF text[i] = Quote THEN QuotesBefore(i) + 1 ELSE QuotesBefore(i)
  <2>1. Q(i + 1) = IF text[i] = Quote THEN Q(i) \cup {i} ELSE Q(i)
    OBVIOUS
  <2>2. i \in 1..(Len(text) + 1) /\ i \notin Q(i)
    OBVIOUS
  <2>3. IsFiniteSet(Q(i))
    BY <1>3, <2>2, Zenon
  <2>4. Cardinality(Q(i) \cup {i}) = Cardinality(Q(i)) + 1
    BY <2>2, <2>3, FS_AddElement
  <2>5. QuotesBefore(i + 1) = Cardinality(Q(i + 1)) /\ QuotesBefore(i) = Cardinality(Q(i))
    BY DEF QuotesBefore
  <2> HIDE DEF Q
  <2>6. QED
    BY <2>1, <2>4, <2>5
<1>5. QED
  BY <1>2, <1>3, <1>4

\* The line stays as it was entered, and so do its pieces.
LEMMA SamePieces ==
    ASSUME text' = text
    PROVE  /\ \A i : QuotesBefore(i)' = QuotesBefore(i)
           /\ \A i : Separates(i)' <=> Separates(i)
           /\ Starts' = Starts
BY DEF QuotesBefore, Separates, Starts

\* Types, and that the characters of a special meaning differ.
LEMMA LineFacts ==
    ASSUME ParserInv
    PROVE  /\ MaxArgs \in Nat \ {0} /\ Len(text) \in Nat /\ p \in 1..(Len(text) + 1)
           /\ text \in Seq(Chars) /\ NUL # Space /\ Quote # Space /\ NUL # Quote
           /\ Letters \cap {Space, Quote, NUL} = {}
           /\ \A j \in 1..Len(text) : text[j] \in Letters \cup {Space, Quote}
<1>1. MaxArgs \in Nat \ {0} /\ Letters \cap {Space, Quote, NUL} = {}
  BY ParserAssumption DEF NUL, Space, Quote
<1>2. NUL # Space /\ Quote # Space /\ NUL # Quote
  BY DEF NUL, Space, Quote
<1>3. text \in Seq(Chars) /\ p \in 1..(Len(text) + 1)
  BY DEF ParserInv, LineTypeOK
<1>4. Len(text) \in Nat /\ \A j \in 1..Len(text) : text[j] \in Chars
  BY <1>3
<1>5. QED
  BY <1>1, <1>2, <1>3, <1>4 DEF Chars

\* Before the first step.
LEMMA ParserInitInv ==
    ASSUME ParserInit \/ ParserRest
    PROVE  ParserInv
<1>1. MaxArgs \in Nat \ {0} /\ MaxLen \in Nat
  BY ParserAssumption
<1>2. text \in Seq(Chars)
  <2>1. CASE ParserInit
    <3>1. PICK n \in 0..MaxLen : text \in [1..n -> Chars]
      BY <2>1 DEF ParserInit
    <3>2. n \in Nat
      BY <1>1
    <3>3. QED
      BY <3>1, <3>2
  <2>2. CASE ParserRest
    BY <2>2 DEF ParserRest
  <2>3. QED
    BY <2>1, <2>2
<1>3. Len(text) \in Nat /\ DOMAIN text = 1..Len(text)
  BY <1>2
<1>4. line = Append(text, NUL)
  <2>1. <<NUL>> = Append(<<>>, NUL)
    OBVIOUS
  <2>2. QED
    BY <2>1, Zenon DEF ParserInit, ParserRest
<1>5. /\ p = 1 /\ argv = <<>> /\ in_quotes = FALSE
      /\ pc = "lead" \/ (pc = "done" /\ Len(text) = 0)
  BY DEF ParserInit, ParserRest
<1>6. /\ line \in Seq(Chars \cup {NUL}) /\ Len(line) = Len(text) + 1
      /\ line[Len(text) + 1] = NUL /\ \A j \in 1..Len(text) : line[j] = text[j]
  <2>1. text \in Seq(Chars \cup {NUL}) /\ NUL \in Chars \cup {NUL}
    BY <1>2
  <2> HIDE DEF NUL
  <2>2. QED
    BY <1>4, <2>1
<1>7. LineTypeOK
  <2>1. argv \in Seq(1..Len(text)) /\ Len(argv) = 0
    BY <1>5
  <2>2. p \in 1..(Len(text) + 1) /\ Len(argv) =< MaxArgs
    BY <1>1, <1>3, <1>5, <2>1
  <2>3. in_quotes \in BOOLEAN /\ pc \in {"lead", "argument", "scan", "gap", "done"}
    BY <1>5
  <2>4. QED
    BY <1>2, <1>6, <2>1, <2>2, <2>3, Zenon DEF LineTypeOK
<1>8. LineCut
  BY <1>3, <1>5, <1>6 DEF LineCut
<1>9. QuotesCounted
  BY <1>2, <1>5, CountQuotes DEF QuotesCounted
<1>10. InPlace /\ Listed
  BY <1>3, <1>5 DEF InPlace, Listed, Starts
<1>11. QED
  BY <1>7, <1>8, <1>9, <1>10 DEF ParserInv

\* A loop over blanks passes a separator or stops in front of a piece.
LEMMA SkipStep ==
    ASSUME ParserInv, SkipLead \/ SkipGap
    PROVE  ParserInv'
<1>1. /\ pc \in {"lead", "gap"} /\ text' = text /\ line' = line /\ argv' = argv /\ in_quotes' = in_quotes
      /\ \/ line[p] = Space /\ p' = p + 1 /\ pc' = pc
         \/ line[p] # Space /\ p' = p /\ pc' = "argument"
  BY DEF SkipLead, SkipGap
<1>2. /\ Len(text) \in Nat /\ p \in 1..(Len(text) + 1) /\ MaxArgs \in Nat \ {0}
      /\ text \in Seq(Chars) /\ NUL # Space /\ Quote # Space
  BY LineFacts
<1>3. p = 1 \/ p = Len(text) + 1 \/ Separates(p - 1)
  BY <1>1 DEF ParserInv, InPlace
<1>4. CASE line[p] = Space
  <2>1. p =< Len(text) /\ text[p] = Space
    BY <1>2, <1>4 DEF ParserInv, LineCut
  <2>2. ~in_quotes /\ QuotesBefore(p) % 2 = 0
    BY <1>1, <1>2, <2>1, CountQuotes DEF ParserInv, QuotesCounted
  <2>3. Separates(p) /\ QuotesBefore(p + 1) = QuotesBefore(p)
    BY <1>2, <2>1, <2>2, CountQuotes DEF Separates
  <2>4. p' = p + 1 /\ pc' = pc
    BY <1>1, <1>4
  <2>5. p > 1 => Separates(p - 1)
    BY <1>2, <1>3, <2>1
  <2>6. LineTypeOK'
    BY <1>1, <1>2, <2>1, <2>4 DEF ParserInv, LineTypeOK
  <2>7. LineCut'
    BY <1>1, <1>2, <2>4, <2>5, SamePieces DEF ParserInv, LineCut
  <2>8. QuotesCounted'
    BY <1>1, <2>2, <2>3, <2>4, SamePieces DEF ParserInv, QuotesCounted
  <2>9. InPlace'
    <3>1. Separates(p' - 1)
      BY <1>2, <2>3, <2>4
    <3>2. QED
      BY <1>1, <2>4, <3>1, SamePieces DEF InPlace
  <2>10. Listed'
    <3>1. p \notin Starts
      BY <2>3 DEF Starts
    <3>2. \A i \in Starts : i < p + 1 => i < p
      BY <1>2, <3>1 DEF Starts
    <3>3. \A k \in 1..Len(argv) : argv[k] < p + 1
      BY <1>1, <1>2 DEF ParserInv, Listed, LineTypeOK
    <3>4. QED
      BY <1>1, <2>4, <3>2, <3>3, SamePieces DEF ParserInv, Listed
  <2>11. QED
    BY <2>6, <2>7, <2>8, <2>9, <2>10 DEF ParserInv
<1>5. CASE line[p] # Space
  <2>1. p' = p /\ pc' = "argument"
    BY <1>1, <1>5
  <2>2. p = Len(text) + 1 \/ ~Separates(p)
    BY <1>2, <1>5 DEF ParserInv, LineCut, Separates
  <2>3. LineTypeOK' /\ LineCut'
    BY <1>1, <2>1, SamePieces DEF ParserInv, LineTypeOK, LineCut
  <2>4. QuotesCounted'
    BY <1>1, <2>1, SamePieces DEF ParserInv, QuotesCounted
  <2>5. InPlace'
    BY <1>1, <1>3, <2>1, <2>2, SamePieces DEF InPlace
  <2>6. Listed'
    BY <1>1, <2>1, SamePieces DEF ParserInv, Listed
  <2>7. QED
    BY <2>3, <2>4, <2>5, <2>6 DEF ParserInv
<1>6. QED
  BY <1>4, <1>5

\* An argument starts where a piece does.
LEMMA StartStep ==
    ASSUME ParserInv, StartArgument
    PROVE  ParserInv'
<1>1. /\ pc = "argument" /\ line[p] # NUL /\ Len(argv) < MaxArgs /\ argv' = Append(argv, p)
      /\ pc' = "scan" /\ text' = text /\ line' = line /\ p' = p /\ in_quotes' = in_quotes
  BY DEF StartArgument
<1>2. MaxArgs \in Nat \ {0} /\ Len(text) \in Nat /\ p \in 1..(Len(text) + 1)
  BY LineFacts
<1>3. p \in 1..Len(text)
  BY <1>1, <1>2 DEF ParserInv, LineCut
<1>4. ~Separates(p) /\ (p > 1 => Separates(p - 1))
  BY <1>1, <1>2, <1>3 DEF ParserInv, InPlace
<1>5. p \in Starts
  BY <1>3, <1>4 DEF Starts
<1>6. argv \in Seq(1..Len(text)) /\ Len(argv) \in Nat /\ \A k \in 1..Len(argv) : argv[k] \in 1..Len(text) /\ argv[k] < p
  BY <1>1 DEF ParserInv, LineTypeOK, Listed
<1>7. /\ argv' \in Seq(1..Len(text)) /\ Len(argv') = Len(argv) + 1
      /\ argv'[Len(argv) + 1] = p /\ \A k \in 1..Len(argv) : argv'[k] = argv[k]
  BY <1>1, <1>3, <1>6
<1>8. LineTypeOK'
  <2>1. Len(argv') =< MaxArgs
    BY <1>1, <1>2, <1>6, <1>7
  <2>2. QED
    BY <1>1, <1>7, <2>1 DEF ParserInv, LineTypeOK
<1>9. LineCut'
  BY <1>1, SamePieces DEF ParserInv, LineCut
<1>10. QuotesCounted'
  BY <1>1, SamePieces DEF ParserInv, QuotesCounted
<1>11. InPlace'
  <2>1. Len(argv') > 0 /\ argv'[Len(argv')] = p
    BY <1>6, <1>7
  <2>2. \A j \in 1..Len(text) : ~(p =< j /\ j < p)
    BY <1>3
  <2>3. QED
    BY <1>1, <1>3, <2>1, <2>2, SamePieces DEF InPlace
<1>12. Listed'
  <2>1. ASSUME NEW k \in 1..Len(argv')
        PROVE  /\ argv'[k] \in Starts /\ (k > 1 => argv'[k - 1] < argv'[k])
               /\ argv'[k] < p \/ argv'[k] = p
    <3>1. CASE k = Len(argv) + 1
      <4>1. k > 1 => argv'[k - 1] = argv[k - 1] /\ argv[k - 1] < p
        BY <1>6, <1>7, <3>1
      <4>2. QED
        BY <1>5, <1>7, <3>1, <4>1
    <3>2. CASE k \in 1..Len(argv)
      <4>1. k > 1 => k - 1 \in 1..Len(argv)
        BY <1>6, <3>2
      <4>2. argv'[k] = argv[k] /\ (k > 1 => argv'[k - 1] = argv[k - 1])
        BY <1>7, <3>2, <4>1
      <4>3. argv[k] \in Starts /\ (k > 1 => argv[k - 1] < argv[k]) /\ argv[k] < p
        BY <1>6, <3>2 DEF ParserInv, Listed
      <4>4. QED
        BY <4>2, <4>3
    <3>3. QED
      BY <1>6, <1>7, <3>1, <3>2
  <2>2. ASSUME NEW i \in Starts, i < p
        PROVE  \E k \in 1..Len(argv') : argv'[k] = i
    <3>1. PICK k \in 1..Len(argv) : argv[k] = i
      BY <2>2 DEF ParserInv, Listed
    <3>2. k \in 1..Len(argv') /\ argv'[k] = i
      BY <1>6, <1>7, <3>1
    <3>3. QED
      BY <3>2
  <2>3. QED
    BY <1>1, <2>1, <2>2, SamePieces DEF Listed
<1>13. QED
  BY <1>8, <1>9, <1>10, <1>11, <1>12 DEF ParserInv

\* The end of the line ends the scan, and the parser.
LEMMA EndStep ==
    ASSUME ParserInv, ScanEnd \/ Finish
    PROVE  ParserInv'
<1>1. /\ text' = text /\ line' = line /\ p' = p /\ argv' = argv /\ in_quotes' = in_quotes
      /\ \/ pc = "scan" /\ line[p] = NUL /\ pc' = "gap"
         \/ pc = "argument" /\ (line[p] = NUL \/ Len(argv) >= MaxArgs) /\ pc' = "done"
  BY DEF ScanEnd, Finish
<1>2. MaxArgs \in Nat \ {0} /\ Len(text) \in Nat /\ p \in 1..(Len(text) + 1)
  BY LineFacts
<1>3. line[p] = NUL => p = Len(text) + 1
  <2>1. \A j \in 1..Len(text) : text[j] # NUL
    BY LineFacts
  <2>2. QED
    BY <1>2, <2>1 DEF ParserInv, LineCut
<1>4. LineTypeOK' /\ LineCut'
  BY <1>1, SamePieces DEF ParserInv, LineTypeOK, LineCut
<1>5. QuotesCounted'
  BY <1>1, <1>2, <1>3, SamePieces DEF ParserInv, QuotesCounted
<1>6. InPlace'
  <2>1. Len(argv) >= MaxArgs => Len(argv) = MaxArgs
    BY <1>2 DEF ParserInv, LineTypeOK
  <2>2. QED
    BY <1>1, <1>3, <2>1, SamePieces DEF ParserInv, InPlace
<1>7. Listed'
  <2>1. pc = "scan" => \A k \in 1..Len(argv) : argv[k] < p
    BY <1>1, <1>2, <1>3 DEF ParserInv, LineTypeOK
  <2>2. QED
    BY <1>1, <2>1, SamePieces DEF ParserInv, Listed
<1>8. QED
  BY <1>4, <1>5, <1>6, <1>7 DEF ParserInv

\* One more character belongs to the argument.
LEMMA WithinStep ==
    ASSUME ParserInv, ScanQuote \/ ScanOther
    PROVE  ParserInv'
<1>1. /\ pc = "scan" /\ text' = text /\ argv' = argv /\ p' = p + 1 /\ pc' = pc
      /\ \/ /\ line[p] = Quote /\ in_quotes' = ~in_quotes
            /\ line' = [line EXCEPT ![p] = NUL]
         \/ /\ line[p] \in Letters \/ (line[p] = Space /\ in_quotes)
            /\ line' = line /\ in_quotes' = in_quotes
  BY DEF ScanQuote, ScanOther
<1>2. /\ Len(text) \in Nat /\ p \in 1..(Len(text) + 1) /\ text \in Seq(Chars)
      /\ NUL # Space /\ Quote # Space /\ NUL # Quote /\ Letters \cap {Space, Quote, NUL} = {}
  BY LineFacts
<1>3. p \in 1..Len(text) /\ line[p] = text[p]
  BY <1>1, <1>2 DEF ParserInv, LineCut
<1>4. QuotesBefore(p) \in Nat /\ (in_quotes <=> QuotesBefore(p) % 2 = 1)
  BY <1>2, CountQuotes DEF ParserInv, QuotesCounted
<1>5. ~Separates(p)
  BY <1>1, <1>2, <1>3, <1>4 DEF Separates
<1>6. /\ line \in Seq(Chars \cup {NUL}) /\ Len(line) = Len(text) + 1
      /\ argv \in Seq(1..Len(text)) /\ Len(argv) =< MaxArgs /\ in_quotes \in BOOLEAN
  BY DEF ParserInv, LineTypeOK
<1>7. /\ line' \in Seq(Chars \cup {NUL}) /\ Len(line') = Len(line)
      /\ \A j \in 1..(Len(text) + 1) : j # p => line'[j] = line[j]
      /\ line'[p] = text[p] \/ (line'[p] = NUL /\ text[p] = Quote)
  <2>1. NUL \in Chars \cup {NUL} /\ p \in 1..Len(line)
    BY <1>2, <1>6
  <2>2. CASE line[p] = Quote
    <3>1. line' = [line EXCEPT ![p] = NUL] /\ text[p] = Quote
      BY <1>1, <1>2, <1>3, <2>2
    <3>2. QED
      BY <1>6, <2>1, <3>1, ExceptSeq
  <2>3. CASE line[p] # Quote
    BY <1>1, <1>3, <1>6, <2>3
  <2>4. QED
    BY <2>2, <2>3
<1>8. LineTypeOK'
  <2>1. in_quotes' \in BOOLEAN
    BY <1>1, <1>6
  <2>2. p' \in 1..(Len(text) + 1) /\ Len(line') = Len(text) + 1
    BY <1>1, <1>2, <1>3, <1>6, <1>7
  <2>3. pc' \in {"lead", "argument", "scan", "gap", "done"}
    BY <1>1
  <2>4. QED
    BY <1>1, <1>2, <1>6, <1>7, <2>1, <2>2, <2>3, Zenon DEF LineTypeOK
<1>9. LineCut'
  <2>1. line'[Len(text) + 1] = NUL
    BY <1>2, <1>3, <1>7 DEF ParserInv, LineCut
  <2>2. ASSUME NEW j \in 1..Len(text)
        PROVE  /\ line'[j] = text[j] \/ (line'[j] = NUL /\ text[j] \notin Letters)
               /\ j >= p + 1 => line'[j] = text[j]
               /\ j < p + 1 /\ j > 1 /\ Separates(j) /\ ~Separates(j - 1) => line'[j] = NUL
    <3>1. CASE j = p
      BY <1>2, <1>3, <1>5, <1>7, <3>1
    <3>2. CASE j # p
      BY <1>2, <1>7, <3>2 DEF ParserInv, LineCut
    <3>3. QED
      BY <3>1, <3>2
  <2>3. QED
    BY <1>1, <2>1, <2>2, SamePieces DEF LineCut
<1>10. QuotesCounted'
  <2>1. QuotesBefore(p + 1) = IF text[p] = Quote THEN QuotesBefore(p) + 1 ELSE QuotesBefore(p)
    BY <1>2, <1>3, CountQuotes
  <2>2. in_quotes' <=> IF text[p] = Quote THEN ~in_quotes ELSE in_quotes
    <3>1. CASE text[p] = Quote
      <4>1. text[p] \notin Letters /\ text[p] # Space
        BY <1>2, <3>1
      <4>2. QED
        BY <1>1, <1>3, <3>1, <4>1
    <3>2. CASE text[p] # Quote
      BY <1>1, <1>3, <3>2
    <3>3. QED
      BY <3>1, <3>2
  <2>3. (QuotesBefore(p) + 1) % 2 = 1 <=> ~(QuotesBefore(p) % 2 = 1)
    BY <1>4
  <2>4. in_quotes' <=> QuotesBefore(p + 1) % 2 = 1
    BY <1>4, <2>1, <2>2, <2>3
  <2>5. QED
    BY <1>1, <2>4, SamePieces DEF QuotesCounted
<1>11. Len(argv) > 0 /\ argv[Len(argv)] \in 1..Len(text) /\ argv[Len(argv)] =< p
  BY <1>1, <1>6 DEF ParserInv, InPlace
<1>12. InPlace'
  <2>1. \A j \in 1..Len(text) : argv[Len(argv)] =< j /\ j < p + 1 => ~Separates(j)
    BY <1>1, <1>2, <1>5 DEF ParserInv, InPlace
  <2>2. argv[Len(argv)] =< p + 1
    BY <1>2, <1>11
  <2>3. QED
    BY <1>1, <1>11, <2>1, <2>2, SamePieces DEF InPlace
<1>13. Listed'
  <2>1. ASSUME NEW i \in Starts, i < p + 1
        PROVE  \E k \in 1..Len(argv) : argv[k] = i
    <3>1. CASE i < p
      BY <3>1 DEF ParserInv, Listed
    <3>2. CASE i = p
      <4>1. ~(argv[Len(argv)] < p)
        <5>1. SUFFICES ASSUME argv[Len(argv)] < p PROVE FALSE
          OBVIOUS
        <5>2. p > 1 /\ p - 1 \in 1..Len(text) /\ argv[Len(argv)] =< p - 1 /\ p - 1 < p
          BY <1>2, <1>3, <1>11, <5>1
        <5>3. ~Separates(p - 1)
          BY <1>1, <5>2 DEF ParserInv, InPlace
        <5>4. QED
          BY <3>2, <5>2, <5>3 DEF Starts
      <4>2. argv[Len(argv)] = p /\ Len(argv) \in 1..Len(argv)
        BY <1>2, <1>6, <1>11, <4>1
      <4>3. QED
        BY <3>2, <4>2
    <3>3. QED
      BY <1>2, <2>1, <3>1, <3>2 DEF Starts
  <2>2. \A k \in 1..Len(argv) : argv[k] < p + 1
    <3>1. \A k \in 1..Len(argv) : argv[k] \in 1..Len(text)
      BY <1>6
    <3>2. QED
      BY <1>2, <3>1 DEF ParserInv, Listed
  <2>3. QED
    BY <1>1, <2>1, <2>2, SamePieces DEF ParserInv, Listed
<1>14. QED
  BY <1>8, <1>9, <1>10, <1>12, <1>13 DEF ParserInv

\* A blank outside quotes ends the argument.
LEMMA SeparatorStep ==
    ASSUME ParserInv, ScanSpace
    PROVE  ParserInv'
<1>1. /\ pc = "scan" /\ line[p] = Space /\ ~in_quotes /\ line' = [line EXCEPT ![p] = NUL]
      /\ p' = p + 1 /\ pc' = "gap" /\ text' = text /\ argv' = argv /\ in_quotes' = in_quotes
  BY DEF ScanSpace
<1>2. /\ Len(text) \in Nat /\ p \in 1..(Len(text) + 1) /\ text \in Seq(Chars)
      /\ NUL # Space /\ Quote # Space /\ NUL # Quote /\ Letters \cap {Space, Quote, NUL} = {}
  BY LineFacts
<1>3. p \in 1..Len(text) /\ text[p] = Space
  BY <1>1, <1>2 DEF ParserInv, LineCut
<1>4. QuotesBefore(p) \in Nat /\ (in_quotes <=> QuotesBefore(p) % 2 = 1)
  BY <1>2, CountQuotes DEF ParserInv, QuotesCounted
<1>5. Separates(p) /\ QuotesBefore(p + 1) = QuotesBefore(p)
  BY <1>1, <1>2, <1>3, <1>4, CountQuotes DEF Separates
<1>6. /\ line \in Seq(Chars \cup {NUL}) /\ Len(line) = Len(text) + 1
      /\ argv \in Seq(1..Len(text)) /\ Len(argv) =< MaxArgs /\ in_quotes \in BOOLEAN
  BY DEF ParserInv, LineTypeOK
<1>7. /\ line' \in Seq(Chars \cup {NUL}) /\ Len(line') = Len(line)
      /\ \A j \in 1..(Len(text) + 1) : j # p => line'[j] = line[j]
      /\ line'[p] = NUL
  <2>1. NUL \in Chars \cup {NUL} /\ p \in 1..Len(line)
    BY <1>2, <1>6
  <2>2. QED
    BY <1>1, <1>6, <2>1, ExceptSeq
<1>8. LineTypeOK'
  <2>1. p' \in 1..(Len(text) + 1) /\ Len(line') = Len(text) + 1
    BY <1>1, <1>2, <1>3, <1>6, <1>7
  <2>2. pc' \in {"lead", "argument", "scan", "gap", "done"}
    BY <1>1
  <2>3. QED
    BY <1>1, <1>2, <1>6, <1>7, <2>1, <2>2, Zenon DEF LineTypeOK
<1>9. LineCut'
  <2>1. line'[Len(text) + 1] = NUL
    BY <1>2, <1>3, <1>7 DEF ParserInv, LineCut
  <2>2. ASSUME NEW j \in 1..Len(text)
        PROVE  /\ line'[j] = text[j] \/ (line'[j] = NUL /\ text[j] \notin Letters)
               /\ j >= p + 1 => line'[j] = text[j]
               /\ j < p + 1 /\ j > 1 /\ Separates(j) /\ ~Separates(j - 1) => line'[j] = NUL
    <3>1. CASE j = p
      BY <1>2, <1>3, <1>7, <3>1
    <3>2. CASE j # p
      BY <1>2, <1>7, <3>2 DEF ParserInv, LineCut
    <3>3. QED
      BY <3>1, <3>2
  <2>3. QED
    BY <1>1, <2>1, <2>2, SamePieces DEF LineCut
<1>10. QuotesCounted'
  BY <1>1, <1>4, <1>5, SamePieces DEF QuotesCounted
<1>11. InPlace'
  <2>1. (p + 1) - 1 = p
    BY <1>2
  <2>2. QED
    BY <1>1, <1>5, <2>1, SamePieces DEF InPlace
<1>12. Listed'
  <2>1. \A i \in Starts : i < p + 1 => i < p
    BY <1>2, <1>5 DEF Starts
  <2>2. \A k \in 1..Len(argv) : argv[k] < p + 1
    <3>1. \A k \in 1..Len(argv) : argv[k] \in 1..Len(text)
      BY <1>6
    <3>2. QED
      BY <1>2, <3>1 DEF ParserInv, Listed
  <2>3. QED
    BY <1>1, <2>1, <2>2, SamePieces DEF ParserInv, Listed
<1>13. QED
  BY <1>8, <1>9, <1>10, <1>11, <1>12 DEF ParserInv

\* The parser keeps its invariant; nothing else touches its state.
LEMMA ParserInvHolds == Spec => []ParserInv
<1>1. Init => ParserInv
  BY ParserInitInv DEF Init
<1>2. ParserInv /\ [Next]_vars => ParserInv'
  <2>1. SUFFICES ASSUME ParserInv, [Next]_vars PROVE ParserInv'
    OBVIOUS
  <2>2. CASE ParserNext
    BY <2>1, <2>2, SkipStep, StartStep, EndStep, WithinStep, SeparatorStep, Zenon DEF ParserNext
  <2>3. CASE UNCHANGED parserVars
    <3>1. text' = text /\ line' = line /\ p' = p /\ argv' = argv /\ in_quotes' = in_quotes /\ pc' = pc
      BY <2>3 DEF parserVars
    <3>2. LineTypeOK' /\ LineCut'
      BY <2>1, <3>1, SamePieces DEF ParserInv, LineTypeOK, LineCut
    <3>3. QuotesCounted' /\ InPlace'
      BY <2>1, <3>1, SamePieces DEF ParserInv, QuotesCounted, InPlace
    <3>4. Listed'
      BY <2>1, <3>1, SamePieces DEF ParserInv, Listed
    <3>5. QED
      BY <3>2, <3>3, <3>4 DEF ParserInv
  <2>4. QED
    BY <2>1, <2>2, <2>3 DEF Next, vars
<1>3. QED
  BY <1>1, <1>2, PTL DEF Spec

\* A pointer into the line stands for what is in front of the next NUL.
LEMMA StringEnds ==
    ASSUME ParserInv, NEW i \in 1..Len(text)
    PROVE  \E e \in i..(Len(text) + 1) :
              /\ line[e] = NUL /\ \A k \in i..(e - 1) : line[k] # NUL
              /\ StringAt(i) = SubSeq(line, i, e - 1)
<1> DEFINE S == {j \in i..(Len(text) + 1) : line[j] = NUL}
           E(j) == line[j] = NUL /\ \A k \in i..(j - 1) : line[k] # NUL
           e == CHOOSE j \in i..Len(line) : E(j)
<1>1. Len(text) \in Nat /\ Len(line) = Len(text) + 1
  BY DEF ParserInv, LineTypeOK
<1>2. Len(text) + 1 \in S /\ S \in SUBSET Nat
  BY <1>1 DEF ParserInv, LineCut
<1>3. PICK j \in S : \A k \in S : j =< k
  <2> HIDE DEF S
  <2>1. QED
    BY <1>2, LeastExists
<1>4. j \in i..Len(line) /\ E(j)
  <2>1. j \in i..Len(line) /\ line[j] = NUL
    BY <1>1, <1>3
  <2>2. ASSUME NEW k \in i..(j - 1), line[k] = NUL PROVE FALSE
    <3>1. k \in S /\ ~(j =< k)
      BY <1>1, <2>1, <2>2
    <3>2. QED
      BY <1>3, <3>1
  <2>3. QED
    BY <2>1, <2>2
<1>5. e \in i..Len(line) /\ E(e)
  <2> HIDE DEF E
  <2>1. QED
    BY <1>4
<1>6. StringAt(i) = SubSeq(line, i, e - 1)
  BY DEF StringAt
<1> HIDE DEF e
<1>7. QED
  BY <1>1, <1>5, <1>6

\* A piece reaches to the next separator or to the end of the line.
LEMMA PieceEnds ==
    ASSUME text \in Seq(Chars), NEW i \in Starts
    PROVE  \E e \in i..Len(text) :
              /\ \A k \in i..e : ~Separates(k)
              /\ e < Len(text) => Separates(e + 1)
              /\ PieceAt(i) = SubSeq(text, i, e)
<1> DEFINE S == {j \in i..Len(text) : j = Len(text) \/ Separates(j + 1)}
           E(j) == /\ \A k \in i..j : ~Separates(k)
                   /\ j < Len(text) => Separates(j + 1)
           e == CHOOSE j \in i..Len(text) : E(j)
<1>1. Len(text) \in Nat /\ i \in 1..Len(text) /\ ~Separates(i)
  BY DEF Starts
<1>2. Len(text) \in S /\ S \in SUBSET Nat
  BY <1>1
<1>3. PICK j \in S : \A k \in S : j =< k
  <2> HIDE DEF S
  <2>1. QED
    BY <1>2, LeastExists
<1>4. j \in i..Len(text) /\ E(j)
  <2>1. j \in i..Len(text) /\ (j < Len(text) => Separates(j + 1))
    BY <1>1, <1>3
  <2>2. ASSUME NEW k \in i..j, Separates(k) PROVE FALSE
    <3>1. k > i
      BY <1>1, <2>1, <2>2
    <3>2. k - 1 \in i..Len(text) /\ (k - 1) + 1 = k /\ ~(j =< k - 1)
      BY <1>1, <2>1, <3>1
    <3>3. k - 1 \in S
      BY <2>2, <3>2
    <3>4. QED
      BY <1>3, <3>2, <3>3
  <2>3. QED
    BY <2>1, <2>2
<1>5. e \in i..Len(text) /\ E(e)
  <2> HIDE DEF E
  <2>1. QED
    BY <1>4
<1>6. PieceAt(i) = SubSeq(text, i, e)
  BY DEF PieceAt
<1> HIDE DEF e
<1>7. QED
  BY <1>5, <1>6

\* Behind the piece of an argument is a NUL, once the parser is done.
LEMMA NulBehind ==
    ASSUME ParserInv, pc = "done", NEW k \in 1..Len(argv), NEW e \in argv[k]..Len(text),
           \A j \in argv[k]..e : ~Separates(j),
           e < Len(text) => Separates(e + 1)
    PROVE  line[e + 1] = NUL
<1>1. /\ Len(text) \in Nat /\ p \in 1..(Len(text) + 1) /\ argv[k] \in 1..Len(text) /\ argv[k] < p
      /\ p = 1 \/ p = Len(text) + 1 \/ Separates(p - 1)
  BY DEF ParserInv, LineTypeOK, Listed, InPlace
<1>2. CASE e = Len(text)
  BY <1>2 DEF ParserInv, LineCut
<1>3. CASE e < Len(text)
  <2>1. e + 1 \in 1..Len(text) /\ (e + 1) - 1 = e /\ e + 1 > 1 /\ Separates(e + 1) /\ ~Separates(e)
    BY <1>1, <1>3
  <2>2. CASE p = Len(text) + 1
    BY <1>1, <2>1, <2>2 DEF ParserInv, LineCut
  <2>3. CASE Separates(p - 1)
    <3>1. ~(p - 1 \in argv[k]..e)
      BY <2>3
    <3>2. e + 1 < p
      BY <1>1, <3>1
    <3>3. QED
      BY <2>1, <3>2 DEF ParserInv, LineCut
  <2>4. QED
    BY <1>1, <2>2, <2>3
<1>4. QED
  BY <1>1, <1>2, <1>3

\* A piece without quotes consists of letters.
LEMMA PlainPiece ==
    ASSUME ParserInv, NEW i \in Starts, NEW e \in i..Len(text),
           \A j \in i..e : ~Separates(j) /\ text[j] # Quote
    PROVE  \A j \in i..e : text[j] \in Letters
<1>1. Len(text) \in Nat /\ text \in Seq(Chars) /\ i \in 1..Len(text) /\ (i > 1 => Separates(i - 1)) /\ Quote # Space
  BY LineFacts DEF Starts
<1>2. QuotesBefore(i) % 2 = 0
  <2>1. CASE i = 1
    BY <1>1, <2>1, CountQuotes
  <2>2. CASE i > 1
    <3>1. i - 1 \in 1..Len(text) /\ (i - 1) + 1 = i /\ text[i - 1] = Space /\ QuotesBefore(i - 1) % 2 = 0
      BY <1>1, <2>2 DEF Separates
    <3>2. QuotesBefore((i - 1) + 1) = QuotesBefore(i - 1)
      BY <1>1, <3>1, CountQuotes
    <3>3. QED
      BY <3>1, <3>2
  <2>3. QED
    BY <1>1, <2>1, <2>2
<1>3. ASSUME NEW j \in i..e
      PROVE  text[j] \in Letters
  <2>1. {m \in 1..(j - 1) : text[m] = Quote} = {m \in 1..(i - 1) : text[m] = Quote}
    <3>1. \A m \in 1..(j - 1) : m \in 1..(i - 1) \/ m \in i..e
      BY <1>1
    <3>2. 1..(i - 1) \subseteq 1..(j - 1)
      BY <1>1
    <3>3. QED
      BY <3>1, <3>2
  <2>2. QuotesBefore(j) % 2 = 0
    BY <1>2, <2>1 DEF QuotesBefore
  <2>3. text[j] # Space
    BY <2>2 DEF Separates
  <2>4. j \in 1..Len(text)
    BY <1>1
  <2>5. QED
    BY <2>3, <2>4, LineFacts
<1>4. QED
  BY <1>3

\* A part of a sequence.
LEMMA PartOf ==
    ASSUME NEW S, NEW s \in Seq(S), NEW a \in 1..Len(s), NEW b \in (a - 1)..Len(s)
    PROVE  /\ SubSeq(s, a, b) \in Seq(S) /\ Len(SubSeq(s, a, b)) = b - a + 1
           /\ \A c \in 1..(b - a + 1) : SubSeq(s, a, b)[c] = s[a + c - 1]
  OBVIOUS

\* A plain piece is handed over as it is.
LEMMA PlainArgument ==
    ASSUME ParserInv, pc = "done", NEW k \in 1..Len(argv),
           \A c \in 1..Len(PieceAt(argv[k])) : PieceAt(argv[k])[c] # Quote
    PROVE  StringAt(argv[k]) = PieceAt(argv[k])
<1> DEFINE i == argv[k]
<1>1. /\ i \in Starts /\ i \in 1..Len(text) /\ Len(text) \in Nat /\ text \in Seq(Chars)
      /\ line \in Seq(Chars \cup {NUL}) /\ Len(line) = Len(text) + 1 /\ NUL \notin Letters
  BY LineFacts DEF ParserInv, LineTypeOK, Listed
<1> HIDE DEF i
<1>2. PICK e \in i..Len(text) : /\ \A j \in i..e : ~Separates(j)
                                /\ e < Len(text) => Separates(e + 1)
                                /\ PieceAt(i) = SubSeq(text, i, e)
  BY <1>1, PieceEnds
<1>3. /\ PieceAt(i) \in Seq(Chars) /\ Len(PieceAt(i)) = e - i + 1
      /\ \A c \in 1..(e - i + 1) : PieceAt(i)[c] = text[i + c - 1]
  BY <1>1, <1>2, PartOf, SMTT(30)
<1>4. ASSUME NEW j \in i..e PROVE text[j] # Quote
  <2>1. j - i + 1 \in 1..(e - i + 1) /\ i + (j - i + 1) - 1 = j
    BY <1>1
  <2>2. QED
    BY <1>3, <2>1 DEF i
<1>5. \A j \in i..e : text[j] \in Letters
  BY <1>1, <1>2, <1>4, PlainPiece
<1>6. \A j \in i..e : line[j] = text[j] /\ line[j] # NUL
  BY <1>1, <1>5 DEF ParserInv, LineCut
<1>7. line[e + 1] = NUL
  BY <1>2, NulBehind DEF i
<1>8. PICK z \in i..(Len(text) + 1) : /\ line[z] = NUL /\ \A j \in i..(z - 1) : line[j] # NUL
                                      /\ StringAt(i) = SubSeq(line, i, z - 1)
  BY <1>1, StringEnds
<1>9. z = e + 1
  <2>1. ~(z \in i..e)
    BY <1>6, <1>8
  <2>2. ~(e + 1 \in i..(z - 1))
    BY <1>7, <1>8
  <2>3. QED
    BY <1>1, <2>1, <2>2
<1>10. /\ StringAt(i) \in Seq(Chars \cup {NUL}) /\ Len(StringAt(i)) = e - i + 1
       /\ \A c \in 1..(e - i + 1) : StringAt(i)[c] = line[i + c - 1]
  <2>1. StringAt(i) = SubSeq(line, i, e) /\ e \in (i - 1)..Len(line) /\ i \in 1..Len(line)
    BY <1>1, <1>8, <1>9
  <2>2. QED
    BY <1>1, <2>1, PartOf
<1>11. \A c \in 1..(e - i + 1) : i + c - 1 \in i..e
  BY <1>1
<1>12. PieceAt(i) \in Seq(Chars \cup {NUL})
  BY <1>3
<1>13. StringAt(i) = PieceAt(i)
  <2>1. \A c \in 1..(e - i + 1) : StringAt(i)[c] = PieceAt(i)[c]
    BY <1>3, <1>6, <1>10, <1>11
  <2>2. QED
    BY <1>3, <1>10, <1>12, <2>1, SeqEqual
<1>14. QED
  BY <1>13 DEF i

(***************************************************************************)
(* Every line, of any length and with any quotes, is split into the pieces *)
(* between unquoted blanks, in order, up to the limit of arguments; pieces *)
(* without quotes are handed over unchanged.                               *)
(***************************************************************************)
THEOREM LinesAreSplit == Spec => []SplitsIntoPieces
<1>1. ParserInv => SplitsIntoPieces
  <2>1. SUFFICES ASSUME ParserInv, pc = "done" PROVE SplitsIntoPieces
    BY DEF SplitsIntoPieces
  <2>2. ASSUME NEW i \in Starts
        PROVE  \/ \E k \in 1..Len(argv) : argv[k] = i
               \/ Len(argv) = MaxArgs /\ argv[MaxArgs] < i
    <3>1. CASE i < p
      BY <2>1, <3>1 DEF ParserInv, Listed
    <3>2. CASE ~(i < p)
      <4>1. i \in 1..Len(text) /\ Len(text) \in Nat /\ p \in 1..(Len(text) + 1) /\ MaxArgs \in Nat \ {0}
        BY <2>1, LineFacts DEF Starts
      <4>2. Len(argv) = MaxArgs
        BY <2>1, <3>2, <4>1 DEF ParserInv, InPlace
      <4>3. MaxArgs \in 1..Len(argv) /\ argv[MaxArgs] \in 1..Len(text)
        BY <2>1, <4>1, <4>2 DEF ParserInv, LineTypeOK
      <4>4. argv[MaxArgs] < p
        BY <2>1, <4>3 DEF ParserInv, Listed
      <4>5. QED
        BY <3>2, <4>1, <4>2, <4>3, <4>4
    <3>3. QED
      BY <3>1, <3>2
  <2>3. \A k \in 1..Len(argv) : argv[k] \in Starts /\ (k > 1 => argv[k - 1] < argv[k])
    BY <2>1 DEF ParserInv, Listed
  <2>4. QED
    BY <2>1, <2>2, <2>3, PlainArgument DEF SplitsIntoPieces
<1>2. QED
  BY <1>1, ParserInvHolds, PTL

\* The string of an argument ends before the next argument starts.
LEMMA ArgumentsApart ==
    ASSUME ParserInv, pc = "done", NEW k \in 1..Len(argv)
    PROVE  /\ Len(StringAt(argv[k])) \in Nat
           /\ argv[k] + Len(StringAt(argv[k])) =< Len(text) + 1
           /\ k < Len(argv) => argv[k] + Len(StringAt(argv[k])) + 1 =< argv[k + 1]
<1>1. /\ argv[k] \in Starts /\ argv[k] \in 1..Len(text) /\ Len(text) \in Nat /\ text \in Seq(Chars)
      /\ line \in Seq(Chars \cup {NUL}) /\ Len(line) = Len(text) + 1 /\ argv \in Seq(1..Len(text))
  BY DEF ParserInv, LineTypeOK, Listed
<1>2. PICK z \in argv[k]..(Len(text) + 1) :
         /\ line[z] = NUL /\ \A j \in argv[k]..(z - 1) : line[j] # NUL
         /\ StringAt(argv[k]) = SubSeq(line, argv[k], z - 1)
  BY <1>1, StringEnds
<1>3. Len(StringAt(argv[k])) = z - argv[k]
  <2>1. argv[k] \in 1..Len(line) /\ z - 1 \in (argv[k] - 1)..Len(line)
    BY <1>1
  <2>2. Len(SubSeq(line, argv[k], z - 1)) = (z - 1) - argv[k] + 1
    BY <1>1, <2>1, PartOf, SMTT(30)
  <2>3. QED
    BY <1>1, <1>2, <2>2
<1>4. ASSUME k < Len(argv)
      PROVE  z < argv[k + 1]
  <2>1. /\ k + 1 \in 1..Len(argv) /\ k + 1 > 1 /\ (k + 1) - 1 = k
    BY <1>1, <1>4
  <2>2. /\ argv[k + 1] \in Starts /\ argv[k + 1] \in 1..Len(text) /\ argv[k] < argv[k + 1]
    <3>1. \A m \in 1..Len(argv) : argv[m] \in Starts /\ (m > 1 => argv[m - 1] < argv[m])
      BY DEF ParserInv, Listed
    <3>2. argv[k + 1] \in Starts /\ argv[(k + 1) - 1] < argv[k + 1]
      BY <2>1, <3>1
    <3>3. argv[k + 1] \in 1..Len(text)
      BY <1>1, <2>1
    <3>4. QED
      BY <2>1, <3>2, <3>3
  <2>3. Separates(argv[k + 1] - 1)
    BY <1>1, <2>2 DEF Starts
  <2>4. PICK e \in argv[k]..Len(text) : /\ \A j \in argv[k]..e : ~Separates(j)
                                        /\ e < Len(text) => Separates(e + 1)
    BY <1>1, PieceEnds
  <2>5. ~(argv[k + 1] - 1 \in argv[k]..e)
    BY <2>3, <2>4
  <2>6. e + 1 < argv[k + 1]
    BY <1>1, <2>2, <2>5, SMTT(30)
  <2>7. line[e + 1] = NUL
    BY <2>4, NulBehind
  <2>8. ~(e + 1 \in argv[k]..(z - 1))
    BY <1>2, <2>7
  <2>9. QED
    BY <1>1, <2>2, <2>6, <2>8
<1>5. k < Len(argv) => argv[k + 1] \in Int
  BY <1>1
<1>6. QED
  BY <1>1, <1>3, <1>4, <1>5, SMTT(30)

\* Joined, the arguments from the second on are shorter than the line.
LEMMA JoinedShorter ==
    ASSUME ParserInv, pc = "done", Len(argv) >= 2
    PROVE  JoinedLength(2) \in Nat /\ JoinedLength(2) + 1 =< Len(text)
<1> DEFINE L == Len(argv)
           upTo[k \in (2 - 1)..L] ==
             IF k < 2 THEN 0 ELSE upTo[k - 1] + Len(StringAt(argv[k])) + 1
           F == [k \in (1 + 1)..L |-> [s \in Int |-> s + Len(StringAt(argv[k])) + 1]]
<1>1. /\ L \in Nat /\ L >= 2 /\ Len(text) \in Nat /\ argv \in Seq(1..Len(text))
      /\ \A k \in 1..L : argv[k] \in 1..Len(text)
  BY DEF ParserInv, LineTypeOK
<1>2. \A k \in 1..L : Len(StringAt(argv[k])) \in Nat
  BY ArgumentsApart
<1>3. JoinedLength(2) = upTo[L]
  BY DEF JoinedLength
<1>4. PICK f \in [1..L -> Int] : IteratesFrom(f, 0, F, 1, L)
  <2>1. F \in [(1 + 1)..L -> [Int -> Int]]
    BY <1>1, <1>2
  <2>2. L \in Int /\ 1 =< L /\ 1 \in Int /\ 0 \in Int
    BY <1>1
  <2> HIDE DEF F, L
  <2>3. QED
    BY <2>1, <2>2, IntervalRecursion
<1>5. ASSUME NEW n \in (2 - 1)..L
      PROVE  f[n] = IF n < 2 THEN 0 ELSE f[n - 1] + Len(StringAt(argv[n])) + 1
  <2>1. CASE n < 2
    BY <1>4, <2>1 DEF IteratesFrom
  <2>2. CASE ~(n < 2)
    <3>1. n \in (1 + 1)..L /\ n - 1 \in 1..L
      BY <1>1, <2>2
    <3>2. f[n - 1] \in Int /\ f[n] = F[n][f[n - 1]]
      BY <1>4, <3>1 DEF IteratesFrom
    <3>3. QED
      BY <2>2, <3>1, <3>2
  <2>3. QED
    BY <2>1, <2>2
<1>6. f = [k \in (2 - 1)..L |-> IF k < 2 THEN 0 ELSE f[k - 1] + Len(StringAt(argv[k])) + 1]
  BY <1>5
<1>7. upTo = [k \in (2 - 1)..L |-> IF k < 2 THEN 0 ELSE upTo[k - 1] + Len(StringAt(argv[k])) + 1]
  BY <1>6, Zenon
<1> HIDE DEF upTo, F
<1>8. \A k \in 1..L : upTo[k] = IF k < 2 THEN 0 ELSE upTo[k - 1] + Len(StringAt(argv[k])) + 1
  BY <1>7, SMTT(30)
<1> DEFINE S == {k \in 2..L : /\ upTo[k] \in Nat
                              /\ upTo[k] =< argv[k] + Len(StringAt(argv[k])) + 1 - argv[2]}
<1>9. 2 \in S
  <2>1. upTo[1] = 0 /\ upTo[2] = upTo[1] + Len(StringAt(argv[2])) + 1
    BY <1>1, <1>8
  <2>2. QED
    BY <1>1, <1>2, <2>1
<1>10. ASSUME NEW n \in 2..(L - 1), n \in S
       PROVE  n + 1 \in S
  <2>1. n \in 1..L /\ n < L /\ n + 1 \in 1..L /\ ~(n + 1 < 2) /\ (n + 1) - 1 = n
    BY <1>1
  <2>2. upTo[n + 1] = upTo[n] + Len(StringAt(argv[n + 1])) + 1
    BY <1>8, <2>1
  <2>3. argv[n] + Len(StringAt(argv[n])) + 1 =< argv[n + 1]
    BY <2>1, ArgumentsApart
  <2>4. /\ argv[n] \in Nat /\ argv[n + 1] \in Nat /\ argv[2] \in Nat
        /\ Len(StringAt(argv[n])) \in Nat /\ Len(StringAt(argv[n + 1])) \in Nat
    BY <1>1, <1>2, <2>1, SMTT(30)
  <2>5. upTo[n] \in Nat /\ upTo[n] =< argv[n] + Len(StringAt(argv[n])) + 1 - argv[2]
    BY <1>10
  <2>6. upTo[n + 1] \in Nat /\ upTo[n + 1] =< argv[n + 1] + Len(StringAt(argv[n + 1])) + 1 - argv[2]
    <3> DEFINE l == Len(StringAt(argv[n]))
               m == Len(StringAt(argv[n + 1]))
    <3>1. /\ upTo[n + 1] = upTo[n] + m + 1 /\ argv[n] + l + 1 =< argv[n + 1] /\ l \in Nat /\ m \in Nat
          /\ upTo[n] =< argv[n] + l + 1 - argv[2]
      BY <2>2, <2>3, <2>4, <2>5
    <3> HIDE DEF l, m
    <3>2. upTo[n + 1] \in Nat /\ upTo[n + 1] =< argv[n + 1] + m + 1 - argv[2]
      <4> DEFINE u == upTo[n]
                 v == upTo[n + 1]
                 a == argv[n]
                 b == argv[n + 1]
                 c == argv[2]
      <4>1. /\ v = u + m + 1 /\ a + l + 1 =< b /\ u =< a + l + 1 - c
            /\ u \in Nat /\ a \in Nat /\ b \in Nat /\ c \in Nat /\ l \in Nat /\ m \in Nat
        BY <2>4, <2>5, <3>1
      <4> HIDE DEF u, v, a, b, c
      <4>2. v \in Nat /\ v =< b + m + 1 - c
        BY ONLY <4>1
      <4>3. QED
        BY <4>2 DEF v, b, c
    <3>3. QED
      BY <3>2 DEF m
  <2>7. n + 1 \in 2..L
    BY <1>1
  <2>8. QED
    BY <2>6, <2>7
<1>11. L \in S
  <2>1. 2 \in Int /\ L \in Int /\ L \in 2..L
    BY <1>1
  <2> HIDE DEF S, L
  <2>2. \A n \in 2..L : n \in S
    BY <1>9, <1>10, <2>1, IntervalInduction, Zenon
  <2>3. QED
    BY <2>1, <2>2
<1>12. argv[L] + Len(StringAt(argv[L])) =< Len(text) + 1
  BY <1>1, ArgumentsApart
<1>13. argv[2] >= 3
  <2>1. argv[1] + Len(StringAt(argv[1])) + 1 =< argv[2] /\ Len(StringAt(argv[1])) \in Nat
    BY <1>1, ArgumentsApart
  <2>2. argv[1] < argv[2] /\ argv[2] \in Starts
    BY <1>1 DEF ParserInv, Listed
  <2>3. argv[1] \in Starts /\ argv[1] \in 1..Len(text) /\ argv[2] \in 1..Len(text)
    BY <1>1 DEF ParserInv, Listed
  <2>4. Separates(argv[2] - 1) /\ ~Separates(argv[1])
    BY <2>2, <2>3 DEF Starts
  <2>5. argv[1] # argv[2] - 1
    BY <2>4
  <2>6. QED
    BY <2>2, <2>3, <2>5
<1>14. QED
  BY <1>1, <1>2, <1>3, <1>11, <1>12, <1>13, SMTT(30)

(***************************************************************************)
(* On every line, however long and quoted, the arguments that jarvis,      *)
(* learn and search join take no more bytes with their NUL than the line   *)
(* had characters.  A line that is longer than the buffer they are joined  *)
(* in may overflow it.                                                     *)
(***************************************************************************)
THEOREM JoinedArgumentsInLine == Spec => []JoinedInLine
<1>1. ParserInv => JoinedInLine
  BY JoinedShorter DEF JoinedInLine
<1>2. QED
  BY <1>1, ParserInvHolds, PTL
=============================================================================
