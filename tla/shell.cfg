SPECIFICATION Spec
CONSTANTS
    Characters <- MCCharacters
    Concepts <- MCConcepts
    Lower <- MCLower
    Field = 2
    DefField = 3
    Tails <- MCTails
    Capacity = 2
    Words <- MCWords
    Letters = {"a"}
    MaxLen = 7
    MaxArgs = 3
    NULL = NULL
INVARIANTS ColoursKept AnswersWritten ShortConceptsFound SplitsIntoPieces JoinedInLine
PROPERTIES AnswersStable Terminates
CHECK_DEADLOCK FALSE
