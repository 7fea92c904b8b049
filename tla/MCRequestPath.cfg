SPECIFICATION Spec
CONSTANTS
    Characters <- MCCharacters
    Depth = 3
    Values <- MCValues
    Action <- MCAction
INVARIANTS
    ReadAsMeant
    CutIsConfined
CHECK_DEADLOCK FALSE
