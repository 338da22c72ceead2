CONSTANTS
    p1 = p1
    p2 = p2
    p3 = p3
    Pids = {p1, p2}
    MAX_PT_ENTRIES = 2
    LINE_LENGTH = 15
    MAX_ARGS = 6
    MAX_LENGTH = 3
    Numbers <- MCNumbers
    Characters <- MCCharacters
    Commands <- MCCommands
    MaxBlanks = 2
    OtherTexts <- MCOtherTexts
SPECIFICATION Spec
PROPERTIES
    TableUpdated
CHECK_DEADLOCK FALSE
