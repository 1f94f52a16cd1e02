SPECIFICATION FairTerminalSpec
CONSTANTS
    Parts = {"keys", "edit", "masks", "dates", "texts", "print"}
    Files <- MCFiles
    Typed <- MCTyped
    MaxTyped = 4
    StackSize = 6
INVARIANTS AsMeant  Written
PROPERTIES  CivilSpec
CHECK_DEADLOCK FALSE
