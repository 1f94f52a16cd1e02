SPECIFICATION FairCompilerSpec
CONSTANTS
    Parts = {"program", "lexer", "enc"}
    Texts <- MCTexts
    Program <- Programs
    Forms <- Flags
    Loads = 2
    Ticks = 2
INVARIANTS ReadsSource Accepts 
PROPERTIES AsWritten Fresh 
CHECK_DEADLOCK FALSE
