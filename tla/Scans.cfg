\* Three keys in two levels of index pages, one update of another program;
\* seven records sorted.
SPECIFICATION FairScansSpec
CONSTANTS
    Parts = {"cursor", "sort"}
    Key <- MCKey
    Where <- MCWhere
    NoExpr <- MCNoExpr
    MaxLevel = 2
    Updates = 1
INVARIANTS GivenRight 
PROPERTIES Orderly NoneMissed CallsEnd
CHECK_DEADLOCK FALSE
