\* The volume of a temporary table: one process, pages given back by
\* _sparetree(), a SpareList that starts full, and a signal that the process
\* puts off while it updates.  It ends when the process does.
SPECIFICATION Spec
CONSTANTS
    p1 = p1
    p2 = p2
    orders = orders
    locksT = locksT
    Proc = {p1}
    Table = {locksT}
    LockTable = locksT
    None = None
    MaxPage = 7
    ByteBits = 4
    SlabBytes = 1
    NSpare = 2
    SpareCap = 2
    List1Cap = 2
    List2Cap = 2
    SystemPages = {0, 1}
    FirstTree <- NoTree
    FirstSpare = {2, 3}
    Private = TRUE
    Bracketed = TRUE
    MaxKills = 0
    MaxSignals = 1
CHECK_DEADLOCK FALSE
PROPERTIES
    VolumeSpec
