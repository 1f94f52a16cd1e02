\* Two processes update one table, under fair locks and without signals.  An
\* update that needs one page leaves the other for the close to give back.
SPECIFICATION FairSpec
CONSTANTS
    p1 = p1
    p2 = p2
    orders = orders
    locksT = locksT
    Proc = {p1, p2}
    Table = {locksT}
    LockTable = locksT
    None = None
    MaxPage = 4
    ByteBits = 3
    SlabBytes = 1
    NSpare = 2
    SpareCap = 2
    List1Cap = 1
    List2Cap = 1
    SystemPages = {0}
    FirstTree <- MCTree
    FirstSpare = {}
    Private = FALSE
    Bracketed = FALSE
    MaxKills = 0
    MaxSignals = 0
PROPERTIES
    WorkEnds
