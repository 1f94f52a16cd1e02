\* Two processes share a volume of two tables; one of them may be killed at
\* any step.
SPECIFICATION Spec
CONSTANTS
    p1 = p1
    p2 = p2
    orders = orders
    locksT = locksT
    Proc = {p1, p2}
    Table = {orders, locksT}
    LockTable = locksT
    None = None
    MaxPage = 5
    ByteBits = 4
    SlabBytes = 1
    NSpare = 1
    SpareCap = 1
    List1Cap = 1
    List2Cap = 1
    SystemPages = {0}
    FirstTree <- MCTree
    FirstSpare = {}
    Private = FALSE
    Bracketed = FALSE
    MaxKills = 1
    MaxSignals = 0
SYMMETRY Symmetry
INVARIANTS
    Exclusive
    Conserved
    ListsFit
    
PROPERTIES
    VolumeSpec
