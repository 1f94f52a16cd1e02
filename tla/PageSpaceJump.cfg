\* A signal interrupts an update: HANGUP has its initial value, 1.
SPECIFICATION Spec
CONSTANTS
    p1 = p1
    p2 = p2
    orders = orders
    locksT = locksT
    Proc = {p1, p2}
    Table = {orders, locksT}
    LockTable = locksT
    None = None
    MaxPage = 5
    ByteBits = 4
    SlabBytes = 1
    NSpare = 1
    SpareCap = 1
    List1Cap = 2
    List2Cap = 2
    SystemPages = {0}
    FirstTree <- MCTree
    FirstSpare = {}
    Private = FALSE
    Bracketed = FALSE
    MaxKills = 0
    MaxSignals = 1
INVARIANTS
    FreesOnlyUnused
