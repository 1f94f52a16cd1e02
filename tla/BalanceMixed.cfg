CONSTANTS
    Width = 10
    KeySize = 2
    CutSize = 1
    CutKeys = TRUE
    PgSize = 24
    HalfPage = 12
    LeafBase = 2
    LeafOvh = 2
    IndexBase = 6
    IndexOvh = 3
    FreshOvh = 4
    Key = {11, 12, 21, 22, 31, 32}
    RecSize = {4, 18}
    KeepRoot = FALSE
    RecPlus = 42
    MaxDepth = 3
    MaxPage = 16
SPECIFICATION Spec
INVARIANTS Committed TreeRight WrittenFits
PROPERTIES StoreSpec Accounted
VIEW View
