SPECIFICATION InterpreterSpec
CONSTANTS
    Parts = {"expr", "maintain", "keys", "tables"}
    h = h
    b = b
    prog1 = prog1
    prog2 = prog2
    Empty = Empty
    Absent = Absent
    None = None
    Nobody = Nobody
    Literals <- MCLiterals
    Alphabets <- MCAlphabets
    MaxToks = 5
    Statements <- MCStatements
    Tests <- MCTests
    Bits = 8
    MaxStr = 8
    Width = 3
    Left <- MCLeft
    Bound = 20
    Steps = 4
INVARIANTS  FormsRight KeysRight 
 
CONSTRAINT Worth
SYMMETRY Both2
CHECK_DEADLOCK FALSE
