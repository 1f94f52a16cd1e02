\* get with lock: the answer is that of the read before the lock.
SPECIFICATION Spec
CONSTANTS
    p1 = p1
    p2 = p2
    orders1 = orders1
    orders2 = orders2
    k1 = k1
    v1 = v1
    v2 = v2
    Absent = Absent
    NoProcess = NoProcess
    Process = {p1, p2}
    Table = {orders1, orders2}
    Owner <- TwoOwner
    Record = {1}
    RecordsOf <- OneRecord
    LockOf <- OneLockOf
    Lock = {k1}
    Value = {v1}
    GetModes = {"lock"}
    NextModes = {"lock"}
    Disciplined = TRUE
    Bounded = FALSE
    Calls = 1
    First <- AnyFirst
    Signals = FALSE
    Kills = 0
INVARIANTS
    LoadedMeansStored
