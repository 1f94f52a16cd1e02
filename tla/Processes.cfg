SPECIFICATION FairProcessesSpec
CONSTANTS
    Parts = {"fork", "files", "waits"}
    Page = {1, 2}
    Db = {1, 2}
    DbOf <- MCDbOf
    Lock = {1}
    LockDb <- MCLockDb
    First = {1}
    Nobody = Nobody
    Signals = TRUE
INVARIANTS Exclusive HandedOver 
PROPERTIES WaitsEnd
CHECK_DEADLOCK FALSE
