------------------------------- MODULE MCScans -------------------------------
(* The cursor of a select, and the table that a select with an order is       *)
(* sorted in.  A heap of two or three records and three runs to a merge: seven *)
(* records make enough runs for a level to be merged while records are loaded. *)
EXTENDS Cursor

CONSTANT Parts   \* the parts that are looked at

VARIABLES part,    \* the part this behaviour is about; the others stand still
          sortPhase, sortUnique, sortSa, sortTable, sortRl, sortFresh, sortLoaded, sortGot, sortWay, sortDone

Sort == INSTANCE TempSort WITH
    Keys <- {1, 2}, Slots <- {2, 3}, Room <- 4, Fan <- 3, LeafMax <- 2, MaxLoads <- 7,
    MaxReads <- 8, phase <- sortPhase, unique <- sortUnique, sa <- sortSa, table <- sortTable,
    rl <- sortRl, fresh <- sortFresh, loaded <- sortLoaded, got <- sortGot, way <- sortWay,
    done <- sortDone
ASSUME Sort!Sizes

----------------------------------------------------------------------------
(* Instances *)
MCKey == {<<1, 1>>, <<1, 2>>, <<2, 2>>}
MCNoExpr == [join |-> "none"]
Cmp(f, op, v) == [join |-> "cmp", field |-> f, op |-> op, value |-> v]
Or(x, y) == [join |-> "or", one |-> x, other |-> y]
High == Cmp(1, AtLeast, 2)
Second == Cmp(2, {"="}, 2)
MCWhere == {MCNoExpr, Second, High, Or(High, Second)}

----------------------------------------------------------------------------
sortVars == <<sortPhase, sortUnique, sortSa, sortTable, sortRl, sortFresh, sortLoaded, sortGot, sortWay, sortDone>>
allVars == <<part, vars, sortVars>>

CursorOff == Init /\ tree = Empty /\ expr = NoExpr
SortOff == /\ sortPhase = 0 /\ sortUnique = 0 /\ sortSa = 0 /\ sortTable = 0 /\ sortRl = 0
           /\ sortFresh = 0 /\ sortLoaded = 0 /\ sortGot = 0 /\ sortWay = 0 /\ sortDone = 0

ScansInit ==
    /\ part \in Parts
    /\ IF part = "cursor" THEN Init ELSE CursorOff
    /\ IF part = "sort" THEN Sort!Init ELSE SortOff

CursorStep == /\ part = "cursor" /\ Next
              /\ UNCHANGED <<part, sortVars>>
SortStep == /\ part = "sort" /\ Sort!Next
            /\ UNCHANGED <<part, vars>>
ScansNext == CursorStep \/ SortStep
ScansSpec == ScansInit /\ [][ScansNext]_allVars
FairScansSpec ==
    /\ ScansSpec
    /\ WF_allVars(part = "cursor" /\ Step /\ UNCHANGED <<part, sortVars>>)

----------------------------------------------------------------------------
(* Properties *)
(* The runs are sorted, no record is lost or held twice, the arrays hold the  *)
(* runs, and reading backwards gives every record (sallocbuf.c, sflush.c,     *)
(* merge.c, dfetch.c).                                                        *)
Sorted == part = "sort" => /\ Sort!RunsSorted /\ Sort!NoneLost /\ Sort!RunsOnce
                           /\ Sort!ArraysFit /\ Sort!BackwardsAll
==============================================================================
