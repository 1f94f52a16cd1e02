--------------------------- MODULE MCRecordLock ---------------------------
(* RecordLock with two programs that share a table of one record. *)
EXTENDS RecordLock, TLC

CONSTANTS p1, p2, orders1, orders2, k1, v1, v2

TwoOwner == orders1 :> p1 @@ orders2 :> p2
OneRecord == orders1 :> {1} @@ orders2 :> {1}
OneLockOf == 1 :> k1

AnyFirst == [Record -> Value \cup {Absent}]
Symmetry == Permutations(Value)
=============================================================================
