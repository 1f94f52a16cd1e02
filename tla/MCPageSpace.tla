---------------------------- MODULE MCPageSpace ----------------------------
(* PageSpace on a volume of one-digit size: a bitmap of two or three bytes *)
(* of a few bits, read one byte at a time.                                 *)
EXTENDS PageSpace, TLC

CONSTANTS p1, p2, orders, locksT

MCTree == [t \in Table |-> IF t = LockTable THEN {2} ELSE {1}]
NoTree == [t \in Table |-> {}]
Symmetry == Permutations(Proc)

(* Nobody waits for ever for the bitmap or a table: every update of a table     *)
(* comes to its end, and so does the giving back of pages when a program ends   *)
(* (balanc.c, captur.c, mkfree.c, dbclos.c).                                    *)
WorkEnds == UpdatesEnd /\ ClosesEnd
=============================================================================
