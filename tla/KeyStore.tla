------------------------------ MODULE KeyStore ------------------------------
(***************************************************************************)
(* What a table promises to a program that updates it: a record for each   *)
(* key at most, and updates that happen at once or not at all.             *)
(***************************************************************************)
EXTENDS Naturals

CONSTANTS Key, RecSize

VARIABLE recs  \* the size of the record of each key, 0 when there is none

Init == recs = [k \in Key |-> 0]

Put(k, s) == recs' = [recs EXCEPT ![k] = s]
Delete(k) == recs' = [recs EXCEPT ![k] = 0]

Next == \E k \in Key : Delete(k) \/ \E s \in RecSize : Put(k, s)

Spec == Init /\ [][Next]_recs
=============================================================================
