----------------------------- MODULE Gregorian -----------------------------
(***************************************************************************)
(* What a day number stands for: the days of the Gregorian calendar, one   *)
(* after the other.                                                        *)
(***************************************************************************)
EXTENDS Integers
CONSTANT Starts             \* days the count may start with
VARIABLE date               \* <<day, month, year>>

Leap(y) == (y % 4 = 0 /\ y % 100 # 0) \/ y % 400 = 0
Length(m, y) == IF m = 2 THEN (IF Leap(y) THEN 29 ELSE 28)
                ELSE IF m \in {4, 6, 9, 11} THEN 30 ELSE 31
Follow(d) == IF d[1] < Length(d[2], d[3]) THEN <<d[1] + 1, d[2], d[3]>>
             ELSE IF d[2] < 12 THEN <<1, d[2] + 1, d[3]>> ELSE <<1, 1, d[3] + 1>>
Init == date \in Starts
Next == date' = Follow(date)
Spec == Init /\ [][Next]_date
=============================================================================
