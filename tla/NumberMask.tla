---- MODULE NumberMask ----
(***************************************************************************)
(* A number shown through a mask (oformat.c): what the mask says about the *)
(* sign, the places and the decimals, and the walk of form() along the     *)
(* mask and the digits.  Numbers are whole hundredths; a mask is a         *)
(* sequence of characters.                                                 *)
(***************************************************************************)
EXTENDS Integers, Sequences, FiniteSets

CONSTANTS Masks,      \* the masks
          Numbers     \* the numbers, in hundredths

VARIABLES mask, number,
          shown        \* the text nfmt() makes, << >> before the call

vars == <<mask, number, shown>>

Digit == <<"1", "2", "3", "4", "5", "6", "7", "8", "9">>
DigitOf(n) == IF n = 0 THEN "0" ELSE Digit[n]
IsDigit(c) == \E n \in 0..9 : DigitOf(n) = c
Valued(c) == CHOOSE n \in 0..9 : DigitOf(n) = c
Signs == {"(", "+", "-", "<"}
Points == {".", "V", "v"}
Virtual == {"V", "v"}
Credit == {"C", "c", "D", "d"}
Places == {"#", "&", "9", "Z", "z"}
At(m, k) == IF k \in DOMAIN m THEN m[k] ELSE ""
Last(m) == m[Len(m)]
Spaces(n) == [k \in 1..n |-> " "]

----------------------------------------------------------------------------
\* What the mask says

\* issign(): a sign in front, doubled when it floats; a sign or a credit mark at the
\* end; a character that is no mask character, twice in front, is the currency, and
\* stands as "$" in the mask from there on.
Currency(m) == /\ Len(m) > 1 /\ m[1] = m[2]
               /\ m[1] \notin Signs \cup Points \cup Places \cup Credit \cup {"*"}
Leads(m)    == m[1] \in Signs
Floats(m)   == (Leads(m) /\ At(m, 2) = m[1]) \/ Currency(m)
HasMoney(m) == Currency(m) \/ \E k \in DOMAIN m : m[k] = "$"
Trails(m)   == \/ Last(m) \in {"+", "-"} /\ ~Leads(m)
               \/ Last(m) \in Credit
Signed(m)   == Leads(m) \/ Trails(m)

\* getdlen(): the characters the number gets: those of the mask that can hold a
\* digit or the point, but for a sign and the currency.
Counted == Places \cup Points \cup {"$", "(", "*", "+", "-", "<"}
Body(m) == IF Currency(m) THEN [k \in DOMAIN m |-> IF m[k] = m[1] THEN "$" ELSE m[k]] ELSE m
NumLen(m) == LET n == Cardinality({k \in DOMAIN m : Body(m)[k] \in Counted})
                 s == IF Signed(m) /\ Last(m) \notin Credit THEN 1 ELSE 0
             IN  n - s - (IF HasMoney(m) THEN 1 ELSE 0)

\* getdp(): the places behind the first point.
Decimals(m) ==
  LET p == {k \in DOMAIN m : m[k] \in Points}
  IN  IF p = {} THEN 0
      ELSE LET first == CHOOSE k \in p : \A j \in p : k <= j
           IN  Cardinality({k \in DOMAIN m : k > first /\ m[k] \in Places})

\* "%*.*f": the number without its sign, rounded to the decimals, at least one
\* digit before the point, filled with blanks on the left.  A mask with decimals
\* leaves zero out.
Pow(n) == IF n = 0 THEN 1 ELSE IF n = 1 THEN 10 ELSE 100
Abs(x) == IF x < 0 THEN -x ELSE x
Rounded(x, dp) == LET u == Pow(2 - dp) IN (Abs(x) + u \div 2) \div u
RECURSIVE Written(_, _)
Written(n, least) == IF n = 0 /\ least <= 0 THEN <<>> ELSE Append(Written(n \div 10, least - 1), DigitOf(n % 10))
Text(x, dp) == LET d == Written(Rounded(x, dp), dp + 1)
               IN  IF dp = 0 THEN d
                   ELSE SubSeq(d, 1, Len(d) - dp) \o <<".">> \o SubSeq(d, Len(d) - dp + 1, Len(d))
NumBuff(x, m) ==
  LET dp == Decimals(m)
      t  == Text(x, dp)
  IN  IF dp # 0 /\ x = 0 THEN Spaces(NumLen(m))
      ELSE IF Len(t) >= NumLen(m) THEN t ELSE Spaces(NumLen(m) - Len(t)) \o t

\* form(): the first zero of the number becomes a blank.
Suppressed(t) ==
  LET k == CHOOSE k \in 1..Len(t) + 1 : (k <= Len(t) => t[k] # " ") /\ \A j \in 1..k - 1 : t[j] = " "
  IN  IF At(t, k) = "0" THEN [t EXCEPT ![k] = " "] ELSE t

----------------------------------------------------------------------------
\* The walk of form(): the text so far, the place in the digits, whether the sign
\* is still to come and the currency has been shown.

Prev(w) == IF w.text = <<>> THEN "" ELSE Last(w.text)
Put(w, c) == [w EXCEPT !.text = Append(@, c)]
Ate(w, n) == [w EXCEPT !.src = @ + n]
\* What floats moves one place to the right, a blank takes its place.
Moved(w) == LET n == Len(w.text)
            IN  IF n = 0 THEN Put(w, "") ELSE [w EXCEPT !.text = Append([@ EXCEPT ![n] = " "], @[n])]

\* A comma is shown behind a digit; before, it is one more place for what fills or
\* floats, and with a floating sign and a currency both move.
Comma(w, floats) ==
  LET n == Len(w.text)
  IN  CASE IsDigit(Prev(w)) -> Put(w, ",")
        [] Prev(w) = "*" -> Put(w, "*")
        [] ~IsDigit(Prev(w)) /\ Prev(w) # "*" /\ floats ->
             IF n < 2 THEN Moved(w)
             ELSE [w EXCEPT !.text = SubSeq(@, 1, n - 2) \o <<" ", @[n - 1], @[n]>>]
        [] OTHER -> IF Prev(w) = " " THEN Put(w, " ") ELSE Moved(w)

Point(w, d, next) ==
  CASE IsDigit(Prev(w)) \/ next \in {"&", "9"} -> Ate(Put(w, "."), 1)
    [] ~(IsDigit(Prev(w)) \/ next \in {"&", "9"}) /\ d # " " -> Ate(Put(w, d), 1)
    [] OTHER -> Ate(IF Prev(w) = "*" THEN Put(w, "*") ELSE Moved(w), 1)

SignShown(c, negative) == IF ~negative THEN " " ELSE IF c = "+" THEN "-" ELSE c

\* A sign of the mask: one that floats is a place for a digit too, and with a
\* currency the first digit waits until that is shown.
Sign(w, c, d, negative, m, money) ==
  CASE ~Floats(m) -> Put(w, SignShown(c, negative))
    [] Floats(m) /\ w.sign -> [Put(w, SignShown(c, negative)) EXCEPT !.sign = FALSE]
    [] Floats(m) /\ ~w.sign /\ d = " " -> Ate(Moved(w), 1)
    [] OTHER -> IF HasMoney(m) /\ ~w.money THEN [Put(w, money) EXCEPT !.money = TRUE] ELSE Ate(Put(w, d), 1)

Money(w, d, money) ==
  CASE ~w.money -> [Put(w, money) EXCEPT !.money = TRUE]
    [] w.money /\ d # " " -> Ate(Put(w, d), 1)
    [] OTHER -> Ate(IF Prev(w) = money THEN Moved(w) ELSE Put(w, " "), 1)

Marked(w, c, negative) ==
  LET second == IF c \in {"C", "D"} THEN (IF c = "C" THEN "R" ELSE "B") ELSE IF c = "c" THEN "r" ELSE "b"
  IN  IF negative THEN Put(Put(w, c), second) ELSE Put(Put(w, " "), " ")

\* One character of the mask.
Walk(w, m, k, buff, negative) ==
  LET c == Body(m)[k]
      d == At(buff, w.src)
      money == IF Currency(m) THEN m[1] ELSE "$"
  IN  CASE c = "," -> Comma(w, Floats(m) \/ HasMoney(m))
        [] c \in Virtual -> Ate(w, 1)
        [] c = "." -> Point(w, d, At(m, k + 1))
        [] c \in {"&", "9"} -> Ate(Put(w, IF d = " " THEN "0" ELSE d), 1)
        [] c \in Signs -> Sign(w, c, d, negative, m, money)
        [] c \in {"#", "Z", "z"} -> Ate(Put(w, d), 1)
        [] c = "$" -> Money(w, d, money)
        [] c = "*" -> Ate(Put(w, IF d = " " THEN "*" ELSE d), 1)
        [] c \in {")", ">"} -> Put(w, IF negative THEN c ELSE " ")
        [] c \in Credit -> Marked(w, c, negative)
        [] c = "_" -> Put(w, " ")
        [] OTHER -> Put(w, c)

form(m, buff, negative) ==
  LET f[k \in 0..Len(m)] ==
        IF k = 0 THEN [text |-> <<>>, src |-> 1, sign |-> Floats(m), money |-> FALSE]
        ELSE Walk(f[k - 1], m, k, Suppressed(buff), negative)
  IN  f[Len(m)].text

\* The places of a mask: question marks stand for a number that does not fit it, or
\* a negative one it has no sign for.
Wide(m) == IF \E k \in DOMAIN m : m[k] \in Virtual THEN Len(m) - 1
           ELSE IF Last(m) \in Credit THEN Len(m) + 1 ELSE Len(m)
Unshown(m) == [k \in 1..Wide(m) |-> "?"]

Fits(x, m) == Len(NumBuff(x, m)) <= NumLen(m) /\ (x < 0 => Signed(m))

nfmt(x, m) == IF Fits(x, m) THEN form(m, NumBuff(x, m), x < 0) ELSE Unshown(m)

Init == mask \in Masks /\ number \in Numbers /\ shown = <<>>
Show == shown = <<>> /\ shown' = nfmt(number, mask) /\ UNCHANGED <<mask, number>>
Next == Show
Spec == Init /\ [][Next]_vars

----------------------------------------------------------------------------
\* Properties

Told == shown # <<>> /\ shown # Unshown(mask)

\* The digits of the text are those of the number: none lost, none doubled, none
\* out of its place, whatever floats, fills or separates.
ReadAs(t) == LET f[k \in 0..Len(t)] == IF k = 0 THEN 0
                                       ELSE IF IsDigit(t[k]) THEN 10 * f[k - 1] + Valued(t[k]) ELSE f[k - 1]
             IN  f[Len(t)]
DigitsKept == Told => ReadAs(shown) = Rounded(number, Decimals(mask))

\* A negative number, and no other, carries its mark.
Marks == {"(", ")", "-", "<", ">"} \cup Credit
SignKept == Told => ((number < 0) <=> \E k \in DOMAIN shown : shown[k] \in Marks)
====
