------------------------------ MODULE Calendar ------------------------------
(***************************************************************************)
(* Dates and times: a date is a number of days, a time a number of hours   *)
(* with seven decimals, here in units of 10^-7 hours.                      *)
(*                                                                         *)
(* A text is a sequence of parts: a number with the digits it is written   *)
(* with, [n |-> 7, w |-> 2], or the name of a month, [month |-> 7].  The   *)
(* separators between them are left out, as every character that is no     *)
(* letter and no digit separates.  A mask is a sequence of runs of one     *)
(* letter, [c |-> "m", k |-> 2], and of characters that stand for          *)
(* themselves, [c |-> "-", k |-> 1].                                       *)
(***************************************************************************)
EXTENDS Integers, Sequences, FiniteSets

CONSTANTS Spans,            \* the years that are gone through, as <<first, last>>
          FromYear, ToYear, \* _YD: the years that two digits may mean
          Moments           \* the times that are written and read

VARIABLES today,            \* the day number of the system's date
          form,             \* _DF: 0 day first, 1 month first, 2 year first
          clock             \* a time that is written and read: <<h, m, s, ms>>

vars == <<today, form, clock>>
Forms == 0..2

--------------------------------------------------------------------------
(* Day numbers *)

LeapYear(y) == (y % 4 = 0 /\ y % 100 # 0) \/ y % 400 = 0
day_tab(m, y) == IF m = 2 THEN (IF LeapYear(y) THEN 29 ELSE 28)
                 ELSE IF m \in {4, 6, 9, 11} THEN 30 ELSE 31
\* the last lines of clgetdate and of arrdays
Julian(d, m, y) ==
    IF m > 2 THEN d + (153 * (m + 1)) \div 5 + (1461 * y) \div 4
    ELSE d + (153 * (m + 13)) \div 5 + (1461 * (y - 1)) \div 4
Fudge(m, y) == IF y > 2100 \/ (y = 2100 /\ m > 2) THEN 444
               ELSE IF y > 1900 \/ (y = 1900 /\ m > 2) THEN 443 ELSE 442

\* the years since the last one of a century that is no leap year
\* mutated: the last day of February belongs to the years after it
SinceMarchEarly(v, y) == [v |-> v, y |-> y, long |-> v > 57]
SinceMarch(v, y) == [v |-> v, y |-> y, long |-> v > 58]
Century(n) == IF n > 766644 THEN SinceMarch(n - 766645, 2100)
              ELSE IF n <= 693595 THEN SinceMarch(n - 657072, 1800)
              ELSE SinceMarch(n - 693596, 1900)
convdate(n) ==
    LET c == Century(n)
        q == 4 * (c.v - 58) - 1
        r == 5 * (((q % 1461) + 4) \div 4) - 3
        month == r \div 153
        day == ((r % 153) + 5) \div 5
    IN IF n <= 0 THEN <<0, 0, 0>>
       ELSE IF c.long
       THEN IF month > 9 THEN <<day, month - 9, c.y + q \div 1461 + 1>>
            ELSE <<day, month + 3, c.y + q \div 1461>>
       ELSE IF c.v > 30 THEN <<c.v - 30, 2, c.y>> ELSE <<c.v + 1, 1, c.y>>

RECURSIVE DaysBefore(_, _)
DaysBefore(m, y) == IF m <= 1 THEN 0 ELSE DaysBefore(m - 1, y) + day_tab(m - 1, y)
Array(d, m, y, n) == [day |-> d, month |-> m, year |-> y, inyear |-> d + DaysBefore(m, y),
                      weekday |-> n % 7, since1900 |-> n - 693595, leap |-> LeapYear(y)]
daysarr(n) == LET c == convdate(n) IN Array(c[1], c[2], c[3], n)
\* months out of range go into the year, days behind the end of the month
\* are its last day
Carried(m, y) == <<((m - 1) % 12) + 1, y + (m - 1) \div 12>>
arrdays(d, month, year) ==
    LET c == Carried(month, year)  m == c[1]  y == c[2]
        day == IF d > day_tab(m, y) THEN day_tab(m, y) ELSE d
    IN Array(day, m, y, Julian(day, m, y) - 443)

--------------------------------------------------------------------------
(* Dates as texts *)

Num(n, w) == [n |-> n, w |-> w]
Name(m) == [month |-> m]
IsNum(part) == "n" \in DOMAIN part
Ordered(f, d, m, y) == CASE f = 0 -> <<d, m, y>> [] f = 1 -> <<m, d, y>> [] OTHER -> <<y, m, d>>
\* the system's date
sysdate == LET c == convdate(today) IN Ordered(form, Num(c[1], 2), Name(c[2]), Num(c[3], 4))

\* one number only: two digits each for day and month
Split(part) ==
    LET cut(at) == Num((part.n \div 10^(part.w - at[2])) % 10^(at[2] - at[1]), at[2] - at[1])
        a == IF form = 2 /\ part.w = 8 THEN 4 ELSE 2
        b == IF form = 2 /\ part.w = 8 THEN 6 ELSE 4
    IN IF part.w <= a THEN <<part>>
       ELSE IF part.w <= b THEN <<cut(<<0, a>>), cut(<<a, part.w>>)>>
       ELSE <<cut(<<0, a>>), cut(<<a, b>>), cut(<<b, part.w>>)>>
\* what is day, month and year; <<>> is missing
DateParts(text) ==
    LET at(k) == IF k > Len(text) THEN <<>> ELSE <<text[k]>>
    IN CASE form = 0 -> <<at(1), at(2), at(3)>>
         [] form = 1 -> IF at(2) = <<>> THEN <<at(1), <<>>, <<>>>> ELSE <<at(2), at(1), at(3)>>
         [] OTHER -> IF at(2) = <<>> THEN <<at(1), <<>>, <<>>>>
                     ELSE IF at(3) = <<>> THEN <<at(2), at(1), <<>>>>
                     ELSE <<at(3), at(2), at(1)>>
\* a year of two digits is the first one that _YD admits
Full(y) == IF y > 99 THEN y
           ELSE IF y + 1900 \in FromYear..ToYear THEN y + 1900
           ELSE IF y + 2000 \in FromYear..ToYear THEN y + 2000 ELSE -1
Month(part) == IF IsNum(part) THEN (IF part.n \in 1..12 THEN part.n ELSE 0) ELSE part.month

\* the letters for a day near the one in the text, which is today
Letter(alias) == <<[letter |-> alias]>>
Moved(alias, d, m, y) ==
    CASE alias = "previous" ->
            IF d > 1 THEN <<d - 1, m, y>>
            ELSE IF m > 1 THEN <<day_tab(m - 1, y), m - 1, y>> ELSE <<day_tab(12, y - 1), 12, y - 1>>
      [] alias = "next" -> <<d + 1, m, y>>
      [] alias = "last" -> <<day_tab(m, y), m, y>>
      [] alias = "first" -> <<1, m, y>>
      [] OTHER -> <<d, m, y>>
Dated(alias, text) ==
    LET p == DateParts(text)  now == convdate(today)
        y == IF p[3] = <<>> THEN now[3]
             ELSE IF ~IsNum(p[3][1]) \/ p[3][1].n \in 100..1000 THEN -1 ELSE Full(p[3][1].n)
        m == IF p[2] = <<>> THEN now[2] ELSE Month(p[2][1])
        d == IF p[1] # <<>> /\ IsNum(p[1][1]) THEN p[1][1].n ELSE 0
        t == Moved(alias, d, m, y)
    IN IF y \notin 1801..2199 \/ m = 0 \/ d = 0 \/ d > day_tab(m, y) THEN -1
       ELSE Julian(t[1], t[2], t[3]) - Fudge(t[2], t[3])
clgetdate(text) ==
    IF Len(text) = 1 /\ "letter" \in DOMAIN text[1] THEN Dated(text[1].letter, sysdate)
    ELSE IF Len(text) = 1 /\ IsNum(text[1]) THEN Dated("today", Split(text[1]))
    ELSE Dated("today", text)

\* makedate: two digits of a year that _YD admits
makedate(n) ==
    LET c == convdate(n)
        y == IF c[3] \in FromYear..ToYear THEN Num(c[3] % 100, 2) ELSE Num(c[3], 4)
    IN IF n < 657071 THEN <<>> ELSE Ordered(form, Num(c[1], 2), Num(c[2], 2), y)

\* dfmt: the text, and the mask as it is left, in which every character that
\* stands for itself is a blank after a date that is out of range
Blank == [c |-> " ", k |-> 1]
Shown(run, a) ==
    CASE run.c = "d" -> IF run.k = 3 THEN Num(a.inyear, 3) ELSE Num(a.day % 10^run.k, run.k)
      [] run.c = "m" -> IF run.k > 2 THEN Name(a.month) ELSE Num(a.month % 10^run.k, run.k)
      [] run.c = "y" -> Num(a.year % 10^run.k, run.k)
      [] run.c = "w" -> [weekday |-> a.weekday]
      [] OTHER -> run
IsField(run) == run.c \in {"d", "m", "w", "y"}
dfmt(mask, n) ==
    LET in == n \in 657072..766644
    IN [text |-> [i \in DOMAIN mask |-> IF IsField(mask[i]) THEN (IF in THEN Shown(mask[i], daysarr(n)) ELSE Blank)
                                        ELSE IF in /\ mask[i].c # "_" THEN mask[i] ELSE Blank],
        mask |-> [i \in DOMAIN mask |-> IF IsField(mask[i]) \/ (in /\ mask[i].c # "_") THEN mask[i] ELSE Blank]]

--------------------------------------------------------------------------
(* Times *)

Hour == 10000000
\* clround of hours: to nine decimals, then to seven
Hours(h, ms) == LET fine == 277 * ms + (14 * ms + 9) \div 18 IN h * Hour + (fine + 50) \div 100
Millis(part) == CASE part.w = 1 -> 100 * part.n [] part.w = 2 -> 10 * part.n
                  [] OTHER -> part.n \div 10^(part.w - 3)
\* 12 o'clock in the afternoon is noon, unless it is 12:00:00
Afternoon(h, m, s) == IF h > 12 THEN h ELSE IF h = 12 /\ (m > 0 \/ s > 0) THEN 12 ELSE h + 12
\* the parts of a text, and whether a p or a - ends it
gettime(text, pm) ==
    LET at(k) == IF k > Len(text) THEN 0 ELSE text[k].n
        h == IF pm THEN Afternoon(at(1), at(2), at(3)) ELSE at(1)
        ms == IF Len(text) < 4 THEN 0 ELSE Millis(text[4])
    IN IF h > 24 \/ at(2) > 59 \/ at(3) > 59 \/ (h = 24 /\ (at(2) > 0 \/ at(3) > 0)) THEN -1
       ELSE Hours(h, 60000 * at(2) + 1000 * at(3) + ms)
\* half a unit is added before the digits are cut off
Half(t) == 2 * (t % Hour) + 1
convtime(t) ==
    LET f == 9 * Half(t)  s == (f \div 50000) % 60
    IN IF t <= 0 THEN <<0, 0, 0, 0>>
       ELSE <<t \div Hour, (f - s * 50000) \div 3000000, s, (f \div 50) % 1000>>
maketimehms(t) == LET c == convtime(t)
                  IN IF t <= 0 THEN <<>> ELSE <<Num(c[1], 2), Num(c[2], 2), Num(c[3], 2), Num(c[4], 3)>>
\* tfmt: an H gives hours up to twelve
Twelve(h) == IF h % 12 = 0 THEN 12 ELSE h % 12
TimeShown(run, c) ==
    CASE run.c = "h" -> Num(c[1], run.k)
      [] run.c = "H" -> Num(Twelve(c[1]), run.k)
      [] run.c = "m" -> Num(c[2] % (IF run.k = 1 THEN 10 ELSE 100), run.k)
      [] run.c = "s" -> Num(c[3] % (IF run.k = 1 THEN 10 ELSE 100), run.k)
      [] run.c = "S" -> Num((c[4] + 10^(3 - run.k) \div 2) \div 10^(3 - run.k), run.k)
      [] OTHER -> run
\* the half of the day that follows hours up to twelve
HalfOfDay(c) == IF c[1] < 24 THEN "pm" ELSE "am"
tfmt(mask, t) ==
    LET full == convtime(t)
        c == IF full[1] > 24 \/ (full[1] = 24 /\ full # <<24, 0, 0, 0>>) THEN [full EXCEPT ![1] = @ % 24] ELSE full
        half == IF \E i \in DOMAIN mask : mask[i].c = "H" THEN <<[half |-> HalfOfDay(c)]>> ELSE <<>>
    IN [i \in DOMAIN mask |-> IF t > 0 /\ mask[i].c # "_" THEN TimeShown(mask[i], c) ELSE Blank] \o half

--------------------------------------------------------------------------
NewYear(y) == Julian(1, 1, y) - Fudge(1, y)
Start == [day |-> NewYear(1996), clock |-> <<0, 0, 0, 0>>]
Init ==
    \/ /\ \E span \in Spans : today = NewYear(span[1])
       /\ form \in Forms /\ clock = Start.clock
    \/ today = Start.day /\ form = 0 /\ clock \in Moments
\* midnight
Next == /\ clock = Start.clock
        /\ \E span \in Spans : today \in NewYear(span[1])..(NewYear(span[2]) - 1)
        /\ today' = today + 1 /\ UNCHANGED <<form, clock>>
Spec == Init /\ [][Next]_vars

--------------------------------------------------------------------------
(* Properties *)

\* The dates of consecutive numbers are consecutive days, and clgetdate gives
\* the first of January the number that is counted from.
Civil == INSTANCE Gregorian WITH date <- convdate(today),
             Starts <- {<<1, 1, span[1]>> : span \in Spans} \union {<<1, 1, 1996>>}
CivilSpec == Civil!Spec

\* A date that was written is read as the same date, with a mask that shows
\* four digits of the year, and without a mask when the two digits of its
\* year stand for no other year that _YD admits.
Fields(text) == SelectSeq(text, LAMBDA part : "c" \notin DOMAIN part)
Run(c, k) == [c |-> c, k |-> k]
Masks == {<<Run("d", 2), Run("-", 1), Run("m", mk), Run("-", 1), Run("y", 4)>> : mk \in 2..3}
Reorder(mask) == Ordered(form, mask[1], mask[3], mask[5])
Twice(y) == y \in FromYear..ToYear /\ y - 100 \in FromYear..ToYear
ReadsBack ==
    /\ ~Twice(convdate(today)[3]) => clgetdate(makedate(today)) = today
    /\ today \in NewYear(1801)..(NewYear(2100) - 1) =>
          \A mask \in Masks : clgetdate(Fields(dfmt(Reorder(mask), today).text)) = today

\* The letters give the day that they name, and the array of a date gives the
\* date back, also when months are added to it: the day is kept, or it is the
\* last one of the month.
MonthsOn(c, k) == LET m == c[2] - 1 + k
                  IN <<IF c[1] > Civil!Length((m % 12) + 1, c[3] + m \div 12)
                       THEN Civil!Length((m % 12) + 1, c[3] + m \div 12) ELSE c[1], (m % 12) + 1, c[3] + m \div 12>>
Relative ==
    LET c == convdate(today)
        a == daysarr(today)
    IN /\ c[3] >= 1802 =>
            /\ clgetdate(Letter("next")) = today + 1 /\ clgetdate(Letter("previous")) = today - 1
            /\ clgetdate(Letter("first")) = today - c[1] + 1 /\ clgetdate(Letter("today")) = today
            /\ clgetdate(Letter("last")) = today - c[1] + Civil!Length(c[2], c[3])
       /\ c[3] \in 1902..2097 =>
            /\ arrdays(a.day, a.month, a.year) = a
            /\ a.inyear = today - NewYear(c[3]) + 1
            /\ \A k \in {-13, -1, 1, 12, 25} :
                  convdate(arrdays(a.day, a.month + k, a.year).since1900 + 693595) = MonthsOn(c, k)

\* A time that was written with milliseconds is read as the same time, and its
\* hours, minutes, seconds and milliseconds are those that were typed in.
TimesBack ==
    LET t == gettime(<<Num(clock[1], 2), Num(clock[2], 2), Num(clock[3], 2), Num(clock[4], 3)>>, FALSE)
        mask == <<Run("h", 2), Run(":", 1), Run("m", 2), Run(":", 1), Run("s", 2), Run(".", 1), Run("S", 3)>>
    IN t > 0 => /\ convtime(t) = clock
                /\ gettime(maketimehms(t), FALSE) = t
                /\ gettime(Fields(tfmt(mask, t)), FALSE) = t
                /\ clock[1] \in 13..23 \/ (clock[1] = 12 /\ clock[2] > 0) =>
                      gettime(<<Num(Twelve(clock[1]), 2), Num(clock[2], 2), Num(clock[3], 2), Num(clock[4], 3)>>, TRUE) = t
=============================================================================
