---- MODULE Texts ----
(***************************************************************************)
(* What sconv() and the screen make of a text (cnvstr.c, convstr.c): the   *)
(* parameters of a URL hidden from its reader and found again, characters  *)
(* that cannot be printed written with a slash, and a text cut into lines  *)
(* call by call.  Texts are sequences of character codes 1..255.           *)
(***************************************************************************)
EXTENDS Integers, Sequences, FiniteSets

CONSTANTS Urls,        \* what is encoded and decoded again
          Escapes,     \* what is written and read with slashes
          Cuts,        \* what is cut, at blanks (TAB = ' ')
          Widths,      \* the widths it is cut to
          acrc(_),     \* the checksum of a text (a function of a library)
          Seed         \* CGIURLSEED

TextsAssumption == \A w \in Widths : w \in Nat \ {0}

VARIABLES job,      \* "url", "escape" or "cut"
          text,     \* what is converted
          result,   \* what came of it: a text, or the lines so far
          max,      \* the width of a line
          LSCONV, SCONVERR,   \* the variables of the program
          done

vars == <<job, text, result, max, LSCONV, SCONVERR, done>>

Blank == 32  Equals == 61  Query == 63  Sharp == 35  Slash == 92  Caret == 94
Newline == 10  Return == 13  Escape == 27  Delete == 127
Cut(t, n) == SubSeq(t, 1, n)
From(t, n) == SubSeq(t, n, Len(t))
Where(t, c) == {k \in DOMAIN t : t[k] = c}
Has(t, c) == Where(t, c) # {}
First(t, c) == CHOOSE k \in Where(t, c) : \A j \in Where(t, c) : k <= j

RECURSIVE Trimmed(_), Joined(_)
Trimmed(t) == IF t # <<>> /\ t[Len(t)] = Blank THEN Trimmed(Cut(t, Len(t) - 1)) ELSE t
Joined(ts) == IF ts = <<>> THEN <<>> ELSE Head(ts) \o Joined(Tail(ts))

----------------------------------------------------------------------------
\* URLs: base64en(), base64de()

\* The 64 characters: capitals, small letters, digits, "/" and ".".
nch(n) == CASE n < 26 -> 65 + n [] n \in 26..51 -> 97 + n - 26 [] n \in 52..61 -> 48 + n - 52 [] n = 62 -> 47 [] OTHER -> 46

nint(c) == CASE c \in 65..90 -> c - 65 [] c \in 97..122 -> c - 97 + 26 [] c \in 48..57 -> c - 48 + 52
             [] c = 47 -> 62 [] c = 46 -> 63 [] OTHER -> 0

\* Three bytes in four characters, and back.
Four(a, b, c) == LET n == 65536 * a + 256 * b + c
                 IN  <<nch(n \div 262144), nch((n \div 4096) % 64), nch((n \div 64) % 64), nch(n % 64)>>
Three(t) == LET n == 262144 * nint(t[1]) + 4096 * nint(t[2]) + 64 * nint(t[3]) + nint(t[4])
            IN  <<n \div 65536, (n \div 256) % 256, n % 256>>

Padded(t) == t \o [k \in 1..((3 - (Len(t) % 3)) % 3) |-> Blank]
Sum16(n) == n % 65536

\* Parameters are encoded, with their checksum and a "=" in front; a text without
\* "=" stays as it is.
base64en(t) ==
  IF ~Has(t, Equals) THEN t
  ELSE LET p == Padded(t)
           crc == Sum16(Seed + acrc(p))
       IN  Four(crc \div 256, crc % 256, Equals)
             \o Joined([k \in 1..Len(p) \div 3 |-> Four(p[3 * k - 2], p[3 * k - 1], p[3 * k])])

\* What is refused becomes a call of the start page with an error: here a number below 0.
Refused(n) == <<-n>>

base64de(t) ==
  IF t = <<>> \/ Has(t, Equals) THEN t
  ELSE IF Len(t) % 4 # 0 THEN Refused(2)
  ELSE LET b == Joined([k \in 1..Len(t) \div 4 |-> Three(SubSeq(t, 4 * k - 3, 4 * k))])
           ends == {k \in 4..Len(b) : b[k] = 0}          \* a text ends at a zero
           p == SubSeq(b, 4, IF ends = {} THEN Len(b) ELSE (CHOOSE k \in ends : \A j \in ends : k <= j) - 1)
       IN  IF Sum16(Seed + acrc(p)) = 256 * b[1] + b[2] THEN Trimmed(p) ELSE Refused(1)

\* cnvstr("url"): only what stands between "?" (or the start) and "#" is converted.
Url(t, Convert(_)) ==
  LET q == IF Has(t, Query) THEN First(t, Query) ELSE 0
      rest == From(t, q + 1)
      f == IF Has(rest, Sharp) THEN First(rest, Sharp) ELSE Len(rest) + 1
  IN  Cut(t, q) \o Convert(Cut(rest, f - 1)) \o From(rest, f)

----------------------------------------------------------------------------
\* Slashes: convstr()

Wild == {170, 191, 219}     \* "*", "?" and "[" with the high bit: wildcards
Lettered == [c \in {Escape, Newline, 12, Return, 9} |->
               CASE c = Escape -> 101 [] c = Newline -> 110 [] c = 12 -> 102 [] c = Return -> 114 [] OTHER -> 116]

\* One character, when no character above 127 stands before it.
Coded(c) ==
  CASE c \in DOMAIN Lettered -> <<Slash, Lettered[c]>>
    [] c = Slash -> <<Slash, Slash>>
    [] c \in Wild -> <<Slash, c - 128>>
    [] c \in (1..31) \ DOMAIN Lettered -> <<Caret, c + 64>>
    [] c = Delete -> <<Slash, 49, 55, 55>>
    [] OTHER -> <<c>>
Encoded(t) == Joined([k \in DOMAIN t |-> Coded(t[k])])

\* A number of up to three octal digits; the number 0 is left out.
Octal(c) == c \in 48..55
OctalEnd(t) == CHOOSE n \in 1..3 : /\ n <= Len(t) /\ \A k \in 1..n : Octal(t[k])
                                   /\ n = 3 \/ n = Len(t) \/ ~Octal(t[n + 1])
RECURSIVE OctalValue(_), Decoded(_)
OctalValue(t) == IF t = <<>> THEN 0 ELSE 8 * OctalValue(Cut(t, Len(t) - 1)) + t[Len(t)] - 48

Decoded(t) ==
  IF t = <<>> THEN <<>>
  ELSE LET c == t[1]
           d == IF Len(t) > 1 THEN t[2] ELSE 0
           cap == IF d \in 97..122 THEN d - 32 ELSE d
           spelt == {x \in DOMAIN Lettered : Lettered[x] = d}
       IN  CASE c = Slash /\ d # 0 ->
                  CASE spelt # {} -> <<CHOOSE x \in spelt : TRUE>> \o Decoded(From(t, 3))
                    [] d = 98 -> <<Blank>> \o Decoded(From(t, 3))
                    [] d = Slash -> <<Slash>> \o Decoded(From(t, 3))
                    [] d \in {42, 63, 91} -> <<d + 128>> \o Decoded(From(t, 3))
                    [] Octal(d) -> LET n == OctalEnd(Tail(t))
                                       v == OctalValue(SubSeq(t, 2, n + 1))
                                   IN  CASE v = 0 -> Decoded(From(t, n + 2))
                                         [] v = 256 -> <<>>           \* the byte is zero and ends the text
                                         [] OTHER -> <<v % 256>> \o Decoded(From(t, n + 2))
                    [] OTHER -> <<Slash>> \o Decoded(Tail(t))
             [] c = Caret /\ d # 0 -> (IF cap \in 65..90 THEN <<cap - 64>> ELSE <<Caret, d>>) \o Decoded(From(t, 3))
             [] OTHER -> <<c>> \o Decoded(Tail(t))

----------------------------------------------------------------------------
\* Lines: tabsub()

Breaks == {Newline, Return}

\* The line that starts behind "prev", and the characters that end it: a line end, or
\* the blanks behind it, or the last blank in it when a word would be cut.
RECURSIVE Gap(_)
Gap(t) == IF t = <<>> \/ t[1] \notin Breaks \cup {Blank} THEN 0
          ELSE IF t[1] = Newline THEN 1 ELSE 1 + Gap(Tail(t))

LastBlank(b) == {k \in 1..Len(b) : b[k] = Blank}
Line(rest, w) ==
  LET b == Cut(rest, IF Len(rest) < w THEN Len(rest) ELSE w)
  IN  IF Has(b, Newline) \/ Has(b, Return)
      THEN LET e == IF Has(b, Newline) THEN First(b, Newline) ELSE First(b, Return)
               both == b[e] = Return /\ e = w /\ Len(rest) > w /\ rest[w + 1] = Newline
               cr == e > 1 /\ b[e - 1] = Return
           IN  [of |-> Cut(b, IF cr THEN e - 2 ELSE e - 1), gap |-> (IF both THEN 2 ELSE 1) + (IF cr THEN 1 ELSE 0)]
      ELSE LET g == Gap(From(rest, Len(b) + 1))
               s == LastBlank(b)
           IN  IF Len(b) = w /\ g = 0 /\ s # {}
               THEN [of |-> Cut(b, (CHOOSE k \in s : \A j \in s : j <= k) - 1), gap |-> 1]
               ELSE [of |-> b, gap |-> g]

----------------------------------------------------------------------------
Init ==
  /\ result = <<>> /\ LSCONV = 0 /\ SCONVERR = 0 /\ done = FALSE
  /\ \/ job = "url" /\ text \in Urls /\ max = 0
     \/ job = "escape" /\ text \in Escapes /\ max = 0
     \/ job = "cut" /\ text \in Cuts /\ max \in Widths

Hide == /\ job = "url" /\ ~done /\ done' = TRUE
        /\ result' = Url(Url(text, base64en), base64de)
        /\ UNCHANGED <<job, text, max, LSCONV, SCONVERR>>

Spell == /\ job = "escape" /\ ~done /\ done' = TRUE
         /\ result' = Decoded(Encoded(text))
         /\ UNCHANGED <<job, text, max, LSCONV, SCONVERR>>

\* sconv("tabsub", max, text), called until SCONVERR is set.
CutLine ==
  /\ job = "cut" /\ ~done
  /\ LET l == Line(From(text, LSCONV + 1), max)
         at == LSCONV + Len(l.of) + l.gap
     IN  /\ result' = Append(result, l.of)
         /\ IF at < Len(text) THEN LSCONV' = at /\ SCONVERR' = 0 /\ done' = FALSE
            ELSE LSCONV' = Len(l.of) /\ SCONVERR' = 1 /\ done' = TRUE
  /\ UNCHANGED <<job, text, max>>

Next == Hide \/ Spell \/ CutLine
Spec == Init /\ [][Next]_vars /\ WF_vars(Next)

----------------------------------------------------------------------------
\* Properties

\* A URL that was hidden is found again (no "?" in its parameters, no blank at their
\* end, and a "=" in them or nothing).
UrlBack == job = "url" /\ done => result = text

\* What was written with slashes is read as it was: texts without characters above
\* 127 but the wildcards, and a "^" only at the end or in front of a digit.
Spelt(t) == \A k \in DOMAIN t :
              /\ t[k] < 28 \/ t[k] \in 32..127 \cup Wild
              /\ t[k] = Caret /\ k < Len(t) => t[k + 1] \in 48..57
SpeltBack == job = "escape" /\ done /\ Spelt(text) => result = text

\* The lines of a text have its words, each whole unless it is longer than a line,
\* and no line is too long.
Letters(t) == SelectSeq(t, LAMBDA c : c \notin Breaks \cup {Blank})
Before(n) == Len(Letters(Joined(SubSeq(result, 1, n))))
Places == {k \in DOMAIN text : text[k] \notin Breaks \cup {Blank}}
PlaceOf(n) == CHOOSE k \in Places : Cardinality({j \in Places : j <= k}) = n
WordLength(k) == LET ends == {j \in k..Len(text) : text[j] \in Breaks \cup {Blank}}
                     heads == {j \in 1..k : text[j] \in Breaks \cup {Blank}}
                 IN  (IF ends = {} THEN Len(text) + 1 ELSE CHOOSE j \in ends : \A i \in ends : j <= i)
                       - (IF heads = {} THEN 0 ELSE CHOOSE j \in heads : \A i \in heads : j >= i) - 1
LinesHold ==
  job = "cut" =>
    /\ \A n \in DOMAIN result : Len(result[n]) <= max
    /\ done => Letters(Joined(result)) = Letters(text)
    /\ \A n \in 2..Len(result) :
         LET at == Before(n - 1)
         IN  (at > 0 /\ at < Cardinality(Places) /\ PlaceOf(at + 1) = PlaceOf(at) + 1) => WordLength(PlaceOf(at)) > max
====
