---- MODULE Lexer ----
(***************************************************************************)
(* The symbols of a .ent file (getsym.c, loadsym.c) and the files it       *)
(* includes (leincl.c): characters read ahead by one, lines that go on     *)
(* behind a slash, comments, and the number of the line that a message     *)
(* will name.  A text is a sequence of character codes.                    *)
(***************************************************************************)
EXTENDS Integers, Sequences, SequencesExt

CONSTANTS Sources,     \* what is compiled: records [main, file, plain]
          reswords     \* the reserved words and characters, each with its number

LexerAssumption == \A w \in DOMAIN reswords : reswords[w] > 0

VARIABLES of,          \* the source
          FileTree,    \* the files that are open, the current one last: what is left of each
          whole,       \* all that each held
          LastLine,    \* the line of each file at which the next one was included
          ll,          \* the line of the current file
          esc_char,    \* the last character was written with a slash
          c,           \* the character read ahead, or 0
          symbol, sym, \* the symbol, and how it is spelt
          read,        \* the symbols so far, without what includes say
          state        \* "reading", "end" or "refused"

vars == <<of, FileTree, whole, LastLine, ll, esc_char, c, symbol, sym, read, state>>

EOF == -1   Stopped == -2   Broken == -3      \* no character; the end was met in blanks; in a comment
NL == 10  Sharp == 35  Slash == 92  Colon == 58  Minus == 45  Dot == 46  Equal == 61  Ex == 120
Blanks == {9, 11, 12, 13, 32}
Digit == 48..57
Alpha == (65..90) \cup (97..122)
HexDigit == Digit \cup (65..70) \cup (97..102)
Quotes == {34, 39}
Escapes == [k \in {102, 114, 116, 110, 98, 101} |->     \* f r t n b e
              CASE k = 102 -> 12 [] k = 114 -> 13 [] k = 116 -> 9 [] k = 110 -> NL [] k = 98 -> 8 [] OTHER -> 27]
Wild == {63, 91, 42}
\* the operators of more than one character (those with "-" are read as numbers are)
Operators == {<<42, 42>>, <<42, 42, 61>>, <<42, 61>>, <<60, 61>>, <<60, 62>>, <<38, 38>>,
              <<124, 124>>, <<43, 61>>, <<47, 61>>, <<37, 61>>, <<62, 61>>}

----------------------------------------------------------------------------
\* Characters.  A reader has what is left of the files, the lines, and the last character.
reader == [src |-> FileTree, at |-> LastLine, ll |-> ll, esc |-> esc_char, ch |-> c]

Top(r) == r.src[Len(r.src)]
getc(r) == IF Top(r) = <<>> THEN [r EXCEPT !.ch = EOF]
           ELSE [r EXCEPT !.src[Len(r.src)] = Tail(@), !.ch = Head(Top(r))]
ungetc(r) == [r EXCEPT !.src[Len(r.src)] = <<r.ch>> \o @]
Down(r) == [r EXCEPT !.ll = @ + 1]

RECURSIVE Indent(_), Octal(_, _, _), Through(_), Comment(_), Skip(_)
Indent(r) == IF r.ch \in {9, 32} THEN Indent(getc(r)) ELSE r
Octal(r, value, n) ==
  CASE r.ch = EOF -> r
    [] r.ch \in 48..55 /\ n < 3 -> Octal(getc(r), 8 * value + r.ch - 48, n + 1)
    [] OTHER -> IF n = 0 THEN r ELSE [ungetc(r) EXCEPT !.ch = value]

\* A slash at the end of a line: the line goes on behind the blanks of the next one.
EmptyToo(r) == IF r.ch = NL THEN Down(r) ELSE r
Continued(r) == EmptyToo(Indent(getc(Down(r))))

Escaped(r) == CASE r.ch \in DOMAIN Escapes -> [r EXCEPT !.ch = Escapes[@]]
                [] r.ch \in Wild -> [r EXCEPT !.ch = @ + 128]
                [] r.ch = NL -> Continued(r)
                [] OTHER -> Octal(r, 0, 0)
Behind(r) == IF r.ch = EOF THEN r ELSE Escaped([r EXCEPT !.esc = TRUE])
Unslashed(r) == IF r.ch = Slash THEN Behind(getc(r)) ELSE r
getch(r) == Unslashed(getc([r EXCEPT !.esc = FALSE]))

\* The end of an included file: on with the one that includes it.
Closed(r) == [r EXCEPT !.src = Front(@), !.at = Front(@), !.ll = Last(r.at)]

\* Mutant: the end of any file is the end of all.
InsideNever(r) == FALSE

Inside(r) == r.ch = EOF /\ Len(r.src) > 1
Through(r) == IF Inside(r) THEN Through(getch(Closed(r))) ELSE r
getnch(r) == Through(getch(r))

\* A comment ends with its line; its characters have no meaning but "\".
Joined(r) == IF r.ch = NL THEN getc(Down(r)) ELSE r
Remarked(r) == IF r.ch = Slash THEN Joined(getc(r)) ELSE r
Unended(r, end) == IF r.ch = EOF THEN [r EXCEPT !.ch = end] ELSE r
Comment(r) == IF r.ch \in {NL, Broken} THEN r ELSE Comment(Unended(Remarked(getc(r)), Broken))

Skip(r) == CASE r.ch \in Blanks -> Skip(Unended(getnch(r), Stopped))
             [] r.ch = Sharp /\ ~r.esc -> Skip(Comment(r))
             [] OTHER -> r

----------------------------------------------------------------------------
\* Symbols: [r, symbol, sym].  The end of the last file is symbol 0, even behind a word.
loadsym(s) == IF s \in DOMAIN reswords THEN reswords[s] ELSE -1
Token(r, n, s) == [r |-> r, symbol |-> IF r.ch = EOF THEN 0 ELSE n, sym |-> s]

RECURSIVE Word(_, _), Number(_, _, _, _), Literal(_, _, _), Operator(_, _)
Word(r, s) == CASE r.ch \in Alpha \cup Digit \cup {95} -> Word(getnch(r), Append(s, r.ch))
                [] r.ch = Colon -> Token(getnch(r), 720, Append(s, Colon))
                [] OTHER -> Token(r, IF loadsym(s) < 0 THEN 2230 ELSE loadsym(s), s)

\* At most nine characters, or no more than 2147483647 without its sign.
Biggest == <<50, 49, 52, 55, 52, 56, 51, 54, 52, 55>>
Fits(s) == LET d == SelectSeq(s, LAMBDA k : k # Minus)
               from == {k \in DOMAIN d : d[k] # 48}
               v == IF from = {} THEN <<>> ELSE SubSeq(d, CHOOSE k \in from : \A j \in from : k <= j, Len(d))
           IN  \/ Len(s) <= 9 \/ Len(v) < 10
               \/ /\ Len(v) = 10
                  /\ \A k \in 1..10 : v[k] > Biggest[k] => \E j \in 1..k - 1 : v[j] < Biggest[j]

\* A number has digits and points; an "x" drops the character in front of it and is
\* followed by one of any kind.
Continues(r, hexval) == r.ch \in Digit \cup {Dot} \/ (hexval /\ r.ch \in HexDigit)
Kind(s, hexval, dot) == CASE dot -> 2210
                          [] ~dot /\ hexval /\ Len(s) <= 4 -> 2240
                          [] OTHER -> IF Fits(s) THEN 2200 ELSE 2210
Signed(r) == IF r.ch = Equal THEN Token(getnch(r), 1560, <<Minus, Equal>>) ELSE Token(r, 1580, <<Minus>>)
Hexadecimal(r, s, dot) == IF r.ch = EOF THEN Token(r, 0, s) ELSE Number(getnch(r), Append(s, r.ch), TRUE, dot \/ r.ch = Dot)
Number(r, s, hexval, dot) ==
  CASE Continues(r, hexval) -> Number(getnch(r), Append(s, r.ch), hexval, dot \/ r.ch = Dot)
    [] r.ch = Ex -> Hexadecimal(getnch(r), Front(s), dot)
    [] OTHER -> IF s = <<Minus>> /\ ~dot THEN Signed(r) ELSE Token(r, Kind(s, hexval, dot), s)

Ends(r, quote) == r.ch = quote /\ ~r.esc
\* The end of its line ends a literal that has no second quote.
Literal(r, quote, s) ==
  CASE Ends(r, quote) -> Token(getnch(r), 2220, s)
    [] r.ch = NL /\ ~r.esc -> Token(r, 2220, s)
    [] r.ch = EOF -> Token(r, 0, s)
    [] OTHER -> Literal(getnch(r), quote, Append(s, r.ch))

Operator(r, s) == IF Append(s, r.ch) \in Operators THEN Operator(getnch(r), Append(s, r.ch)) ELSE Token(r, loadsym(s), s)

Symbol(r) == CASE r.ch = Stopped -> [r |-> r, symbol |-> 0, sym |-> <<>>]
               [] r.ch = Broken -> [r |-> [r EXCEPT !.ch = EOF], symbol |-> -1, sym |-> <<>>]
               [] r.ch \in Alpha \cup {95} -> Word(getnch(r), <<r.ch>>)
               [] r.ch \in Digit \cup {Minus} -> Number(getnch(r), <<r.ch>>, FALSE, FALSE)
               [] r.ch \in Quotes -> Literal(getnch(r), r.ch, <<>>)
               [] OTHER -> Operator(getnch(r), <<r.ch>>)

First(r, just) == IF just /\ r.ch = EOF THEN Token(r, 0, <<>>) ELSE Symbol(Skip(r))
\* The line is counted when the symbol behind its end is asked for.
getsym(r, last) ==
  LET q == IF last = 930 THEN Down(r) ELSE r
  IN  First(IF q.ch = 0 THEN getnch(q) ELSE q, q.ch = 0)

RECURSIVE gotonl(_)
gotonl(r) == IF r.ch \in {EOF, NL} THEN r ELSE gotonl(getch(r))

----------------------------------------------------------------------------
Take(t) == /\ FileTree' = t.r.src /\ LastLine' = t.r.at /\ ll' = t.r.ll /\ esc_char' = t.r.esc /\ c' = t.r.ch
           /\ symbol' = t.symbol /\ sym' = t.sym

Init == /\ of \in Sources /\ FileTree = <<of.main>> /\ whole = <<of.main>> /\ LastLine = <<>>
        /\ ll = 1 /\ esc_char = FALSE /\ c = 0 /\ symbol = -1 /\ sym = <<>> /\ read = <<>> /\ state = "reading"

Read == /\ state = "reading" /\ symbol # 660
        /\ \E t \in {getsym(reader, symbol)} :
              /\ Take(t)
              /\ whole' = SubSeq(whole, 1, Len(t.r.src))
              /\ state' = IF t.symbol = 0 THEN "end" ELSE "reading"
              /\ read' = IF t.symbol \in {0, 660} THEN read ELSE Append(read, <<t.symbol, t.sym>>)
        /\ UNCHANGED of

\* leincl(): the rest of the line is passed over, and the new file begins in line -1,
\* which the end of this line makes 0 and that of the symbol it leaves 1.
Include ==
  /\ state = "reading" /\ symbol = 660
  /\ \E t \in {getsym(reader, symbol)} :
       IF t.symbol = 2220
       THEN \E r \in {gotonl(t.r)} :
              /\ Take([r |-> [r EXCEPT !.src = Append(@, of.file), !.at = Append(@, r.ll), !.ll = -1], symbol |-> 930, sym |-> <<NL>>])
              /\ whole' = Append(SubSeq(whole, 1, Len(r.src)), of.file) /\ UNCHANGED <<read, state>>
       ELSE state' = "refused" /\ UNCHANGED <<FileTree, whole, LastLine, ll, esc_char, c, symbol, sym, read>>
  /\ UNCHANGED of

Next == Read \/ Include
Spec == Init /\ [][Next]_vars

----------------------------------------------------------------------------
\* Properties

Lines(t) == Cardinality({k \in DOMAIN t : t[k] = NL})
Has(t, u) == \E k \in 1..Len(t) - Len(u) + 1 : SubSeq(t, k, k + Len(u) - 1) = u
\* A line that goes on is followed by one with something in it, and "\n" stands in no text:
\* otherwise lines are counted twice.
Counted(t) == ~Has(t, <<Slash, NL, NL>>) /\ ~Has(t, <<Slash, NL, 32, NL>>) /\ ~Has(t, <<Slash, 110>>)

\* The line of a message is that of the character behind the symbol, also when files
\* were included and left again (a file ends with the end of a line).
LinesRight ==
  state = "reading" /\ Counted(of.main) /\ Counted(of.file) /\ read # <<>> /\ symbol # 660 /\ LastLine = <<>> =>
    LET n == Len(whole)
        behind == Lines(whole[n]) - Lines(FileTree[n]) - (IF c = NL THEN 1 ELSE 0)
    IN  ll = 1 + behind - (IF symbol = 930 THEN 1 ELSE 0)

\* An included file is read as if it stood in the place of the line that names it.
Start(t) == [r |-> [src |-> <<t>>, at |-> <<>>, ll |-> 1, esc |-> FALSE, ch |-> 0], symbol |-> -1, sym |-> <<>>]
With(all, t) == [all |-> IF t.symbol = 0 THEN all ELSE Append(all, <<t.symbol, t.sym>>), last |-> t]
Tokens(t) == LET next[n \in 0..2 * Len(t)] ==
                   IF n = 0 THEN [all |-> <<>>, last |-> Start(t)]
                   ELSE LET b == next[n - 1]
                        IN  IF b.last.symbol = 0 THEN b ELSE With(b.all, getsym(b.last.r, b.last.symbol))
             IN  next[2 * Len(t)].all
Spliced == state = "end" => read = Tokens(of.plain)

\* What was read is read again, symbol by symbol, when it is written with blanks between
\* the symbols and slashes in the literals (hexadecimal numbers and what has no symbol
\* left aside).
Quoted(s) == FlattenSeq([k \in DOMAIN s |-> CASE s[k] \in {34, Slash} -> <<Slash, s[k]>>
                                             [] s[k] = NL -> <<Slash, 110>>
                                             [] s[k] > 127 -> <<Slash, s[k] - 128>>
                                             [] OTHER -> <<s[k]>>])
Written(t) == IF t[1] = 2220 THEN <<34>> \o Quoted(t[2]) \o <<34, 32>> ELSE Append(t[2], 32)
Plain(t) == /\ t[1] # 2240 /\ t[1] > 0
            /\ t[1] = 2210 => \E k \in DOMAIN t[2] : t[2][k] = Dot
            /\ t[1] \in {2200, 2210} => /\ t[2][1] \in Digit \/ (t[2][1] = Minus /\ Len(t[2]) > 1)
                                       /\ \A k \in 2..Len(t[2]) : t[2][k] \in Digit \cup {Dot}
ReadAgain == state = "end" /\ (\A k \in DOMAIN read : Plain(read[k])) =>
               Tokens(FlattenSeq([k \in DOMAIN read |-> Written(read[k])]) \o <<NL>>) \in {read, Append(read, <<930, <<NL>>>>)}
====
