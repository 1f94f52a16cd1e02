---- MODULE Printing ----
(***************************************************************************)
(* A "print" or "write" statement (prfield.c, pcount.c), item by item, to  *)
(* a file or the screen, with the pages its lines make (PLINES, LCOUNT and *)
(* the on_eop block), and the "read" that takes the fields of the line     *)
(* apart again (pfile.c, buftott.c).                                       *)
(* Texts are sequences of codes: characters as they are, the digits of a   *)
(* whole number n as the one code Digits + n.                              *)
(***************************************************************************)
EXTENDS Integers, Sequences, FiniteSets

CONSTANTS Statements,   \* the items of a statement
          Outputs,      \* where it goes and how: [to, csv, tab, raw]
          PLines,       \* the variable PLINES, 0 for no pages
          HeadLines,    \* lines the on_eop block prints
          Rows          \* _li, lines of the screen

Digits == 1000
Blank == 32   Quote == 34   Comma == 44   Newline == 10   Apostrophe == 39   Slash == 92
HeadMark == 900                          \* what the on_eop block prints

PrintAssumption == /\ PLines \in Nat /\ HeadLines \in Nat /\ Rows \in Nat \ {0}
                   /\ PLines > 0 => HeadLines < PLines

VARIABLES stmt, how,   \* the statement and its output
          at,          \* the item it is at
          again,       \* lines a repeated "nl" has still to print
          checked,     \* eop_checked
          buf,         \* StrBuffer, left as it was by the items that do not fill it
          lcount, pcount,   \* LCOUNT and PCOUNT
          row,         \* _cy
          out,         \* what was written
          got,         \* what the read gave its variables
          pc,          \* "print", "read" or "done"
          onPage,      \* history: lines that ended on this page
          low          \* history: something was printed below the last line

vars == <<stmt, how, at, again, checked, buf, lcount, pcount, row, out, got, pc, onPage, low>>

Init ==
  /\ stmt \in Statements /\ how \in Outputs
  /\ at = 1 /\ again = 0 /\ checked = FALSE
  /\ buf \in {<<>>, <<97>>}              \* the local variable is not set
  /\ lcount \in 0..PLines /\ onPage = lcount /\ pcount = 1
  /\ row \in {1, Rows - 1} /\ out = <<>> /\ got = <<>> /\ pc = "print" /\ low = FALSE

Screen == how.to = "screen"
Item == stmt[at]
More == pc = "print" /\ at <= Len(stmt)
Blanks(n) == [i \in 1..n |-> Blank]
Cut(t, n) == SubSeq(t, 1, n)

----------------------------------------------------------------------------
\* What a value looks like

\* "%-*.*s": cut and filled with blanks on the right; "%*d": filled on the left.
Left(t, w)  == IF w = 0 THEN t ELSE IF Len(t) >= w THEN Cut(t, w) ELSE t \o Blanks(w - Len(t))
Right(t, w) == IF Len(t) >= w THEN t ELSE Blanks(w - Len(t)) \o t

\* exptobuf() and fldtobuf(): the characters of a value; a date or time that is not
\* set is a blank, and a key has none.
Chars(v, w) ==
  CASE v.type = "C" -> Left(v.text, w)
    [] v.type \in {"D", "T"} -> LET t == IF v.n <= 0 THEN <<Blank>> ELSE <<Digits + v.n>>
                                IN  IF Len(t) >= w THEN t ELSE Left(t, w)
    [] v.type \in {"K", "S"} -> <<>>
    [] OTHER -> Right(<<Digits + v.n>>, w)

RECURSIVE Trimmed(_)
Trimmed(t) == IF t # <<>> /\ t[Len(t)] = Blank THEN Trimmed(Cut(t, Len(t) - 1)) ELSE t

\* prfield(): the width of an item that is aligned, or that has only its default
\* width while "justify" is off, is not used for the characters; in a csv file texts
\* and numbers are printed as long as they are, and dates without blanks behind.
Formatted(i) ==
  LET w == IF i.align # "" THEN 0 ELSE i.width
  IN  CASE i.type = "D" -> IF how.csv THEN Trimmed(Chars(i, w)) ELSE Chars(i, w)
        [] i.type = "T" -> Chars(i, w)
        [] OTHER -> Chars(i, IF how.csv THEN 0 ELSE w)

\* An element of an array keeps the width of the array's item in a csv file too.
Element(i, k) ==
  LET t == Chars(i.of[k], IF i.align # "" THEN 0 ELSE i.width)
  IN  IF i.of[k].type = "D" /\ how.csv THEN Trimmed(t) ELSE t

\* convstr(): what cannot be printed is written as a slash and a letter.
Encoded(t) ==
  LET f[i \in 0..Len(t)] == IF i = 0 THEN <<>>
        ELSE f[i - 1] \o (CASE t[i] = Slash -> <<Slash, Slash>> [] t[i] = Newline -> <<Slash, 110>>
                            [] OTHER -> <<t[i]>>)
  IN  f[Len(t)]

\* The start of _prfield(): aligned in its width.
Aligned(t, i) ==
  LET room == IF i.width > Len(t) THEN i.width - Len(t) ELSE 0
      lead == CASE i.align = "centre" -> room \div 2 [] i.align = "right" -> room [] OTHER -> 0
  IN  IF i.align = "" THEN t ELSE Blanks(lead) \o t \o Blanks(room - lead)

Has(t, c) == \E k \in DOMAIN t : t[k] = c

NeedsQuotes(t) == \/ t[1] \in {Blank, Newline} \/ t[Len(t)] \in {Blank, Newline}
                  \/ Has(t, Quote) \/ Has(t, Comma) \/ Has(t, Newline)

\* A csv field: quotes around it where they are needed, and every quote twice.
Csv(t) ==
  LET f[i \in 0..Len(t)] == IF i = 0 THEN <<>>
        ELSE f[i - 1] \o (IF t[i] = Quote THEN <<Quote, Quote>> ELSE <<t[i]>>)
      q == IF NeedsQuotes(t) THEN <<Quote>> ELSE <<>>
  IN  IF t = <<>> THEN <<>> ELSE q \o f[Len(t)] \o q

\* The separator after a field: none before the end of the line.
NextIsNewline(k) == k < Len(stmt) /\ stmt[k + 1].is = "nl"
Separator(k, inner) ==
  LET tab == IF how.tab = 0 THEN <<>> ELSE <<how.tab>>
  IN  CASE Screen \/ ~how.csv -> IF ~inner /\ NextIsNewline(k) THEN <<>> ELSE tab
        [] OTHER -> IF ~inner /\ NextIsNewline(k) THEN <<>>
                    ELSE IF how.tab \in {0, Blank} THEN <<Comma>> ELSE tab

\* _prfield(): a field and its separator; "inner" is an element of an array, which
\* does not know what follows it.
Field(t, i, k, inner) ==
  LET s == Aligned(IF how.raw THEN t ELSE Encoded(t), i)
  IN  (IF how.csv /\ ~Screen THEN Csv(s) ELSE s) \o Separator(k, inner)

----------------------------------------------------------------------------
\* Pages

\* chkeop(): at the end of a page, the next begins with what the on_eop block prints.
RECURSIVE HeadText(_)
HeadText(n) == IF n = 0 THEN <<>> ELSE <<HeadMark, Newline>> \o HeadText(n - 1)
Ends == PLines # 0 /\ lcount >= PLines

Paged(due) == due /\ Ends
PageTurned(due) ==
  /\ pcount' = IF Paged(due) THEN pcount + 1 ELSE pcount
  /\ low' = (low \/ (~Paged(due) /\ PLines # 0 /\ onPage >= PLines))
Heading(due) == IF Paged(due) THEN HeadText(HeadLines) ELSE <<>>
Lines(due, c) == IF Paged(due) THEN HeadLines ELSE c

Keep == UNCHANGED <<stmt, how, got, pc>>
Step == at' = at + 1

----------------------------------------------------------------------------
\* Items

\* A value, or one of the names of the system (a text).
Value ==
  /\ More /\ Item.is = "value"
  /\ buf' = Formatted(Item)
  /\ out' = out \o Heading(~checked) \o Field(Formatted(Item), Item, at, FALSE)
  /\ lcount' = Lines(~checked, lcount) /\ onPage' = Lines(~checked, onPage)
  /\ PageTurned(~checked) /\ checked' = TRUE
  /\ Step /\ Keep /\ UNCHANGED <<again, row>>

\* A whole array: its elements one after the other.
Elements(i) ==
  LET f[k \in 0..Len(i.of)] ==
        IF k = 0 THEN <<>>
        ELSE f[k - 1] \o Field(Element(i, k), i, at, TRUE)
  IN  f[Len(i.of)]
Array ==
  /\ More /\ Item.is = "array"
  /\ buf' = Element(Item, Len(Item.of))
  /\ out' = out \o Heading(~checked) \o Elements(Item)
  /\ lcount' = Lines(~checked, lcount) /\ onPage' = Lines(~checked, onPage)
  /\ PageTurned(~checked) /\ checked' = TRUE
  /\ Step /\ Keep /\ UNCHANGED <<again, row>>

\* A line ends: "nl" looks for the end of the page unless a field of the line did,
\* its repetitions always do.
LineEnd(due) ==
  /\ out' = out \o Heading(due) \o <<Newline>>
  /\ lcount' = Lines(due, lcount) + 1 /\ onPage' = Lines(due, onPage) + 1
  /\ PageTurned(due) /\ checked' = FALSE
  /\ Keep /\ UNCHANGED buf

\* The line of the screen; the first of several is not looked at.
Below == IF Screen THEN IF row + 1 >= Rows THEN 1 ELSE row + 1 ELSE row
First == IF Screen /\ Item.width > 1 THEN row + 1 ELSE Below

\* Mutant: a repeated line does not look for the end of the page.
RepeatBlind ==
  /\ pc = "print" /\ again > 0 /\ LineEnd(FALSE) /\ row' = Below
  /\ again' = again - 1 /\ at' = IF again = 1 THEN at + 1 ELSE at

Newlines ==
  /\ More /\ Item.is = "nl" /\ again = 0 /\ LineEnd(~checked) /\ row' = First
  /\ again' = IF Item.width > 1 THEN Item.width - 1 ELSE 0
  /\ at' = IF Item.width > 1 THEN at ELSE at + 1
Repeat ==
  /\ pc = "print" /\ again > 0 /\ LineEnd(TRUE) /\ row' = Below
  /\ again' = again - 1 /\ at' = IF again = 1 THEN at + 1 ELSE at

Return ==
  /\ More /\ Item.is = "cr"
  /\ out' = out \o Heading(~checked) \o (IF Screen THEN <<>> ELSE <<13>>)
  /\ lcount' = Lines(~checked, lcount) /\ onPage' = Lines(~checked, onPage)
  /\ PageTurned(~checked) /\ checked' = TRUE
  /\ Step /\ Keep /\ UNCHANGED <<again, row, buf>>

\* A form feed is nothing on the screen; in a file it is followed by what the buffer
\* still holds of an item before.
FormFeed ==
  /\ More /\ Item.is = "ff" /\ Step
  /\ IF Screen THEN UNCHANGED <<out, lcount, onPage, pcount, low, checked>>
     ELSE /\ out' = out \o <<12>> \o Heading(~checked) \o Field(buf, Item, at, FALSE)
          /\ lcount' = Lines(~checked, lcount) /\ onPage' = Lines(~checked, onPage)
          /\ PageTurned(~checked) /\ checked' = TRUE
  /\ Keep /\ UNCHANGED <<again, row, buf>>

\* "cl" clears lines of the screen and stands outside the pages.
ClearLine ==
  /\ More /\ Item.is = "cl" /\ Step
  /\ row' = IF Item.width <= 1 THEN row ELSE ((row + Item.width - 2) % Rows) + 1
  /\ Keep /\ UNCHANGED <<again, checked, buf, lcount, pcount, out, onPage, low>>

\* "eof" ends the statement, and _write() closes the file.
Eof == More /\ Item.is = "eof" /\ at' = Len(stmt) + 1
       /\ Keep /\ UNCHANGED <<again, checked, buf, lcount, pcount, row, out, onPage, low>>

Printed ==
  /\ pc = "print" /\ at > Len(stmt)
  /\ pc' = IF Screen THEN "done" ELSE "read"
  /\ UNCHANGED <<stmt, how, at, again, checked, buf, lcount, pcount, row, out, got, onPage, low>>

----------------------------------------------------------------------------
\* Reading back

\* The variables read are those that were printed in the first line.
FirstNewline == CHOOSE k \in 1..Len(stmt) + 1 :
                  /\ k <= Len(stmt) => stmt[k].is = "nl"
                  /\ \A j \in 1..k - 1 : stmt[j].is # "nl"
ReadVars == SelectSeq(Cut(stmt, FirstNewline - 1), LAMBDA i : i.is = "value")

\* fgets(): the first line, its end included.
FirstLine == LET e == {k \in DOMAIN out : out[k] = Newline}
             IN  IF e = {} THEN out ELSE Cut(out, CHOOSE k \in e : \A j \in e : k <= j)

\* buftott(): a field ends at the separator, at the quote that opened it when fields
\* are separated by commas, or with the line; behind a slash every character counts.
Quoted(b) == how.tab = Comma /\ b # <<>> /\ b[1] \in {Quote, Apostrophe}
Hidden(b, k) == LET run[j \in 0..k] == IF j = 0 THEN 0 ELSE IF b[j] = Slash THEN run[j - 1] + 1 ELSE 0
                IN  run[k - 1] % 2 = 1
Take(b) ==
  LET q    == Quoted(b)
      body == IF q THEN Tail(b) ELSE b
      sep  == IF q THEN b[1] ELSE how.tab
      ends == {k \in DOMAIN body : body[k] = Newline \/ (body[k] = sep /\ ~Hidden(body, k))}
      e    == IF ends = {} THEN Len(body) + 1 ELSE CHOOSE k \in ends : \A j \in ends : k <= j
      rest == SubSeq(body, e + 1, Len(body))
  IN  [text |-> Trimmed(Cut(body, e - 1)),
       rest |-> IF q /\ rest # <<>> /\ rest[1] = how.tab THEN Tail(rest) ELSE rest]

\* The value of a field: a text is cut to the variable, a byte outside -127..127 is
\* none, and a hexadecimal number is looked for behind an x, which print never writes.
RECURSIVE Number(_)
Number(t) == CASE t = <<>> -> 0 [] t[1] = Blank -> Number(Tail(t))
               [] t[1] >= Digits - 500 -> t[1] - Digits [] OTHER -> 0
Converted(v, t) ==
  CASE v.type = "C" -> [v EXCEPT !.text = Cut(t, IF Len(t) < v.room THEN Len(t) ELSE v.room)]
    [] v.type = "X" -> [v EXCEPT !.n = 0]
    [] v.type = "B" -> [v EXCEPT !.n = IF Number(t) \in -127..127 THEN Number(t) ELSE 0]
    [] v.type \in {"K", "S"} -> v
    [] v.type \in {"D", "T"} -> [v EXCEPT !.n = IF Number(t) < 0 THEN 0 ELSE Number(t)]
    [] OTHER -> [v EXCEPT !.n = Number(t)]

Read ==
  /\ pc = "read" /\ pc' = "done"
  /\ LET f[k \in 0..Len(ReadVars)] ==
           IF k = 0 THEN [vals |-> <<>>, rest |-> FirstLine]
           ELSE LET x == Take(f[k - 1].rest)
                IN  [vals |-> Append(f[k - 1].vals, Converted(ReadVars[k], x.text)), rest |-> x.rest]
     IN  got' = f[Len(ReadVars)].vals
  /\ UNCHANGED <<stmt, how, at, again, checked, buf, lcount, pcount, row, out, onPage, low>>

Next == Value \/ Array \/ Newlines \/ Repeat \/ Return \/ FormFeed \/ ClearLine \/ Eof \/ Printed \/ Read
Spec == Init /\ [][Next]_vars

----------------------------------------------------------------------------
\* Properties

\* No page has more than PLINES lines, those of the on_eop block included, and
\* nothing is printed below the last of them.
PagesFit == ~low /\ (PLines # 0 => onPage <= PLines)

\* A value print can write and read can tell apart: a text without quotes, slashes
\* and line ends, without blanks around it, that fits the variable; a byte in its
\* range; not a hexadecimal number.
Plain(i) ==
  CASE i.type = "C" -> /\ \A k \in DOMAIN i.text : i.text[k] \notin {Quote, Slash, Newline}
                       /\ i.text # <<>> => i.text[1] \notin {Blank, Apostrophe} /\ i.text[Len(i.text)] # Blank
                       /\ Len(i.text) <= i.room
    [] i.type = "X" -> FALSE
    [] i.type = "B" -> i.n \in -127..127
    [] i.type \in {"D", "T"} -> i.n >= 0
    [] OTHER -> TRUE
Whole(i) == /\ Plain(i) /\ i.align \in {"", "left"}
            /\ how.csv \/ (i.type = "C" => /\ ~Has(i.text, how.tab)
                                           /\ i.align = "left" \/ i.width = 0 \/ i.width >= Len(i.text))

\* A line of values that was written to a file with commas between them is read back
\* as the values it was written from.
ReadsBack ==
  (/\ pc = "done" /\ ~Screen /\ pcount = 1 /\ how.tab = Comma
   /\ \A k \in 1..FirstNewline - 1 : stmt[k].is = "value" /\ Whole(stmt[k]))
  => got = ReadVars
====
