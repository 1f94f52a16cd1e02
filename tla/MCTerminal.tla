----------------------------- MODULE MCTerminal ------------------------------
(* Keys and what is shown: the rules that make keys of what is typed, the line *)
(* a field is edited in, numbers in their masks, dates, texts, and the lines   *)
(* print writes and read takes back.  The tables of keys are those of          *)
(* MCKeyMacros.                                                                *)
EXTENDS MCKeyMacros

CONSTANT Parts   \* the parts that are looked at

VARIABLES part,    \* the part this behaviour is about; the others stand still
          lineBuf, lineDest, lineEnd, lineSaved, lineScreen, lineColumn, linePc, lineAnswer, lineAuto,
          numMask, numNumber, numShown,
          calToday, calForm, calClock,
          convJob, convText, convResult, convMax, convLSCONV, convSCONVERR, convDone,
          outStmt, outHow, outAt, outAgain, outChecked, outBuf, outLcount, outPcount, outRow, outOut, outGot, outPc, outOnPage, outLow

NoFile == [t \in Tables |-> <<>>]
Strings(S, n) == UNION {[1..k -> S] : k \in 0..n}

\* Texts of a field: "H" twice is a character of two bytes.
Fields == {<<>>, <<"a">>, <<" ", " ", "A">>, <<"a", " ", "A">>, <<"H", "H", "a">>, <<"a", "H", "a">>}

\* Masks with one sign only, and a bracket at the end for one in front; the
\* question marks of V with CR or DB are of another width.
Masks == {t[1] \o t[2] \o t[3] \o t[4] : t \in
  {t \in {<<>>, <<"-">>, <<"+">>, <<"(">>, <<"-", "-">>, <<"<", "<">>, <<"$", "$">>, <<"+", "+", "+">>, <<"$">>}
      \X {<<"9">>, <<"#", "9">>, <<"*", "*", "9">>, <<"#", ",", "#", "#", "9">>, <<"&", ",", "9">>, <<"Z", "Z">>, <<"*", ",", "*", "*">>}
      \X {<<>>, <<".", "9">>, <<".", "#", "#">>, <<"V", "9", "9">>}
      \X {<<>>, <<"-">>, <<")">>, <<">">>, <<"C">>, <<"d">>, <<"_">>} :
     /\ ~(t[3] = <<"V", "9", "9">> /\ t[4] # <<>> /\ t[4][1] \in {"C", "c", "D", "d"})
     /\ IF t[1] # <<>> /\ t[1][1] \in {"(", "+", "-", "<"}
        THEN t[4] \in {<<>>, <<"_">>} \/ <<t[1][1], t[4]>> \in {<<"(", <<")">>>>, <<"<", <<">">>>>}
        ELSE t[4] \notin {<<")">>, <<">">>}}}
\* In hundredths.
Numbers == {0, 5, 50, 99, 100, 1234, 9990, 123456} \cup {-1250, -99900, -7}

Spans == {<<1801, 1805>>, <<1899, 1905>>, <<1949, 1953>>, <<1996, 2001>>, <<2048, 2053>>, <<2095, 2105>>, <<2197, 2199>>}
Moments == {0, 1, 11, 12, 13, 23} \X {0, 1, 7, 29, 59} \X (0..59) \X {0, 1, 499, 500, 998, 999} \cup {<<24, 0, 0, 0>>}

\* Any checksum will do; this one weighs every place.
Weighed(t) == LET f[k \in 0..Len(t)] == IF k = 0 THEN 0 ELSE (3 * f[k - 1] + t[k]) % 65536 IN f[Len(t)]
Urls == {a \o p \o f : a \in {<<>>, <<104, 63>>}, p \in {<<97, 61>> \o t : t \in Strings({254, 97, 62, 47}, 4)} \cup {<<>>},
                       f \in {<<>>, <<35, 97>>}}
Escapes == Strings({97, 49, 92, 10, 27, 8, 127, 94, 170, 110}, 3)
Cuts == Strings({97, 32, 10, 13}, 6)

Value(type, t, n, w, a) == [is |-> "value", type |-> type, text |-> t, n |-> n, width |-> w, align |-> a, room |-> 3]
Chars(t, w, a) == Value("C", t, 0, w, a)
Plainly(is, w) == [is |-> is, width |-> w, align |-> "", text |-> <<>>]
Both(a) == [is |-> "array", width |-> 2, align |-> a, of |-> <<Chars(<<97>>, 0, ""), Chars(<<97, 44>>, 0, "")>>]
Values == {Chars(t, 0, "") : t \in Strings({97, 32, 44, 34, 92}, 2) \cup {<<97, 44, 97>>, <<97, 10>>}}
          \cup {Chars(<<97, 44>>, w, a) : w \in {1, 4}, a \in {"", "left", "centre", "right"}}
          \cup {Value(type, <<>>, n, w, "") : type \in {"N", "B", "X", "D", "T", "K"}, n \in {-1, 0, 5, 130}, w \in {0, 3}}
\* Two fields and the end of the line; and lines that fill pages.
Lines ==
  {<<v, w, Plainly("nl", 0)>> : v \in Values, w \in {Chars(<<97>>, 0, ""), Chars(<<>>, 0, ""), Chars(<<44, 97>>, 2, "left"), Value("N", <<>>, 5, 2, "")}}
  \cup {<<i, j, k, Plainly("nl", n)>> :
          i, j, k \in {Chars(<<97>>, 0, ""), Plainly("cr", 0), Plainly("ff", 0), Plainly("cl", 3), Plainly("nl", 4),
                       Plainly("eof", 0), Both("right")}, n \in {0, 2}}
Outputs == [to : {"file"}, csv : BOOLEAN, tab : {0, 44}, raw : BOOLEAN]
           \cup [to : {"screen"}, csv : {FALSE}, tab : {0, 44}, raw : {FALSE}]

Line == INSTANCE LineEdit WITH
    Width <- 3, Low <- {"a", "A", " "}, High <- {"H"}, Texts <- Fields, Autos <- BOOLEAN,
    Indents <- FALSE, Unbroken <- TRUE, buf <- lineBuf, dest <- lineDest, end <- lineEnd,
    saved <- lineSaved, screen <- lineScreen, column <- lineColumn, pc <- linePc,
    answer <- lineAnswer, auto <- lineAuto
Num == INSTANCE NumberMask WITH
    Masks <- Masks, Numbers <- Numbers, mask <- numMask, number <- numNumber, shown <- numShown
Cal == INSTANCE Calendar WITH
    Spans <- Spans, FromYear <- 1950, ToYear <- 2050, Moments <- Moments, today <- calToday,
    form <- calForm, clock <- calClock
Conv == INSTANCE Texts WITH
    Urls <- Urls, Escapes <- Escapes, Cuts <- Cuts, Widths <- 1..4, acrc <- Weighed, Seed <- 7,
    job <- convJob, text <- convText, result <- convResult, max <- convMax,
    LSCONV <- convLSCONV, SCONVERR <- convSCONVERR, done <- convDone
Out == INSTANCE Printing WITH
    Statements <- Lines, Outputs <- Outputs, PLines <- 2, HeadLines <- 1, Rows <- 4,
    stmt <- outStmt, how <- outHow, at <- outAt, again <- outAgain, checked <- outChecked,
    buf <- outBuf, lcount <- outLcount, pcount <- outPcount, row <- outRow, out <- outOut,
    got <- outGot, pc <- outPc, onPage <- outOnPage, low <- outLow
ASSUME Line!EditAssumption
ASSUME Conv!TextsAssumption
ASSUME Out!PrintAssumption

----------------------------------------------------------------------------
(* Instances *)


----------------------------------------------------------------------------
editVars == <<lineBuf, lineDest, lineEnd, lineSaved, lineScreen, lineColumn, linePc, lineAnswer, lineAuto>>
masksVars == <<numMask, numNumber, numShown>>
datesVars == <<calToday, calForm, calClock>>
textsVars == <<convJob, convText, convResult, convMax, convLSCONV, convSCONVERR, convDone>>
printVars == <<outStmt, outHow, outAt, outAgain, outChecked, outBuf, outLcount, outPcount, outRow, outOut, outGot, outPc, outOnPage, outLow>>
allVars == <<part, vars, editVars, masksVars, datesVars, textsVars, printVars>>

KeysOff == Init /\ file = Lists[NoFile]
EditOff == /\ lineBuf = 0 /\ lineDest = 0 /\ lineEnd = 0 /\ lineSaved = 0 /\ lineScreen = 0
           /\ lineColumn = 0 /\ linePc = 0 /\ lineAnswer = 0 /\ lineAuto = 0
MasksOff == /\ numMask = 0 /\ numNumber = 0 /\ numShown = 0
DatesOff == Cal!Init /\ calToday = Cal!Start.day /\ calForm = 0 /\ calClock = <<0, 0, 0, 0>>
TextsOff == /\ convJob = 0 /\ convText = 0 /\ convResult = 0 /\ convMax = 0 /\ convLSCONV = 0
            /\ convSCONVERR = 0 /\ convDone = 0
PrintOff == /\ outStmt = 0 /\ outHow = 0 /\ outAt = 0 /\ outAgain = 0 /\ outChecked = 0
            /\ outBuf = 0 /\ outLcount = 0 /\ outPcount = 0 /\ outRow = 0 /\ outOut = 0
            /\ outGot = 0 /\ outPc = 0 /\ outOnPage = 0 /\ outLow = 0

TerminalInit ==
    /\ part \in Parts
    /\ IF part = "keys" THEN Init ELSE KeysOff
    /\ IF part = "edit" THEN Line!Init ELSE EditOff
    /\ IF part = "masks" THEN Num!Init ELSE MasksOff
    /\ IF part = "dates" THEN Cal!Init ELSE DatesOff
    /\ IF part = "texts" THEN Conv!Init ELSE TextsOff
    /\ IF part = "print" THEN Out!Init ELSE PrintOff

KeysStep == /\ part = "keys" /\ Next
            /\ UNCHANGED <<part, editVars, masksVars, datesVars, textsVars, printVars>>
EditStep == /\ part = "edit" /\ Line!Next
            /\ UNCHANGED <<part, vars, masksVars, datesVars, textsVars, printVars>>
MasksStep == /\ part = "masks" /\ Num!Next
             /\ UNCHANGED <<part, vars, editVars, datesVars, textsVars, printVars>>
DatesStep == /\ part = "dates" /\ Cal!Next
             /\ UNCHANGED <<part, vars, editVars, masksVars, textsVars, printVars>>
TextsStep == /\ part = "texts" /\ Conv!Next
             /\ UNCHANGED <<part, vars, editVars, masksVars, datesVars, printVars>>
PrintStep == /\ part = "print" /\ Out!Next
             /\ UNCHANGED <<part, vars, editVars, masksVars, datesVars, textsVars>>
TerminalNext == KeysStep \/ EditStep \/ MasksStep \/ DatesStep \/ TextsStep \/ PrintStep
TerminalSpec == TerminalInit /\ [][TerminalNext]_allVars
FairTerminalSpec ==
    /\ TerminalSpec
    /\ WF_allVars(part = "keys" /\ Inner /\ UNCHANGED <<part, editVars, masksVars, datesVars, textsVars, printVars>>)

----------------------------------------------------------------------------
(* Properties *)
(* What the user sees is what the field will hold, within it, and ESC ESC gives *)
(* the old text back (linput.c).                                               *)
LineRight == part = "edit" => Line!Shown /\ Line!Bounded /\ Line!Whole /\ Line!Unchanged
(* What print, a mask, a date or sconv writes reads back as the value it was    *)
(* written from, and no page has more lines than it may (prfield.c, nfmt.c,    *)
(* dates.c, times.c, stepsc.c).                                                *)
Written ==
  /\ part = "print" => Out!PagesFit /\ Out!ReadsBack
  /\ part = "masks" => Num!DigitsKept /\ Num!SignKept
  /\ part = "dates" => Cal!ReadsBack /\ Cal!Relative /\ Cal!TimesBack
  /\ part = "texts" => Conv!UrlBack /\ Conv!SpeltBack /\ Conv!LinesHold
(* Day numbers that follow each other are days that follow each other (dates.c). *)
CivilSpec == Cal!CivilSpec
==============================================================================
