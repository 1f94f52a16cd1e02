---- MODULE LineEdit ----
(***************************************************************************)
(* The editing of one field on the screen (Cclenter/src/linput.c): the     *)
(* buffer the caller hands over, the text kept for the undo, the cursor in *)
(* the buffer, the end of the text, and, beside them, the characters the   *)
(* terminal shows with its own cursor.  linput() never redraws the field:  *)
(* every key writes just the characters that changed and steps back, so    *)
(* what the user sees and what the caller gets agree only if every key     *)
(* counts its characters right.                                            *)
(*                                                                         *)
(* A byte is one of Low (one column, one character), High (one half of a   *)
(* character of two bytes) or Nul.  Positions count from 0, as pointers      *)
(* from DestBuffer do.                                                     *)
(***************************************************************************)
EXTENDS Integers, Sequences, FiniteSetsExt

CONSTANTS Width,      \* MaxLen, the width of the field
          Low,      \* bytes below 128 the user types
          High,     \* bytes from 128 on
          Texts,    \* texts the field may hold when its editing begins
          Autos,    \* values of _YA: the field is left when it is full
          Indents,  \* a value that is refused may begin with two blanks or more
          Unbroken  \* the user types two-byte characters only where they fit

EditAssumption == /\ Width \in Nat \ {0, 1}
                  /\ "nul" \notin Low \cup High /\ " " \in Low
                  /\ Low \cap High = {} /\ "fill" \notin Low \cup High
                  /\ Autos \cup {Indents, Unbroken} \subseteq BOOLEAN

Fill == "fill"                  \* FillChar, which no text holds
Nul == "nul"                    \* the end of a text
Place == 0..Width + 1             \* the buffer, and the byte an overrun reaches

VARIABLES buf,      \* DestBuffer
          dest,     \* DestPtr
          end,      \* FillPtr
          saved,    \* FieldSave
          screen,   \* the columns of the field
          column,   \* the column of the terminal's cursor
          pc,       \* "edit", "left"
          answer,   \* what linput() returns: a length or the key that ended it
          auto      \* _YA

vars == <<buf, dest, end, saved, screen, column, pc, answer, auto>>

----------------------------------------------------------------------------
\* What is on the line

IsHigh(c) == c \in High         \* isDoubleWidth()

\* curChineseChar(): 1 a character of one byte, 2 the first and 4 the second
\* byte of a character, found by going through the text from its beginning.
Half(b) ==
  LET h[i \in Place] == IF i > 0 /\ h[i - 1] = 2 THEN 4
                        ELSE IF IsHigh(b[i]) THEN 2 ELSE 1
  IN  h

\* A character of a word: a letter or digit, or one of two bytes (isChinese).
IsWord(b, i) == (b[i] \in Low \ {" "}) \/ Half(b)[i] \in {2, 4}

EndOf(b, i) == CHOOSE j \in i..Width + 1 : b[j] = Nul /\ \A k \in i..j - 1 : b[k] # Nul

Cell(c) == IF c = Nul THEN Fill ELSE c

\* fputc() of the bytes from..to-1, an end of text shown as a fill character.
Written(b, from, to) ==
  [x \in Place |-> IF x \in column..column + (to - from) - 1
                   THEN Cell(b[from + (x - column)]) ELSE screen[x]]

\* The line after the bytes of b from dest to "to" were written and the
\* terminal stepped back to place "back".
Redrawn(b, to, back) ==
  /\ screen' = Written(b, dest, to)
  /\ column' = column + (to - dest) - (to - back)

\* The cursor moves without a change of the text; going forward writes the
\* characters it passes.
Moved(to) ==
  /\ dest' = to
  /\ column' = column + (to - dest)
  /\ screen' = IF to > dest THEN Written(buf, dest, to) ELSE screen
  /\ UNCHANGED <<buf, end, saved>>

Bell == UNCHANGED <<buf, dest, end, saved, screen, column>>

\* Going on after a key: a full line is left by itself when the caller asked so.
Stay == IF auto /\ dest' = Width THEN pc' = "left" /\ answer' = "full"
                               ELSE UNCHANGED <<pc, answer>>
Leave(a) == pc' = "left" /\ answer' = a

----------------------------------------------------------------------------
\* The keys

\* NextChar, ctrl-l: one character to the right.
Right == /\ IF dest < end
            THEN Moved(IF Half(buf)[dest + 1] = 4 THEN dest + 2 ELSE dest + 1)
            ELSE Bell
         /\ Stay

\* BackSpace, CursorLeft.
Left == /\ IF dest = 0 THEN Bell
           ELSE Moved(IF dest - 1 > 0 /\ Half(buf)[dest - 1] = 4 THEN dest - 2 ELSE dest - 1)
        /\ Stay

Home == Moved(0) /\ Stay
End  == (IF dest < end THEN Moved(end) ELSE Bell) /\ Stay
Toggle == (IF dest = 0 /\ end > 0 THEN Moved(end) ELSE Moved(0)) /\ Stay

\* PrevWord: back to the last character of a word, and on to its beginning.
PrevWord ==
  LET last == {p \in 1..dest - 1 : IsWord(buf, p)}
      before(p) == {q \in 1..p : ~IsWord(buf, q)}
      to == IF last = {} THEN 0
            ELSE IF before(Max(last)) = {} THEN 0 ELSE Max(before(Max(last))) + 1
  IN  (IF dest = 0 THEN Bell ELSE Moved(to)) /\ Stay

\* NextWord: one byte on within a word, else past what is not a word after it.
NextWord ==
  LET gap == {p \in dest..end : p = end \/ ~IsWord(buf, p)}
      stop == {q \in Min(gap)..end : q = end \/ IsWord(buf, q)}
  IN  /\ IF dest >= end THEN Bell
         ELSE Moved(IF IsWord(buf, dest) THEN dest + 1 ELSE Min(stop))
      /\ Stay

\* Find: on to the next byte that is the one typed.
Find(c) ==
  LET hit == {p \in dest + 1..end - 1 : buf[p] = c}
  IN  /\ IF dest >= end \/ hit = {} THEN Bell
         ELSE Moved(Min(hit))
      /\ Stay

\* Delete, ctrl-x: the rest of the text moves down by the character's width.
Delete ==
  LET w == IF IsHigh(buf[dest]) THEN 2 ELSE 1
      stop == EndOf(buf, dest)
      b == [x \in Place |-> IF x \in dest..stop - 1
                            THEN IF x + w <= Width THEN buf[x + w] ELSE Nul
                            ELSE buf[x]]
  IN  /\ IF dest >= end THEN Bell
         ELSE /\ Redrawn(b, stop, dest) /\ buf' = [b EXCEPT ![Width - 1] = Nul]
              /\ end' = end - w
              /\ UNCHANGED <<dest, saved>>
      /\ Stay

\* EraseEOL, ctrl-d: the text ends at the cursor.
EraseEnd ==
  LET stop == EndOf(buf, dest)
      b == [x \in Place |-> IF x \in dest..stop - 1 THEN Nul ELSE buf[x]]
  IN  /\ IF dest >= end THEN Bell
         ELSE Redrawn(b, stop, dest) /\ buf' = b /\ end' = dest /\ UNCHANGED <<dest, saved>>
      /\ Stay

\* Insert, ctrl-i: a blank at the cursor; a full line loses its last character,
\* both bytes of it unless the cursor stands on the last column.
Insert ==
  LET drop == IF end < Width THEN end
              ELSE IF dest < Width - 1 /\ Half(buf)[Width - 2] = 2 THEN Width - 2 ELSE Width - 1
      cut == [x \in Place |-> IF end = Width /\ x \in drop..Width - 1 THEN Nul ELSE buf[x]]
      b == [x \in Place |-> IF x = dest THEN " "
                            ELSE IF x \in dest + 1..drop THEN cut[x - 1] ELSE cut[x]]
      stop == IF drop + 2 < Width THEN drop + 2 ELSE Width
  IN  /\ IF dest >= end THEN Bell
         ELSE /\ Redrawn(b, stop, dest) /\ buf' = b /\ end' = drop + 1
              /\ UNCHANGED <<dest, saved>>
      /\ Stay

\* InvertCase, ctrl-c: the other case of the character, and one character on.
InvertCase(other) ==
  LET half == Half(buf)[dest]
      b == [buf EXCEPT ![dest] = other[@]]
  IN  /\ IF dest >= end \/ half = 4 THEN Bell
         ELSE IF half = 2 THEN Moved(dest + 2)
         ELSE /\ Redrawn(b, dest + 1, dest + 1) /\ buf' = b /\ dest' = dest + 1
              /\ UNCHANGED <<end, saved>>
      /\ Stay

\* Refresh: the whole line is written anew.
Refresh ==
  /\ screen' = [x \in Place |-> IF x < EndOf(buf, 0) THEN buf[x] ELSE Fill]
  /\ column' = dest
  /\ UNCHANGED <<buf, dest, end, saved>>
  /\ Stay

\* The text kept at the beginning is copied over the line from its first
\* column, and what stands behind it is cleared up to the first end of text.
Restored ==
  LET n == Len(saved)
      over == [x \in Place |-> IF x < n THEN saved[x + 1] ELSE buf[x]]
      stop == IF over[n] = Nul \/ n >= Width THEN n
              ELSE CHOOSE j \in n..Width : /\ j = Width \/ over[j] = Nul
                                         /\ \A k \in n..j - 1 : over[k] # Nul
  IN  /\ buf' = [x \in Place |-> IF x \in n..stop - 1 THEN Nul ELSE over[x]]
      /\ screen' = [x \in Place |-> IF x \in column - dest..column - dest + stop - 1
                                     THEN Cell(buf'[x - (column - dest)]) ELSE screen[x]]
      /\ column' = column - dest
      /\ dest' = 0
      /\ UNCHANGED saved

\* Undo, ctrl-u.
Undo == Restored /\ end' = Len(saved) /\ Stay

\* Mutant: the end of the text does not follow what is typed at the end.
TypeLowShort(c) ==
  LET put == [buf EXCEPT ![dest] = c]
  IN  /\ IF dest >= Width THEN Bell
         ELSE /\ dest' = dest + 1
              /\ Redrawn(put, dest + 1, dest + 1) /\ buf' = put
              /\ UNCHANGED <<end, saved>>
      /\ Stay

\* A character of one byte: over the one under the cursor, which when it has
\* two bytes leaves a column to close up; or added at the end of the text.
TypeLow(c) ==
  LET put == [buf EXCEPT ![dest] = c]
      stop == EndOf(put, dest + 1)
      b == [x \in Place |-> IF x \in dest + 1..stop - 1 THEN put[x + 1] ELSE put[x]]
      narrow == dest < end /\ Half(buf)[dest] = 2 /\ dest + 1 < end
  IN  /\ IF dest >= Width THEN Bell
         ELSE /\ dest' = dest + 1
              /\ IF narrow
                 THEN Redrawn(b, stop, dest + 1) /\ buf' = b /\ end' = end - 1
                 ELSE /\ Redrawn(put, dest + 1, dest + 1) /\ buf' = put
                      /\ end' = IF dest >= end THEN dest + 1 ELSE end
              /\ UNCHANGED saved
      /\ Stay

\* A character of two bytes c, d.  Over one of one byte it needs a column more:
\* the text moves up, or on a full line the next character is lost as well.
TypeHigh(c, d) ==
  LET two == [buf EXCEPT ![dest] = c, ![dest + 1] = d]
      moved == [x \in Place |-> IF x = dest THEN c ELSE IF x = dest + 1 THEN d
                                ELSE IF x \in dest + 2..end THEN buf[x - 1] ELSE buf[x]]
      b == IF end < Width THEN moved ELSE two
      last == IF end < Width THEN end + 1 ELSE end
      stop == IF dest + 1 >= Width THEN dest + 1 ELSE IF last + 1 < Width THEN last + 1 ELSE Width
      add == dest >= end
      room == Width - dest > 1
      over == ~add /\ ~IsHigh(buf[dest])
  IN  /\ IF dest >= Width \/ (add /\ ~room)
            \/ (over /\ end = Width /\ IsHigh(buf[dest + 1])) THEN Bell
         ELSE /\ dest' = dest + 2
              /\ IF over THEN Redrawn(b, stop, IF stop > dest + 2 THEN dest + 2 ELSE stop) /\ buf' = b /\ end' = last
                         ELSE /\ Redrawn(two, dest + 2, dest + 2) /\ buf' = two
                              /\ end' = IF add THEN dest + 2 ELSE end
              /\ UNCHANGED saved
      /\ Stay

----------------------------------------------------------------------------
\* Beginning and leaving

\* trim(): leading blanks go by moving the text down, trailing ones are cleared.
Trimmed(b) ==
  LET n == EndOf(b, 0)
      lead == CHOOSE k \in 0..n : /\ \A j \in 0..k - 1 : b[j] = " "
                                  /\ b[k] # " "
      low == [x \in Place |-> IF x <= n - lead THEN b[x + lead] ELSE b[x]]
      Blank(x) == x > 0 /\ x < n - lead /\ \A j \in x..n - lead - 1 : low[j] = " "
  IN  [x \in Place |-> IF Blank(x) THEN Nul ELSE low[x]]

TextOf(b) == [i \in 1..EndOf(b, 0) |-> b[i - 1]]

\* A key that ends the editing, or BYPASS, which ends it before a key: Abort, Exit, the lookup key and CursorUp return
\* at once, Enter and the keys with an escape have the text trimmed first.
Quits == {"abort", "exit", "lookup", "up"}
Quit(a) == Leave(a) /\ UNCHANGED <<buf, dest, end, saved, screen, column>>

\* What the caller finds in the buffer when linput() has returned.
Value == IF answer \in Quits THEN buf ELSE Trimmed(buf)

\* ESC ESC, and Escape: the text as it was.
Escape == Restored /\ Leave("escape") /\ UNCHANGED end

Line(text) == [x \in Place |-> IF x < Len(text) THEN text[x + 1] ELSE Nul]

\* linput() from its beginning: the text is written and kept, the rest of the
\* field filled, the cursor set back to the first column.
Begun(b) ==
  /\ buf' = [b EXCEPT ![Width] = Nul]
  /\ saved' = TextOf(buf')
  /\ dest' = 0 /\ end' = Len(saved')
  /\ screen' = [x \in Place |-> IF x < end' THEN b[x] ELSE Fill]
  /\ column' = 0
  /\ pc' = "edit" /\ answer' = "none"

\* The caller: the next field is cleared and filled with its text; a date or
\* number that is none is edited again as linput() left it (modfld.c).
NextField == \E t \in Texts : Begun(Line(t))
Indented == buf[0] = " " /\ buf[1] = " "
Again == /\ answer \in {"done", "full", "key"} /\ (Indents \/ ~Indented)
         /\ Begun(Value)

----------------------------------------------------------------------------

Init == /\ \E t \in Texts : /\ buf = Line(t) /\ saved = t /\ end = Len(t)
                            /\ screen = [x \in Place |-> IF x < Len(t) THEN t[x + 1] ELSE Fill]
        /\ dest = 0 /\ column = 0
        /\ pc = "edit" /\ answer = "none" /\ auto \in Autos

\* Three keys count bytes, not characters: Find and NextWord stop between the two
\* bytes of a character, and one typed over the last column of a full field goes
\* a byte beyond the buffer.
Fits == Unbroken => ~(end = Width /\ dest = Width - 1)
Between == Unbroken => Half(buf)[dest'] # 4

Move == \/ Right \/ Left \/ Home \/ End \/ Toggle \/ PrevWord
        \/ NextWord /\ Between
        \/ \E c \in Low \cup High : Find(c) /\ Between
Change(other) == Delete \/ EraseEnd \/ Insert \/ InvertCase(other) \/ Undo
Type == \/ \E c \in Low : TypeLow(c)
        \/ \E c \in High, d \in (Low \ {" "}) \cup High : Fits /\ TypeHigh(c, d)
Finish == \/ Escape
          \/ \E a \in Quits \cup {"done", "key"} : Quit(a)

Swap == [c \in Low \cup High |-> IF c = "a" THEN "A" ELSE IF c = "A" THEN "a" ELSE c]

Next == /\ \/ pc = "edit" /\ (Move \/ Change(Swap) \/ Refresh \/ Type \/ Finish)
           \/ pc = "left" /\ (NextField \/ Again)
        /\ UNCHANGED auto

Spec == Init /\ [][Next]_vars

----------------------------------------------------------------------------
\* Properties

\* What the user sees is what the caller will get: every column up to the end of
\* the text shows its byte, the others the fill character, and the terminal's
\* cursor stands where the next character goes.
Shown ==
  pc = "edit" => /\ column = dest
                 /\ \A x \in 0..Width - 1 : screen[x] = IF x < end THEN buf[x] ELSE Fill

\* The end of the text is where the buffer says it is, within the field, and the
\* cursor does not go beyond it.
Bounded ==
  pc = "edit" => /\ dest <= end /\ end <= Width
                 /\ buf[end] = Nul /\ \A x \in 0..end - 1 : buf[x] # Nul

\* The cursor never stands between the two bytes of a character.
Whole == pc = "edit" => Half(buf)[dest] # 4

\* Leaving by ESC ESC gives back the text the field had.
Unchanged == answer = "escape" => TextOf(buf) = saved
====
