---- MODULE MCKeyMacros ----
EXTENDS KeyMacros

Esc == 27
Up == 2010
Bell == 2022
Ch(c) == CASE c = "a" -> 97 [] c = "b" -> 98 [] c = "d" -> 100 [] c = "g" -> 103
           [] c = "m" -> 109 [] c = "[" -> 91 [] c = "A" -> 65
PassOn == <<Any, Fn("PushK"), Fn("SetRetVal"), GivesResult>>

\* ESC [ A is a cursor key; every other key passes, over the stack the macros use.
CursorKeys == <<Open, Key(Esc), GivesResult, Open,
                  Key(Ch("[")), GivesResult, Open, Key(Ch("A")), Gives(Up), Any, Gives(Bell), Close,
                  Any, Gives(Bell), Close>> \o PassOn \o <<Close>>

\* m stands for a, b and what 2 * 2 + 1 - 1 gives on the stack; d for the key twice
\* its code; digits are gathered until g.
Macros == <<Open, Key(Ch("m")), Fn("Macro"), Open, Key(Ch("a")), Key(Ch("b")), Close,
              Fn("Push"), Digit(2), Fn("Dup"), Fn("Mul"), Fn("Push"), Digit(1), Fn("Add"),
              Fn("Push"), Digit(1), Fn("Sub"), Fn("Push"), Digit(1), Fn("Div"),
              Fn("MacroAdd"), GivesResult,
            Key(Ch("d")), Fn("Clear"), Fn("PushK"), Fn("Dup"), Fn("Add"), Fn("SetRetVal"),
              Fn("Display"), Text(0), Fn("PushKeyName"), Text(Up), Fn("Pop"), Fn("Exch"), Fn("Pstack"),
              Fn("Exit"), Fn("Dup"), Fn("SDisplayf"), Text(0), Gives(1),
            Range(48, 57), Fn("PushK"),
            Key(Ch("g")), Fn("StoN"), Fn("SetRetVal"), GivesResult,
            Any, Fn("Clear"), Fn("PushK"), Fn("SetRetVal"), GivesResult, Close>>

\* ESC before another key is itself, and the other key is read again.
BareEscape == <<Open, Key(Esc), GivesResult, Open,
                  Key(Ch("[")), Gives(Bell),
                  Any, Fn("PushK"), Fn("SUngetkey"), Gives(Esc), Close>> \o PassOn \o <<Close>>

MCFiles == {[t \in Tables |-> <<>>],
            [t \in Tables |-> IF t = "keys" THEN CursorKeys ELSE <<>>],
            [t \in Tables |-> IF t = "keys" THEN BareEscape ELSE <<>>],
            [t \in Tables |-> IF t = "keys" THEN CursorKeys ELSE Macros],
            [t \in Tables |-> IF t = "keys" THEN <<>> ELSE Macros]}
MCTyped == {Esc, Ch("["), Ch("A"), Ch("m"), Ch("d"), Ch("g"), 49, 50}

\* What the tables are meant to do with what was typed.
RECURSIVE CursorOf(_), EscapeOf(_), MacroOf(_, _)
EscapeOf(s) ==
  CASE s = <<>> \/ s = <<Esc>> -> <<>>
    [] Len(s) >= 2 /\ s[1] = Esc /\ s[2] = Ch("[") -> <<Bell>> \o EscapeOf(SubSeq(s, 3, Len(s)))
    [] Len(s) >= 2 /\ s[1] = Esc /\ s[2] # Ch("[") -> <<Esc>> \o EscapeOf(Tail(s))
    [] OTHER -> <<s[1]>> \o EscapeOf(Tail(s))
CursorOf(s) ==
  CASE s = <<>> \/ s = <<Esc>> \/ s = <<Esc, Ch("[")>> -> <<>>
    [] Len(s) >= 2 /\ s[1] = Esc /\ s[2] # Ch("[") -> <<Bell>> \o CursorOf(SubSeq(s, 3, Len(s)))
    [] Len(s) >= 3 /\ s[1] = Esc /\ s[2] = Ch("[") ->
         <<IF s[3] = Ch("A") THEN Up ELSE Bell>> \o CursorOf(SubSeq(s, 4, Len(s)))
    [] OTHER -> <<s[1]>> \o CursorOf(Tail(s))
MacroOf(s, number) ==
  IF s = <<>> THEN <<>>
  ELSE CASE s[1] \in 48..57 -> MacroOf(Tail(s), 10 * number + s[1] - 48)
         [] s[1] = Ch("g") -> <<number>> \o MacroOf(Tail(s), 0)
         [] s[1] = Ch("m") -> <<Ch("a"), Ch("b"), 4>> \o MacroOf(Tail(s), number)
         [] s[1] = Ch("d") -> <<2 * Ch("d")>> \o MacroOf(Tail(s), 0)
         [] OTHER -> <<s[1]>> \o MacroOf(Tail(s), 0)
CursorKeysRead == Loaded(CursorKeys)
BareEscapeRead == Loaded(BareEscape)
Meant ==
  LET keys == IF file["keys"] = CursorKeysRead THEN CursorOf(typed)
              ELSE IF file["keys"] = BareEscapeRead THEN EscapeOf(typed) ELSE typed
  IN  IF file["macros"] = <<>> THEN keys
      ELSE MacroOf(keys, 0)

\* When linput() has its key, it and the keys the macros still owe are exactly
\* what the tables make of the keys typed so far, in their order: none is lost,
\* doubled or overtaken by a later one; only a key pushed back is still to come.
AsMeant ==
  calls = <<>> /\ back = None =>
    LET given == out \o queue["macros"]
    IN  IF push = 0 THEN given = Meant ELSE given = SubSeq(Meant, 1, Len(given))
====
