----------------------------- MODULE Structured -----------------------------
(***************************************************************************)
(* What a program of the language does: its lines are executed in order,   *)
(* an if executes the lines up to the next arm when its condition holds, a *)
(* while repeats its lines, do executes another block and comes back.      *)
(* There are no jumps here but goto; Program shows that the jumps of the   *)
(* compiled code do the same.                                              *)
(***************************************************************************)
EXTENDS Naturals, Sequences, FiniteSets, FiniteSetsExt

CONSTANT Depth              \* bound: how many do's are under way at once

VARIABLES text,             \* the lines, [k |-> kind, n |-> name or ""]
          todo,             \* the line each do under way is at, the last one running
          ended             \* "no", "end", "exit_block", "restart_block"

vars == <<text, todo, ended>>

Kind(i) == text[i].k
Lines == DOMAIN text
Arms == {"elsif", "else", "endif"}

\* the constructs that are open before line i
Inside(i) == Cardinality({j \in 1..(i - 1) : Kind(j) \in {"if", "while"}})
             - Cardinality({j \in 1..(i - 1) : Kind(j) \in {"endif", "wend"}})
Own(i) == IF Kind(i) \in {"if", "while"} THEN Inside(i) + 1 ELSE Inside(i)
\* the next line of the construct of line i that is of one of the kinds
Later(i, kinds) ==
    Min({Len(text)} \union {j \in Lines : j > i /\ Kind(j) \in kinds /\ Inside(j) = Own(i)})
NextArm(i) == Later(i, Arms)
Endif(i) == Later(i, {"endif"})
Wend(i) == Later(i, {"wend"})
Loop(i) == Max({1} \union {j \in 1..i : Kind(j) = "while" /\ Wend(j) >= i})
LabelOf(i) == CHOOSE j \in Lines : text[j] = [k |-> "label", n |-> text[i].n]
BlockOf(i) == Min({j \in Lines : text[j] = [k |-> "open", n |-> text[i].n]})

\* the line that is executed next when control comes to line i from above
At(i) ==
    LET to[n \in 0..Len(text), j \in 1..(Len(text) + 1)] ==
            CASE n = 0 \/ j > Len(text) -> j
              [] Kind(j) \in {"label", "endif"} -> to[n - 1, j + 1]
              [] Kind(j) \in {"elsif", "else"} -> to[n - 1, Endif(j) + 1]
              [] Kind(j) = "wend" -> Loop(j)
              [] OTHER -> j
    IN to[Len(text), i]
\* the line that is executed next when the condition of line i does not hold
Otherwise(i) ==
    LET arm == NextArm(i)
    IN IF Kind(i) = "while" THEN At(Wend(i) + 1)
       ELSE IF Kind(arm) = "elsif" THEN arm ELSE At(arm + 1)

--------------------------------------------------------------------------
Top == todo[Len(todo)]
Goes(i) == todo' = [todo EXCEPT ![Len(todo)] = i] /\ UNCHANGED ended
Back == SubSeq(todo, 1, Len(todo) - 1)
\* a do that comes back goes on after the do
Returns ==
    IF Len(todo) = 1 THEN todo' = <<>> /\ ended' = "end"
    ELSE /\ todo' = [Back EXCEPT ![Len(Back)] = At(@ + 1)]
         /\ UNCHANGED ended

Run ==
    /\ todo # <<>>
    /\ UNCHANGED text
    /\ \/ Kind(Top) \in {"statement", "break"} /\ Goes(At(Top + 1))
       \/ Kind(Top) \in {"if", "elsif", "while"}
          /\ (Goes(At(Top + 1)) \/ Goes(Otherwise(Top)))
       \/ Kind(Top) = "continue" /\ Goes(Loop(Top))
       \/ Kind(Top) = "endloop" /\ Goes(At(Wend(Loop(Top)) + 1))
       \/ Kind(Top) = "goto" /\ Goes(At(LabelOf(Top)))
       \/ /\ Kind(Top) = "do"
          /\ Len(todo) < Depth
          /\ todo' = Append(todo, At(BlockOf(Top) + 1))
          /\ UNCHANGED ended
       \/ Kind(Top) = "close" /\ Returns
       \/ /\ Kind(Top) = "exit_do"
          /\ IF Len(todo) = 1 THEN Goes(At(Top + 1)) ELSE Returns
       \/ /\ Kind(Top) \in {"exit_block", "restart_block"}
          /\ todo' = <<>>
          /\ ended' = Kind(Top)

\* a block is started once the program is there
Start(i) ==
    /\ todo = <<>> /\ ended = "no"
    /\ todo' = <<At(i + 1)>>
    /\ UNCHANGED <<text, ended>>

Init == todo = <<>> /\ ended = "no"
Next == Run \/ \E i \in Lines : Kind(i) = "open" /\ Start(i)
Spec == Init /\ [][Next]_vars
=============================================================================
