---- MODULE KeyMacros ----
(***************************************************************************)
(* From the terminal to the key linput() is handed: two key tables, one    *)
(* behind the other (kt_macros reads its keys through kt_keys, which reads *)
(* the terminal), each a list of rules read from a file (Lex,              *)
(* ReadKeyList).  A rule names a key, a range or any key, the key it       *)
(* stands for, and actions: rules for the keys that follow, functions      *)
(* (funs.c) that work on one stack shared by both tables, and their        *)
(* arguments.  A table also has a queue of keys its macros have put in     *)
(* front of what is still to be typed.                                     *)
(*                                                                         *)
(* process() and DoActions() call each other and, through RdFunc, the      *)
(* other table; the calls that are under way are the frames of "calls".    *)
(***************************************************************************)
EXTENDS Integers, Sequences, FiniteSets

CONSTANTS Files,       \* for a table, the items of its file; << >> without one
          Typed,       \* the keys of the terminal
          MaxTyped,    \* bound: keys typed
          StackSize    \* 40 in the code

Tables == {"keys", "macros"}
None == -2000                       \* no key

ASSUME KeyAssumption == /\ \A fs \in Files : DOMAIN fs = Tables
                        /\ 0 \notin Typed /\ MaxTyped \in Nat /\ StackSize \in Nat \ {0}

VARIABLES file,     \* the rules read by Key_Construct(), << >> without a file
          calls,    \* the frames of the calls under way, the innermost last
          back,     \* what the call that ended returned, or None
          queue,    \* field_4 of each table: keys waiting to be handed out
          push,     \* PushBackChar, 0 when there is none
          reg,      \* CharRegister, the key read last
          value,    \* GlobalReturnValue, -1 when it is not set
          stack,    \* AStack, with the slot above it
          depth,    \* AStackPointer
          typed,    \* history: the keys typed
          out       \* history: the keys handed to linput()

vars == <<file, calls, back, queue, push, reg, value, stack, depth, typed, out>>

----------------------------------------------------------------------------
\* The file: its items (Lex) and the lists they make (ReadKeyList)

\* What an item is and what the registers of Lex hold after it.
Key(c)        == [is |-> "rule", from |-> c, to |-> c]      \* 'c' and +Name
Range(a, b)   == [is |-> "rule", from |-> a, to |-> b]      \* '[a-b]'
Any           == [is |-> "rule", from |-> 0, to |-> 0]      \* '*'
Gives(k)      == [is |-> "gives", key |-> k]                \* <Name, <@'c'
GivesResult   == [is |-> "gives", key |-> -1]               \* < alone
Fn(f)         == [is |-> "fn", name |-> f]
Digit(n)      == [is |-> "digit", n |-> n]                  \* 12, @Name, @'c'
Text(k)       == [is |-> "text", key |-> k]                \* "...", a key's name or none: 0
Open          == [is |-> "open"]
Close         == [is |-> "close"]

Matches(rule, c) == rule.any \/ c \in rule.from..rule.to

\* ReadKeyList(): what stands from item i to the end of its list: the actions and
\* the key of the rule read last, the rules after it, and the item behind the list.
ReadKeyList(items) ==
  LET f[i \in 1..Len(items) + 1] ==
        IF i > Len(items) \/ items[i].is = "close"
        THEN [acts |-> <<>>, gives |-> 0, rules |-> <<>>, next |-> i + 1]
        ELSE LET it == items[i]
                 r == f[i + 1]
                 rule == [from |-> it.from, to |-> it.to, any |-> it.from = 0,
                          gives |-> r.gives, acts |-> r.acts]
             IN  CASE it.is = "rule" -> [r EXCEPT !.acts = <<>>, !.gives = 0,
                                                  !.rules = <<rule>> \o @]
                   [] it.is = "gives" -> [r EXCEPT !.gives = IF @ = 0 THEN it.key ELSE @]
                   [] it.is = "open" ->
                        LET rest == f[r.next]
                        IN  [rest EXCEPT !.acts = <<[is |-> "list", rules |-> r.rules]>> \o @]
                   [] OTHER -> [r EXCEPT !.acts = <<it>> \o @]
  IN  f

\* KeyF_ReadFile(): the list between the outermost braces.
Loaded(items) == IF items = <<>> THEN <<>> ELSE ReadKeyList(items)[2].rules
Lists == [fs \in Files |-> [t \in Tables |-> Loaded(fs[t])]]

----------------------------------------------------------------------------
\* Frames

Top == calls[Len(calls)]
Below == SubSeq(calls, 1, Len(calls) - 1)

Process(t, rules) == [call |-> "process", table |-> t, rules |-> rules, asked |-> FALSE]
Get(t) == [call |-> "get", table |-> t]
Actions(t, rule) == [call |-> "acts", table |-> t, rule |-> rule, i |-> 1, got |-> -1]

Enter(f)    == calls' = Append(calls, f) /\ back' = None
Return(v)   == calls' = Below /\ back' = v
Replace(f)  == calls' = Append(Below, f) /\ back' = None
Became(f)   == calls' = Append(Below, f)

Quiet == UNCHANGED <<file, queue, push, reg, value, stack, depth, typed, out>>

----------------------------------------------------------------------------
\* Key_GetChar()

\* linput() asks for a key.
Ask == /\ calls = <<>> /\ back = None
       /\ Enter(Get("macros"))
       /\ Quiet

\* The key that came is handed to it.
Hand == /\ calls = <<>> /\ back # None
        /\ out' = Append(out, back) /\ back' = None
        /\ UNCHANGED <<file, calls, queue, push, reg, value, stack, depth, typed>>

\* The terminal's next key, as RdFunc of the key table.
Typing(c) == Len(typed) < MaxTyped /\ typed' = Append(typed, c)

\* KeyF_GetChar(): a table without a file passes its keys on; a key of a macro
\* comes first; else the rules are followed, and what they give is dropped when
\* they have put something in the queue.
GetChar ==
  /\ calls # <<>> /\ Top.call = "get"
  /\ LET t == Top.table IN
     \/ /\ file[t] = <<>> /\ t = "keys" /\ back = None
        /\ \E c \in Typed : Typing(c) /\ Return(c)
        /\ UNCHANGED <<file, queue, push, reg, value, stack, depth, out>>
     \/ /\ file[t] = <<>> /\ t = "macros"
        /\ IF back = None THEN Enter(Get("keys")) ELSE Return(back)
        /\ Quiet
     \/ /\ file[t] # <<>> /\ queue[t] # <<>>
        /\ Return(Head(queue[t])) /\ queue' = [queue EXCEPT ![t] = Tail(@)]
        /\ UNCHANGED <<file, push, reg, value, stack, depth, typed, out>>
     \/ /\ file[t] # <<>> /\ queue[t] = <<>>
        /\ IF back = None THEN Enter(Process(t, file[t])) ELSE Return(back)
        /\ Quiet

----------------------------------------------------------------------------
\* process()

\* A key is read: the one pushed back, or the next of the table's source.
Read ==
  /\ calls # <<>> /\ Top.call = "process" /\ ~Top.asked
  /\ \/ /\ push # 0
        /\ push' = 0 /\ Became([Top EXCEPT !.asked = TRUE]) /\ back' = push
        /\ UNCHANGED typed
     \/ /\ push = 0 /\ Top.table = "keys"
        /\ \E c \in Typed : /\ Typing(c) /\ back' = c
                            /\ Became([Top EXCEPT !.asked = TRUE])
        /\ UNCHANGED push
     \/ /\ push = 0 /\ Top.table = "macros"
        /\ calls' = Below \o <<[Top EXCEPT !.asked = TRUE], Get("keys")>>
        /\ back' = None
        /\ UNCHANGED <<push, typed>>
  /\ UNCHANGED <<file, queue, reg, value, stack, depth, out>>

\* The first rule for it has its actions done; without one process() gives -3.
Match ==
  /\ calls # <<>> /\ Top.call = "process" /\ Top.asked /\ back # None
  /\ LET fits == {i \in DOMAIN Top.rules : Matches(Top.rules[i], back)}
         first == CHOOSE i \in fits : \A j \in fits : i <= j
     IN  /\ reg' = back
         /\ IF fits = {} THEN Return(-3)
            ELSE /\ calls' = Below \o <<[Top EXCEPT !.asked = FALSE],
                                        Actions(Top.table, Top.rules[first])>>
                 /\ back' = None
  /\ UNCHANGED <<file, queue, push, value, stack, depth, typed, out>>

\* Mutant: a value set by an action stays set.
MatchedKept ==
  /\ calls # <<>> /\ Top.call = "acts" /\ Top.i > Len(Top.rule.acts) /\ back = None
  /\ IF Top.rule.gives = 0
     THEN calls' = Below /\ UNCHANGED back
     ELSE /\ calls' = SubSeq(calls, 1, Len(calls) - 2)
          /\ back' = IF value # -1 THEN value
                     ELSE IF Top.rule.gives = -1 THEN Top.got ELSE Top.rule.gives
  /\ UNCHANGED <<file, queue, push, reg, value, stack, depth, typed, out>>

\* The actions are done.  A rule without a key has process() read on; one with
\* "<" alone gives what its list gave; a value set by an action comes before both.
Matched ==
  /\ calls # <<>> /\ Top.call = "acts" /\ Top.i > Len(Top.rule.acts) /\ back = None
  /\ IF Top.rule.gives = 0
     THEN calls' = Below /\ UNCHANGED <<back, value>>
     ELSE /\ calls' = SubSeq(calls, 1, Len(calls) - 2)
          /\ back' = IF value # -1 THEN value
                     ELSE IF Top.rule.gives = -1 THEN Top.got ELSE Top.rule.gives
          /\ value' = -1
  /\ UNCHANGED <<file, queue, push, reg, stack, depth, typed, out>>

----------------------------------------------------------------------------
\* DoActions() and the functions of FTable

NotDigit == -1000                   \* a slot that holds no digit

Doing(f) == /\ calls # <<>> /\ Top.call = "acts" /\ Top.i <= Len(Top.rule.acts)
            /\ Top.rule.acts[Top.i].is = "fn" /\ Top.rule.acts[Top.i].name = f

HasArgument == Top.i < Len(Top.rule.acts)
Argument == Top.rule.acts[Top.i + 1]

\* Mutant: the list's head is taken for reached with its last action.
GoOnRound(args) ==
  LET j == Top.i + args
  IN  /\ Became([Top EXCEPT !.i = IF j >= Len(Top.rule.acts) THEN 1 ELSE j + 1])
      /\ UNCHANGED <<file, back, reg, typed, out>>

\* DoActions() goes on behind the arguments the function took (Arg_Trav).  One
\* that asked for an argument at the end of the list stands at the list's head,
\* which is followed by its first action.
GoOn(args) ==
  LET j == Top.i + args
  IN  /\ Became([Top EXCEPT !.i = IF j > Len(Top.rule.acts) THEN 1 ELSE j + 1])
      /\ UNCHANGED <<file, back, reg, typed, out>>

Slots(s, n) == stack' = s /\ depth' = n
SameStack == UNCHANGED <<stack, depth>>
SameRest  == UNCHANGED <<queue, push, value>>

\* A list among the actions is process()ed with the same table; other items
\* that no function took are passed over.
Step ==
  /\ calls # <<>> /\ Top.call = "acts" /\ Top.i <= Len(Top.rule.acts)
  /\ LET a == Top.rule.acts[Top.i] IN
     \/ /\ a.is = "list" /\ back = None
        /\ Enter(Process(Top.table, a.rules))
     \/ /\ a.is = "list" /\ back # None
        /\ Replace([Top EXCEPT !.i = @ + 1, !.got = back])
     \/ /\ a.is \in {"digit", "text"}
        /\ Replace([Top EXCEPT !.i = @ + 1])
  /\ Quiet

\* PushK, Push, PushKeyName: a value on the stack, unless it is full.  Push
\* takes whatever item follows; without one the slot keeps what was in it.
PushValue(v, args) ==
  /\ IF depth < StackSize THEN Slots([stack EXCEPT ![depth] = v], depth + 1) ELSE SameStack
  /\ GoOn(args)
  /\ SameRest
PushK == Doing("PushK") /\ PushValue(reg, 0)
DoPush == /\ Doing("Push")
          /\ PushValue(IF ~HasArgument THEN stack[depth]
                       ELSE IF Argument.is = "digit" THEN Argument.n ELSE NotDigit,
                       IF depth < StackSize THEN 1 ELSE 0)
PushKeyName == /\ Doing("PushKeyName") /\ HasArgument /\ Argument.is = "text"
               /\ PushValue(Argument.key, 1)

\* Dup: not tested for an empty stack, below which there is no digit.
Dup == /\ Doing("Dup")
       /\ IF depth <= StackSize - 2
          THEN Slots([stack EXCEPT ![depth] = IF depth = 0 THEN NotDigit ELSE stack[depth - 1]],
                     depth + 1)
          ELSE SameStack
       /\ GoOn(0) /\ SameRest

\* Exch: the slot above the top and the top are exchanged.
Exch == /\ Doing("Exch")
        /\ IF depth > 1
           THEN Slots([stack EXCEPT ![depth] = stack[depth - 1], ![depth - 1] = stack[depth]], depth)
           ELSE SameStack
        /\ GoOn(0) /\ SameRest

Pop == Doing("Pop") /\ Slots(stack, IF depth > 0 THEN depth - 1 ELSE 0) /\ GoOn(0) /\ SameRest
Clear == Doing("Clear") /\ Slots(stack, 0) /\ GoOn(0) /\ SameRest

\* Add, Sub, Mul, Div: the two upper digits make one.
Computed(f, a, b) == CASE f = "Add" -> b + a [] f = "Sub" -> b - a
                       [] f = "Mul" -> b * a [] f = "Div" -> b \div a
Maths == \E f \in {"Add", "Sub", "Mul", "Div"} :
  /\ Doing(f)
  /\ LET a == stack[depth - 1]
         b == stack[depth - 2]
     IN  IF depth > 1 /\ NotDigit \notin {a, b}
         THEN (f = "Div" => a # 0) /\ Slots([stack EXCEPT ![depth - 2] = Computed(f, a, b)], depth - 1)
         ELSE SameStack
  /\ GoOn(0) /\ SameRest

\* StoN: the keys on the stack, read as the digits of a number, give the number.
Number(n) ==
  LET isDigit(i) == stack[i] \in 48..57
      v[i \in 0..n] == IF i = 0 THEN 0
                       ELSE IF \A j \in 0..i - 1 : isDigit(j) THEN 10 * v[i - 1] + stack[i - 1] - 48
                       ELSE v[i - 1]
  IN  v[n]
StoN == /\ Doing("StoN")
        /\ IF \A i \in 0..depth - 1 : stack[i] # NotDigit
           THEN Slots([stack EXCEPT ![0] = Number(depth)], 1) ELSE SameStack
        /\ GoOn(0) /\ SameRest

\* SetRetVal: the top becomes what the rule gives.
SetRetVal == /\ Doing("SetRetVal")
             /\ Slots(stack, IF depth > 0 THEN depth - 1 ELSE 0)
             /\ value' = IF depth > 0 /\ stack[depth - 1] # NotDigit THEN stack[depth - 1] ELSE value
             /\ GoOn(0) /\ UNCHANGED <<queue, push>>

\* SUngetkey: the top is read again, by the table that reads next.
SUngetkey == /\ Doing("SUngetkey")
             /\ Slots(stack, IF depth > 0 THEN depth - 1 ELSE 0)
             /\ push' = IF depth > 0 /\ stack[depth - 1] # NotDigit /\ push = 0
                        THEN stack[depth - 1] ELSE push
             /\ GoOn(0) /\ UNCHANGED <<queue, value>>

\* Macro: the first key of each rule of the list that follows; MacroAdd: the top.
Queued(keys) == queue' = [queue EXCEPT ![Top.table] = @ \o keys]
Macro == /\ Doing("Macro") /\ HasArgument /\ Argument.is = "list"
         /\ Queued([i \in DOMAIN Argument.rules |-> Argument.rules[i].from])
         /\ GoOn(1) /\ SameStack /\ UNCHANGED <<push, value>>
MacroAdd == /\ Doing("MacroAdd")
            /\ Queued(<<IF depth > 0 /\ stack[depth - 1] # NotDigit THEN stack[depth - 1] ELSE 0>>)
            /\ Slots(stack, IF depth > 0 THEN depth - 1 ELSE 0)
            /\ GoOn(0) /\ UNCHANGED <<push, value>>

\* Functions that only write to the screen: Display and DisplayMe take the item
\* that follows whatever it is, Displayf when there is something to show; Pstack,
\* and Exit and MacroStr, which do nothing, take none.
Shows == /\ \/ (Doing("Display") \/ Doing("DisplayMe")) /\ SameStack /\ GoOn(1)
            \/ Doing("SDisplayf") /\ GoOn(IF depth = 0 THEN 0 ELSE 1)
               /\ Slots(stack, IF depth > 0 /\ HasArgument /\ Argument.is = "text"
                               THEN depth - 1 ELSE depth)
            \/ (Doing("Pstack") \/ Doing("Exit") \/ Doing("MacroStr")) /\ SameStack /\ GoOn(0)
         /\ SameRest

Functions == PushK \/ DoPush \/ PushKeyName \/ Dup \/ Exch \/ Pop \/ Clear \/ Maths \/ StoN
             \/ SetRetVal \/ SUngetkey \/ Macro \/ MacroAdd \/ Shows

----------------------------------------------------------------------------

Init == /\ \E fs \in Files : file = Lists[fs]
        /\ calls = <<>> /\ back = None
        /\ queue = [t \in Tables |-> <<>>]
        /\ push = 0 /\ reg = 0 /\ value = -1
        /\ stack = [i \in 0..StackSize |-> NotDigit] /\ depth = 0
        /\ typed = <<>> /\ out = <<>>

Next == Ask \/ Hand \/ GetChar \/ Read \/ Match \/ Matched \/ Step \/ Functions

\* Fairness: linput() goes on asking and the calls go on by themselves; what
\* the user types is up to him.
Inner == calls # <<>> /\ typed' = typed /\ Next
Spec == Init /\ [][Next]_vars /\ WF_vars(Inner)

----------------------------------------------------------------------------
\* Properties

\* process() or the terminal itself waits for a key.
AtTerminal == /\ calls # <<>> /\ push = 0
              /\ Top.table = "keys"
              /\ \/ Top.call = "process" /\ ~Top.asked
                 \/ Top.call = "get" /\ file["keys"] = <<>> /\ back = None

\* Whatever the rules do, linput() gets its key, or a key of the user is waited for.
CallsEnd == calls # <<>> ~> (calls = <<>> \/ AtTerminal)
====
