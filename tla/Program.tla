------------------------------ MODULE Program ------------------------------
(***************************************************************************)
(* The control structures of a program: how clcomp turns the lines of a    *)
(* source into numbered steps with jumps in one pass, and how clenter      *)
(* executes the steps.                                                     *)
(*                                                                         *)
(* The compiler knows the line after an arm only when it gets there: what  *)
(* has to be filled in later is kept in the if/while table `itab`, whose   *)
(* entry `it` is the next free one and whose entries keep what an earlier  *)
(* construct left in them.  The recursion of leblock, leif, lewhile and    *)
(* loadstate is the stack `calls`.                                         *)
(*                                                                         *)
(* A line of the source is one symbol here; what a statement other than    *)
(* those about control contains is left out.  Steps are numbered from 0,   *)
(* as in the code; step n is code[n + 1].                                  *)
(***************************************************************************)
EXTENDS Naturals, Integers, Sequences, FiniteSets, SequencesExt, FiniteSetsExt

CONSTANTS Texts,            \* the sources: sequences of [k |-> kind, n |-> name]
          MaxErrors,        \* loaderr gives up at this many errors (20 in the code)
          Depth             \* bound: how many do's are under way at once

VARIABLES text,             \* the source
          pos,              \* how many of its lines are read
          calls,            \* the handlers that are under way, the innermost last
          itab, it,         \* the if/while table and its next free entry
          code,             \* the steps (PTABs)
          blocks,           \* the blocks (BTABs)
          labels,           \* the labels (LTABs)
          whiles,           \* while_count
          errs,             \* comp_errs
          phase,            \* "compile", "link", "refused", "ready"
          run,              \* the _ploop()s under way, [pc, end]
          ended             \* how the program ended

vars == <<text, pos, calls, itab, it, code, blocks, labels, whiles, errs, phase, run, ended>>
compiled == <<text, pos, calls, itab, it, code, blocks, labels, whiles, errs, phase>>
running == <<run, ended>>

Here == pos + 1
Line == text[Here]
Is(kind) == pos < Len(text) /\ Line.k = kind
AtEnd == pos = Len(text)
Inner == IF calls = <<>> THEN "none" ELSE Last(calls)
Outer == Front(calls)
Next0 == Len(code)                    \* *LineNo: the number of the next step

NoEntry == [type |-> 0, pfalse |-> 0, ptab |-> 0, hasElse |-> FALSE, hasElsif |-> FALSE]
Step(op, operand) == [op |-> op, operand |-> operand, name |-> "", at |-> Here]
Named(op) == [Step(op, 0) EXCEPT !.name = Line.n]

Reads == pos' = pos + 1
Same == UNCHANGED <<text, running>>
Errs(n) == /\ errs' = errs + n
           /\ phase' = IF errs + n >= MaxErrors THEN "refused" ELSE phase
\* loaderr() and the rest of the line is skipped
Wrong == /\ Errs(1)
         /\ Reads
         /\ UNCHANGED <<text, calls, itab, it, code, blocks, labels, whiles, running>>

\* step number n of the code gets the operand o, where n = 0 is no step
Patch(c, n, o) == IF n = 0 THEN c ELSE [c EXCEPT ![n].operand = o]

--------------------------------------------------------------------------
(* Blocks and statements *)

Init ==
    /\ text \in Texts
    /\ pos = 0 /\ calls = <<>>
    /\ itab = [i \in 1..Len(text) |-> NoEntry] /\ it = 1
    /\ code = <<>> /\ blocks = <<>> /\ labels = <<>>
    /\ whiles = 0 /\ errs = 0
    /\ phase = "compile"
    /\ run = <<>> /\ ended = "no"

\* mutated: a block is known once it is closed
KnownClosed(name) == {b \in DOMAIN blocks : blocks[b].name = name /\ blocks[b].end # 0
                                             /\ blocks[b].start # 0}
Known(name) == {b \in DOMAIN blocks : blocks[b].name = name}

\* outside of a block only a block may follow
Outside ==
    /\ phase = "compile" /\ ~AtEnd /\ calls = <<>> /\ Line.k # "open"
    /\ Wrong

OpenBlock ==
    /\ phase = "compile" /\ calls = <<>> /\ Is("open")
    /\ calls' = <<"block">>
    /\ IF Known(Line.n) # {} /\ \E b \in Known(Line.n) : blocks[b].start # 0 \/ blocks[b].end # 0
       THEN Errs(1) /\ UNCHANGED blocks
       ELSE /\ UNCHANGED <<errs, phase>>
            /\ blocks' = IF Known(Line.n) # {} THEN blocks
                         ELSE Append(blocks, [name |-> Line.n, start |-> Next0, end |-> 0])
    /\ Reads
    /\ UNCHANGED <<itab, it, code, labels, whiles>> /\ Same

\* the last screen of the block ends and then the block
CloseBlock ==
    /\ phase = "compile" /\ Inner = "block" /\ Is("close")
    /\ blocks' = [blocks EXCEPT ![Len(blocks)].end = Next0]
    /\ code' = code \o <<Step("break", 0), Step("end", 0)>>
    /\ calls' = Outer
    /\ Reads
    /\ UNCHANGED <<itab, it, labels, whiles, errs, phase>> /\ Same

Plain == {"statement", "exit_do", "exit_block", "restart_block"}
\* one step of code, and nothing else the control depends on
Statement ==
    /\ phase = "compile" /\ ~AtEnd /\ calls # <<>>
    /\ \/ Line.k \in Plain
       \/ Line.k = "break" /\ Inner = "block"
    /\ code' = Append(code, Step(Line.k, 0))
    /\ Reads
    /\ UNCHANGED <<calls, itab, it, blocks, labels, whiles, errs, phase>> /\ Same

\* goto and do know their place by name until the program is linked
Goto ==
    /\ phase = "compile" /\ calls # <<>> /\ Is("goto")
    /\ code' = Append(code, Named("goto"))
    /\ Reads
    /\ UNCHANGED <<calls, itab, it, blocks, labels, whiles, errs, phase>> /\ Same
Do ==
    /\ phase = "compile" /\ calls # <<>> /\ Is("do")
    /\ code' = Append(code, Named("do"))
    /\ Reads
    /\ UNCHANGED <<calls, itab, it, blocks, labels, whiles, errs, phase>> /\ Same

Label ==
    /\ phase = "compile" /\ calls # <<>> /\ Is("label")
    /\ \A l \in Range(labels) : l.name # Line.n
    /\ labels' = Append(labels, [name |-> Line.n, step |-> Next0])
    /\ Reads
    /\ UNCHANGED <<calls, itab, it, code, blocks, whiles, errs, phase>> /\ Same
LabelAgain ==
    /\ phase = "compile" /\ calls # <<>> /\ Is("label")
    /\ \E l \in Range(labels) : l.name = Line.n
    /\ Wrong

\* continue and endloop have no operand until their loop ends
LoopExit ==
    /\ phase = "compile" /\ calls # <<>> /\ (Is("continue") \/ Is("endloop"))
    /\ whiles > 0
    /\ code' = Append(code, Step(Line.k, 0))
    /\ Reads
    /\ UNCHANGED <<calls, itab, it, blocks, labels, whiles, errs, phase>> /\ Same

\* a line that no handler that is under way takes
Misplaced ==
    /\ phase = "compile" /\ ~AtEnd /\ calls # <<>>
    /\ \/ Line.k = "open"
       \/ Line.k \in {"break", "close"} /\ Inner # "block"
       \/ Line.k \in {"continue", "endloop"} /\ whiles = 0
       \/ Line.k = "elsif" /\ Inner # "if"
       \/ Line.k = "else" /\ Inner # "if"
       \/ Line.k = "endif" /\ Inner \notin {"if", "else"}
       \/ Line.k = "wend" /\ Inner # "while"
    /\ Wrong

--------------------------------------------------------------------------
(* if and while *)

Entry(type, n) == [itab[it] EXCEPT !.type = type, !.pfalse = n]

If ==
    /\ phase = "compile" /\ calls # <<>> /\ Is("if")
    /\ itab' = [itab EXCEPT ![it] = Entry(1, Next0 + 1)]
    /\ it' = it + 1
    /\ code' = Append(code, Step("if", 0))
    /\ calls' = Append(calls, "if")
    /\ Reads
    /\ UNCHANGED <<blocks, labels, whiles, errs, phase>> /\ Same

\* the arm that ends jumps behind the endif, which is not known yet, and
\* the condition before it comes here when it is false
Elsif ==
    /\ phase = "compile" /\ Inner = "if" /\ Is("elsif")
    /\ LET top == itab[it - 1]
       IN  /\ code' = Patch(code, top.pfalse, Next0 + 1) \o <<Step("goto", 0), Step("if", 0)>>
           /\ itab' = [itab EXCEPT
                  ![it - 1] = [top EXCEPT !.hasElsif = TRUE, !.ptab = Next0 + 1, !.pfalse = 0],
                  ![it] = Entry(1, Next0 + 2)]
    /\ it' = it + 1
    /\ Reads
    /\ UNCHANGED <<calls, blocks, labels, whiles, errs, phase>> /\ Same

Else ==
    /\ phase = "compile" /\ Inner = "if" /\ Is("else")
    /\ LET top == itab[it - 1]
       IN  /\ code' = Append(Patch(code, top.pfalse, Next0 + 1), Step("goto", 0))
           /\ itab' = [itab EXCEPT
                  ![it - 1] = [top EXCEPT !.hasElse = TRUE, !.ptab = Next0 + 1, !.pfalse = 0]]
    /\ calls' = Append(Outer, "else")
    /\ Reads
    /\ UNCHANGED <<it, blocks, labels, whiles, errs, phase>> /\ Same

\* mutated: only the last two arms are looked at
FirstArmOfTwo(i) == Max({1, i - 1})
\* the arms of the construct whose last arm is entry i
FirstArm(i) == Min({j \in 1..i : \A k \in j..(i - 1) : itab[k].hasElsif})
Patches(c, ns) == [n \in DOMAIN c |-> IF n \in ns THEN [c[n] EXCEPT !.operand = Next0] ELSE c[n]]
ChainEnds(i) ==
    LET arms == FirstArm(i)..i
    IN  /\ code' = Patches(code, {itab[j].ptab : j \in arms} \union {itab[i].pfalse})
        /\ itab' = [j \in DOMAIN itab |->
                      IF j \notin arms THEN itab[j]
                      ELSE [itab[j] EXCEPT !.hasElse = FALSE, !.ptab = 0,
                              !.hasElsif = IF j = i THEN @ ELSE FALSE,
                              !.pfalse = IF j = i THEN 0 ELSE @]]
        /\ it' = FirstArm(i)
OneEnds(i) ==
    LET e == itab[i]
    IN  /\ it' = i
        /\ IF e.hasElse
           THEN /\ code' = Patch(code, e.ptab, Next0)
                /\ itab' = [itab EXCEPT ![i] = [e EXCEPT !.hasElse = FALSE, !.ptab = 0]]
           ELSE /\ code' = Patch(code, e.pfalse, Next0)
                /\ itab' = [itab EXCEPT ![i].pfalse = 0]
Endif ==
    /\ phase = "compile" /\ Inner \in {"if", "else"} /\ Is("endif")
    /\ IF it > 2 /\ itab[it - 2].hasElsif THEN ChainEnds(it - 1) ELSE OneEnds(it - 1)
    /\ calls' = Outer
    /\ Reads
    /\ UNCHANGED <<blocks, labels, whiles, errs, phase>> /\ Same

\* the step of the while keeps its own number until the loop ends
While ==
    /\ phase = "compile" /\ calls # <<>> /\ Is("while")
    /\ itab' = [itab EXCEPT ![it] = Entry(2, Next0 + 1)]
    /\ it' = it + 1
    /\ code' = Append(code, Step("while", Next0))
    /\ whiles' = whiles + 1
    /\ calls' = Append(calls, "while")
    /\ Reads
    /\ UNCHANGED <<blocks, labels, errs, phase>> /\ Same

\* the jumps of the loop that no inner loop has taken
Loops(c, first, after) ==
    [n \in DOMAIN c |->
        IF n > first /\ c[n].operand = 0 /\ c[n].op \in {"continue", "endloop"}
        THEN [c[n] EXCEPT !.operand = IF c[n].op = "continue" THEN first ELSE after]
        ELSE c[n]]
Wend ==
    /\ phase = "compile" /\ Inner = "while" /\ Is("wend")
    /\ LET head == itab[it - 1].pfalse
           first == code[head].operand
       IN  code' = Loops(Patch(Append(code, Step("goto", first)), head, Next0 + 1),
                         first, Next0 + 1)
    /\ it' = it - 1
    /\ whiles' = whiles - 1
    /\ calls' = Outer
    /\ Reads
    /\ UNCHANGED <<itab, blocks, labels, errs, phase>> /\ Same

\* The file ends.  leif() returns; leblock() reports it, which ends the
\* compilation; lewhile() asks for the next line for ever: no action here.
\* mutated: leif() goes on at the end of the file
IfGoesOn == phase = "never" /\ UNCHANGED vars
IfAtEnd ==
    /\ phase = "compile" /\ AtEnd /\ Inner \in {"if", "else"}
    /\ calls' = Outer
    /\ UNCHANGED <<pos, itab, it, code, blocks, labels, whiles, errs, phase>> /\ Same
BlockAtEnd ==
    /\ phase = "compile" /\ AtEnd /\ Inner = "block"
    /\ errs' = errs + 1 /\ phase' = "refused"
    /\ UNCHANGED <<pos, calls, itab, it, code, blocks, labels, whiles>> /\ Same
FileAtEnd ==
    /\ phase = "compile" /\ AtEnd /\ calls = <<>>
    /\ phase' = IF errs = 0 THEN "link" ELSE "refused"
    /\ UNCHANGED <<pos, calls, itab, it, code, blocks, labels, whiles, errs>> /\ Same

--------------------------------------------------------------------------
(* The names become numbers *)

Unset == Len(blocks) + 1
BlockNo(name) == IF Known(name) = {} THEN Unset ELSE Min(Known(name))
LabelNo(name) == {l.step : l \in {x \in Range(labels) : x.name = name}}
Unknown == {n \in DOMAIN code : \/ code[n].op = "do" /\ BlockNo(code[n].name) = Unset
                                \/ code[n].op = "goto" /\ code[n].name # ""
                                   /\ LabelNo(code[n].name) = {}}
\* a block from step 0 to step 0 passes for one that was never defined
Nowhere == {b \in DOMAIN blocks : blocks[b].start = 0 /\ blocks[b].end = 0}
Linked(s) == CASE s.op = "do" -> [s EXCEPT !.operand = BlockNo(s.name)]
               [] s.op = "goto" /\ s.name # "" /\ LabelNo(s.name) # {} ->
                       [s EXCEPT !.operand = Min(LabelNo(s.name)), !.name = ""]
               [] OTHER -> s
Link ==
    /\ phase = "link"
    /\ code' = [n \in DOMAIN code |-> Linked(code[n])]
    /\ errs' = errs + Cardinality(Unknown) + Cardinality(Nowhere)
    /\ phase' = IF errs' = 0 THEN "ready" ELSE "refused"
    /\ UNCHANGED <<pos, calls, itab, it, blocks, labels, whiles>> /\ Same

--------------------------------------------------------------------------
(* Execution (_ploop) *)

Frame == Last(run)
Pc == Frame.pc
Op == code[Pc + 1]
Executes(ops) == phase = "ready" /\ run # <<>> /\ Pc <= Frame.end /\ Op.op \in ops
Jump(n) == run' = [run EXCEPT ![Len(run)].pc = n] /\ UNCHANGED <<compiled, ended>>
Call(b) == [pc |-> blocks[b].start, end |-> blocks[b].end]
\* the caller goes on with the step after its do
Resume == IF Len(run) = 1 THEN <<>> ELSE [Front(run) EXCEPT ![Len(run) - 1].pc = @ + 1]

StartBlock ==
    /\ phase = "ready" /\ run = <<>> /\ ended = "no"
    /\ \E b \in DOMAIN blocks : run' = <<Call(b)>>
    /\ UNCHANGED <<compiled, ended>>
Plod == Executes({"statement", "break", "end"}) /\ Jump(Pc + 1)
Test == Executes({"if", "while"}) /\ (Jump(Pc + 1) \/ Jump(Op.operand))
Branch == Executes({"goto", "continue", "endloop"}) /\ Jump(Op.operand)
DoBlock ==
    /\ Executes({"do"}) /\ Len(run) < Depth
    /\ run' = Append(run, Call(Op.operand))
    /\ UNCHANGED <<compiled, ended>>
Returns ==
    /\ run' = Resume
    /\ ended' = IF Len(run) = 1 THEN "end" ELSE ended
    /\ UNCHANGED compiled
BlockEnds == phase = "ready" /\ run # <<>> /\ Pc > Frame.end /\ Returns
\* outside of a do, exit_do does nothing
ExitDo == Executes({"exit_do"}) /\ IF Len(run) = 1 THEN Jump(Pc + 1) ELSE Returns
\* -5 and -17 end every do under way
ExitBlock ==
    /\ Executes({"exit_block", "restart_block"})
    /\ run' = <<>> /\ ended' = Op.op
    /\ UNCHANGED compiled

Compile == \/ Outside \/ OpenBlock \/ CloseBlock \/ Statement \/ Goto \/ Do \/ Label
           \/ LabelAgain \/ LoopExit \/ Misplaced \/ If \/ Elsif \/ Else \/ Endif
           \/ While \/ Wend \/ IfAtEnd \/ BlockAtEnd \/ FileAtEnd \/ Link
Execute == \/ StartBlock \/ Plod \/ Test \/ Branch \/ DoBlock \/ BlockEnds \/ ExitDo
           \/ ExitBlock
Next == Compile \/ Execute
Spec == Init /\ [][Next]_vars
FairSpec == Spec /\ WF_vars(Compile)

--------------------------------------------------------------------------
(* Properties *)

\* The lines nest as the language has them.
Nest ==
    LET after[i \in 0..Len(text)] ==
            IF i = 0 THEN <<>>
            ELSE LET open == after[i - 1]  k == text[i].k
                     in == IF open = <<>> THEN "none" ELSE Last(open)
                 IN CASE open = <<"wrong">> -> open
                      [] k = "open" -> IF open = <<>> THEN <<"block">> ELSE <<"wrong">>
                      [] in = "none" -> <<"wrong">>
                      [] k = "close" -> IF in = "block" THEN <<>> ELSE <<"wrong">>
                      [] k = "break" -> IF in = "block" THEN open ELSE <<"wrong">>
                      [] k \in {"if", "while"} -> Append(open, k)
                      [] k = "elsif" -> IF in = "if" THEN open ELSE <<"wrong">>
                      [] k = "else" -> IF in = "if" THEN Append(Front(open), "else") ELSE <<"wrong">>
                      [] k = "endif" -> IF in \in {"if", "else"} THEN Front(open) ELSE <<"wrong">>
                      [] k = "wend" -> IF in = "while" THEN Front(open) ELSE <<"wrong">>
                      [] k \in {"continue", "endloop"} ->
                             IF "while" \in Range(open) THEN open ELSE <<"wrong">>
                      [] OTHER -> open
    IN after[Len(text)] = <<>>
Names(k) == {text[i].n : i \in {j \in DOMAIN text : text[j].k = k}}
Once(k) == \A i, j \in DOMAIN text : text[i] = text[j] /\ text[i].k = k => i = j
\* the first block has a step of its own
FirstHasStep ==
    \A i \in DOMAIN text : text[i].k = "close" /\ (\A j \in 1..(i - 1) : text[j].k # "close")
        => \E j \in 1..(i - 1) : text[j].k \notin {"open", "label"}
WellFormed == /\ Nest /\ Once("label") /\ Once("open") /\ FirstHasStep
              /\ Names("goto") \subseteq Names("label") /\ Names("do") \subseteq Names("open")

\* A source is accepted when its constructs nest and its names are known, and
\* only then: the single pass of loadent, leblock, leif and lewhile, which
\* keeps track with its own recursion and with counters, misses nothing.
Accepts == /\ phase = "ready" => WellFormed
           /\ phase = "refused" => ~WellFormed

\* Executing the compiled steps does what the lines say: every jump that
\* leif, lewhile and loadent filled in afterwards leads to the line where
\* the construct goes on, and do comes back to its caller.
Land(n) ==
    LET to[f \in 0..Len(code), i \in 0..Len(code)] ==
            LET s == code[i + 1]
            IN IF f > 0 /\ s.op = "goto" /\ text[s.at].k \in {"elsif", "else", "wend"}
               THEN to[f - 1, s.operand] ELSE s.at
    IN to[Len(code), n]
Lines == INSTANCE Structured WITH
             todo <- [f \in DOMAIN run |-> Land(run[f].pc)]
AsWritten == Lines!Spec

\* Every compilation comes to an end, whatever is wrong with the source.
CompileEnds == <>(phase \in {"ready", "refused"})
=============================================================================
