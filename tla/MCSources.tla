----------------------------- MODULE MCSources -----------------------------
(* What the compiler is given: sources as lines, for its blocks, and as       *)
(* characters, for its symbols; and what it holds when it writes a program:   *)
(* an empty one and one that has everything.                                  *)
EXTENDS Integers, Sequences, FiniteSets, SequencesExt, TLC

L(k) == [k |-> k, n |-> ""]
N(k, n) == [k |-> k, n |-> n]
BlockOf(name, body) == <<N("open", name)>> \o body \o <<L("close")>>

Bodies(kinds, n) == UNION {[1..i -> {L(k) : k \in kinds}] : i \in 0..n}
Count(s, k) == Cardinality({i \in DOMAIN s : s[i].k \in k})
Ahead(s, a, b) == \A i \in DOMAIN s :
                     Count(SubSeq(s, 1, i), {a}) >= Count(SubSeq(s, 1, i), {b})
\* every while and if is closed, in the order that they were opened
Nested(s) ==
    LET open[i \in 0..Len(s)] ==
            IF i = 0 THEN <<>>
            ELSE LET o == open[i - 1]
                 IN CASE s[i].k \in {"if", "while"} -> Append(o, s[i].k)
                      [] s[i].k \in {"endif", "wend"} ->
                             IF o # <<>> /\ Last(o) = IF s[i].k = "wend" THEN "while" ELSE "if"
                             THEN Front(o) ELSE <<"wrong">>
                      [] OTHER -> o
    IN open[Len(s)] = <<>>

If1 == {"if", "elsif", "else", "endif", "statement"}
Loop1 == {"while", "wend", "if", "endif", "continue", "endloop"}
\* nested ifs with their arms, loops with their exits
Ifs == {s \in Bodies(If1, 7) : Nested(s)}
Loops1 == {s \in Bodies(Loop1, 6) : Nested(s)}
\* anything at all
Any1 == {s \in Bodies({"if", "elsif", "else", "endif", "while", "wend", "continue", "statement",
                      "break", "open", "close"}, 3) :
            Count(s, {"while"}) <= Count(s, {"wend"}) /\ Ahead(s, "while", "wend")
            /\ (Count(s, {"while"}) > 0 => Count(s, {"if"}) = 0)}

Named1 == Bodies({"statement", "exit_do", "exit_block", "restart_block"}, 2)
GotoBody == <<L("if"), N("goto", "b"), L("elsif"), N("label", "a"), L("statement"), L("endif"),
              N("label", "b"), L("while"), N("goto", "a"), L("wend")>>
Two == {BlockOf("m", <<L("if"), N("do", "s"), L("else"), L("statement"), L("endif"), N("do", "s"),
                     L("exit_do")>>) \o BlockOf("s", s) : s \in Named1}
Deep == {BlockOf("m", <<N("do", "s"), L("break"), L("statement")>>) \o
         BlockOf("s", <<L("if"), N("do", "t"), L("endif")>>) \o BlockOf("t", s) : s \in Named1}
Bad == {BlockOf("m", <<N("goto", "a"), N("label", "b")>>), BlockOf("m", <<N("do", "s")>>),
        BlockOf("m", <<L("statement")>>) \o BlockOf("m", <<L("statement")>>),
        BlockOf("m", <<N("label", "a"), N("label", "a")>>),
        <<L("statement")>> \o BlockOf("m", <<>>), BlockOf("m", <<L("statement")>>) \o <<L("if")>>,
        <<N("open", "m"), L("if"), L("else"), L("statement")>>, <<N("open", "m"), L("if")>>,
        <<N("open", "m"), L("statement")>>}
Programs == {BlockOf("m", s) : s \in Ifs \union Loops1 \union Any1} \union {BlockOf("m", GotoBody)}
            \union Two \union Deep \union Bad

----------------------------------------------------------------------------
UpTo(S, n) == UNION {[1..k -> S] : k \in 0..n}
Ended(t) == t \o <<10>>
\* every text of some characters: a 1 - = * x space tab newline # " \ n
Alone == {[main |-> Ended(t), file |-> <<>>, plain |-> Ended(t)] :
            t \in UpTo({97, 49, 45, 61, 42, 32, 10, 35, 34, 92}, 4) \union UpTo({49, 45, 120, 46, 61}, 4)
                    \union UpTo({34, 39, 92, 110, 10, 49}, 4)}
\* a file with an include: what stands before it, in the file, behind it; "I" is the word "include"
Naming(rest) == <<73, 32, 34, 97, 34>> \o rest \o <<10>>
Including == {[main |-> a \o Naming(m) \o z, file |-> f, plain |-> a \o <<10>> \o f \o z] :
             a \in {<<>>, <<34, 92, 10, 34, 10>>, <<35, 10>>},
             m \in {<<>>, <<32, 97>>, <<35, 34>>},
             f \in {<<>>} \union {Ended(t) : t \in {u \in UpTo({97, 10, 35, 34, 92}, 3) : u = <<>> \/ Last(u) # 92}},
             z \in {Ended(t) : t \in UpTo({97, 10, 35}, 1)}}
Characters == Alone \union Including

----------------------------------------------------------------------------
Shorts(fs) == [i \in DOMAIN fs |-> <<fs[i], 2>>]
Words(fs) == [i \in DOMAIN fs |-> <<fs[i], 4>>]
KxRow == Shorts(<<"KXFlags", "WhereEXP", "NumTTs", "NumKeyFields", "NumDataFields", "KeySize", "RecSize">>)
         \o Words(<<"TTno">>)

Row(t, i, layout) ==
    [f \in {layout[j][1] : j \in DOMAIN layout} |->
        100 * t + 10 * i + (CHOOSE j \in DOMAIN layout : layout[j][1] = f)]
Rows(t, n, layout) == [i \in 1..n |-> Row(t, i, layout)]

XRow == Shorts(<<"Flags", "Attr", "ScrAttrib", "field_32", "FLDnum", "Width", "width",
                 "PCol", "PLine", "ACol", "ALine", "C_X", "C_Y", "onesc", "RangeID",
                 "VarExpNo", "WidthEXP", "PCol_exp", "PLine_exp", "ACol_exp",
                 "ALine_exp", "Prompt_exp">>)
Var(i, stat, type, tdf, data) ==
    [TDFtype |-> tdf, FLDstat |-> stat, FLDelemID |-> i, FLDlen |-> 3, FLDtype |-> type,
     field_15 |-> 0, data |-> data]
Step4(i, op, tab) == [SrcLineNo |-> i, OpCode |-> op, Operand |-> 7, TABno |-> tab]
Node(i, k, a, b) ==
    [entype |-> k, extOpCode |-> 0, a |-> a, b |-> b, enleft |-> i + 20, enright |-> i + 21]
Btab(i, scrs, d, x, e, n) ==
    [BTFlags |-> 0, EndLine |-> 60 + i, fmts |-> 61, StartLine |-> 62, TTno |-> 63,
     Scrs |-> scrs, EXPR |-> 0, On_delete |-> d, On_exit |-> x, On_excep |-> e,
     On_entry |-> n, Maintain |-> 64, BlockName |-> 65]
Td(db, name, flags, subs, keys) ==
    [db |-> db, name |-> name, TDlocked |-> flags, subs |-> subs, keys |-> keys, crc |-> 9]
Create(i) ==
    [row |-> Row(14, i, KxRow \o <<<<"TableName", 1>>>>), KeyElemIDs |-> <<1, 2>>,
     TkeyTy |-> <<3, 4>>, DataElemIDs |-> <<5>>, TTlist |-> <<6, 7, 8>>]

Empty ==
    [tables |-> <<>>, esc |-> 0, vars |-> <<Var(0, 4, 67, 26, 0)>>,
     steps |-> <<Step4(1, 950, 0)>>, nodes |-> <<>>, accepts |-> <<>>, escs |-> <<>>,
     refs |-> <<>>, ranges |-> <<>>, copies |-> <<>>, files |-> <<>>, prints |-> <<>>,
     reads |-> <<>>, creates |-> <<>>, strs |-> 1, blocks |-> <<Btab(1, 1, 0, 0, 0, 0)>>]
Full ==
    [tables |-> <<Td("d1", "t1", {"GET", "FLOCK"}, TRUE, TRUE), Td("d2", "t2", {"CREATE"}, FALSE, FALSE),
                  Td("d1", "t3", {"PUT"}, FALSE, TRUE)>>,
     esc |-> 2,
     vars |-> <<Var(0, 4, 78, 68, 0), Var(0, 0, 67, 26, 51), Var(2, 4, 67, 26, 0),
                Var(0, 0, 78, 68, 52)>>,
     steps |-> <<Step4(1, 1, 2), Step4(2, 3, 1), Step4(3, 260, 1), Step4(4, 250, 2), Step4(4, 250, 0),
                 Step4(5, 200, 1), Step4(6, 1, 2)>>,
     nodes |-> <<Node(1, 1, 71, 72), Node(2, 2, 73, 74), Node(3, 8, 75, 0), Node(4, 16, 76, 0),
                 Node(5, 0, 0, 0)>>,
     accepts |-> <<[Row(7, 1, XRow) EXCEPT !.onesc = 0], [Row(7, 2, XRow) EXCEPT !.onesc = 1]>>,
     escs |-> <<0, 2>>,
     refs |-> Rows(8, 2, Shorts(<<"LockType", "OpType", "WhereEXP">>) \o Words(<<"TTno">>)
                          \o Shorts(<<"enleft", "enright", "NextRT">>)),
     ranges |-> Rows(9, 2, Shorts(<<"RangeType", "RangeFrom", "RangeTo", "StringOffset">>)),
     copies |-> Rows(10, 2, Words(<<"TTno_to", "TTno_from">>)),
     files |-> Rows(11, 2, Shorts(<<"cmd_flags", "PRTno", "AliasEnt", "FileNameEnt">>)),
     prints |-> Rows(12, 2, Shorts(<<"VAR_ENTno", "WIDTH_ENTno", "WIDTH_FLAGS",
                                     "ReservedFlags", "NextPR">>)),
     reads |-> Rows(13, 2, Shorts(<<"RDTFlags", "ENTno">>) \o Words(<<"TTno">>)
                            \o Shorts(<<"NextRD">>)),
     creates |-> <<Create(1), Create(2)>>, strs |-> 30,
     blocks |-> <<Btab(1, 2, 1, 0, 1, 0), Btab(2, 1, 0, 1, 0, 1)>>]

Held == ("empty" :> Empty) @@ ("full" :> Full)
Flags == {[tpenc |-> FALSE, extendDC |-> TRUE], [tpenc |-> TRUE, extendDC |-> FALSE]}
=============================================================================
