------------------------------- MODULE MCExpr -------------------------------
EXTENDS Expr

MCLiterals ==
    [x \in {"0", "1", "2", "100", "1.5", "'ab'", "'b'", "' '"} |->
        CASE x = "'ab'" -> [k |-> "str", s |-> <<97, 98>>]
          [] x = "'b'" -> [k |-> "str", s |-> <<98>>]
          [] x = "' '" -> [k |-> "str", s |-> <<32>>]
          [] x = "1.5" -> [k |-> "num", x |-> <<3, 2>>]
          [] x = "100" -> [k |-> "num", x |-> <<100, 1>>]
          [] x = "2" -> [k |-> "num", x |-> <<2, 1>>]
          [] x = "1" -> [k |-> "num", x |-> <<1, 1>>]
          [] OTHER -> [k |-> "num", x |-> <<0, 1>>]]

Plain(cond, toks) == [cond |-> cond, toks |-> toks, head |-> <<>>, tail |-> <<>>]
MCAlphabets ==
    {Plain(FALSE, {"n", "+", "*", "-"}), Plain(FALSE, {"n", "d", "-", "(", ")"}),
     Plain(FALSE, {"a", "n", "[", "]", "+"}), Plain(TRUE, {"n", "=", "and", "or", "not"}),
     Plain(TRUE, {"d", "+", "=", "not", "(", ")"})}
    \union {[cond |-> FALSE, toks |-> {"n", "s", ",", "-"}, head |-> <<f, "(">>, tail |-> <<")">>] :
               f \in {"slen", "match", "substr", "scat", "sword"}}

Sets(dest, op, e) == [dest |-> dest, sub |-> <<>>, op |-> op, src |-> e]
MCStatements ==
    {Sets("n", "=", <<"d">>), Sets("n", "+", <<"100">>), Sets("n", "=", <<"n", "*", "2">>), Sets("n", "=", <<"1">>),
     Sets("n", "=", <<"n", "/", "2", "*", "d">>), Sets("n", "=", <<"(", "d", "+", "n", ")", "/", "2">>),
     Sets("n", "-", <<"a", "[", "n", "]">>), Sets("n", "/", <<"a", "[", "2", "]">>), Sets("n", "=", <<"-", "n">>),
     Sets("n", "=", <<"slen", "(", "s", ")", "+", "1">>), Sets("n", "=", <<"match", "(", "'b'", ",", "s", ")">>),
     Sets("n", "=", <<"s">>), Sets("i", "=", <<"n", "+", "1">>), Sets("i", "=", <<"n", "*", "n">>),
     Sets("d", "=", <<"1.5">>), Sets("d", "*", <<"n">>), Sets("d", "=", <<"n", "/", "2">>), Sets("d", "=", <<"d", "/", "n">>),
     Sets("d", "=", <<"n", "%", "2", "+", "d">>), Sets("d", "=", <<"1", "/", "2", "+", "0">>),
     Sets("a", "=", <<"2">>), [dest |-> "a", sub |-> <<"2">>, op |-> "=", src |-> <<"n">>],
     [dest |-> "a", sub |-> <<"n">>, op |-> "+", src |-> <<"1">>],
     Sets("s", "=", <<"'ab'">>), Sets("s", "=", <<"n">>), Sets("s", "+", <<"' '">>), Sets("s", "*", <<"n">>),
     Sets("s", "=", <<"srep", "(", "s", ",", "'b'", ",", "' '", ")">>), Sets("s", "-", <<"'b'">>),
     Sets("s", "=", <<"substr", "(", "s", ",", "2", ",", "1", ")">>), Sets("s", "/", <<"100">>),
     Sets("s", "=", <<"sword", "(", "s", ",", "2", ")">>), Sets("s", "=", <<"ucase", "(", "s", ")">>),
     Sets("s", "=", <<"scat", "(", "s", ",", "n", ",", "'b'", ")">>), Sets("s", "=", <<"skey", "(", "'b'", ",", "s", ")">>)}
MCTests == {<<"n", "<", "1.5">>, <<"n", "=", "a", "[", "1", "]", "+", "1">>, <<"d", ">=", "n">>,
            <<"not", "d", "or", "n", ">", "i">>, <<"n", "/", "2", "<>", "d">>, <<"slen", "(", "s", ")", "<=", "2">>,
            <<"s", "=", "'ab'">>, <<"n", "+", "n">>}
MCLeft == {<<>>, <<98>>}
=============================================================================
