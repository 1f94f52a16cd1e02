-------------------------------- MODULE Expr --------------------------------
(***************************************************************************)
(* Expressions: how clcomp parses them and decides which of them clenter   *)
(* computes with whole numbers, and how clenter evaluates them and assigns *)
(* to variables.                                                           *)
(*                                                                         *)
(* A number is a fraction <<p, q>>; q = 0 is what a division of doubles by *)
(* zero leaves.  A string is a sequence of character codes.  `left` is     *)
(* what an earlier evaluation has left in the buffer that an operator is   *)
(* to fill: several of them append to it or leave it alone.                *)
(***************************************************************************)
EXTENDS Integers, Sequences, FiniteSets, SequencesExt, TLC

CONSTANTS Literals,         \* the literals: token -> leaf
          Alphabets,        \* the sources that are parsed: up to MaxToks of toks,
                            \* between head and tail; cond says whether in an if
          Statements,       \* the assignments, [dest, op, src]
          Tests,            \* the conditions that are evaluated
          Bits,             \* bits of an int (32 in the code)
          MaxStr,           \* characters in a string (1000 in the code)
          Width,            \* characters in the variable "s"
          Left,             \* what a buffer may hold already
          Bound,            \* bound: how large "d" may get
          MaxToks,          \* bound: tokens in a source
          Steps             \* bound: how many assignments follow one another

VARIABLES mem,              \* the variables: name -> [vals, zero]
          src,              \* the source that is parsed
          done              \* the assignments so far

Half == 2^(Bits - 1)
MaxN == Half - 1
TAB == 32
Types == [n |-> "N", i |-> "I", d |-> "1", s |-> "C", a |-> "N"]
Elements == [n |-> 0, i |-> 0, d |-> 0, s |-> 0, a |-> 2]
MaxOf == [N |-> MaxN, I |-> MaxN - 1]
Names == DOMAIN Types
Whole == {"N", "I"}

--------------------------------------------------------------------------
(* Nodes of an expression *)

Nil == [k |-> "nil"]
Op(op, int, l, r) == [k |-> "op", op |-> op, int |-> int, l |-> l, r |-> r]
Var(name) == [k |-> "var", v |-> name]
IsOp(e, ops) == e.k = "op" /\ e.op \in ops

Fn1 == {"slen", "asc", "ucase", "chr"}
Fn2 == {"match", "sdel", "smult", "sword", "skey"}
Fn3 == {"substr", "srep"}
Functions1 == Fn1 \union Fn2 \union Fn3 \union {"scat"}
Relations == {"<", "=", ">", "<=", ">=", "<>"}
Ops == <<{"or"}, {"and"}, Relations, {"+", "-"}, {"*", "/", "%"}>>

\* the type of the leftmost leaf
RECURSIVE TypeOf(_)
TypeOf(e) == CASE e.k = "nil" -> "none"
               [] e.k = "var" -> Types[e.v]
               [] e.k = "num" -> IF e.x[2] = 1 THEN "N" ELSE "2"
               [] e.k = "str" -> "C"
               [] OTHER -> TypeOf(e.l)

\* mutated: the type of a variable is not asked for
IntExpAny(e) == IF e.k # "op" THEN e.k # "str"
                ELSE e.int \/ e.op \in {"slen", "match"} \/ e.op = "["
IntExp(e) == CASE e.k = "nil" -> TRUE
               [] e.k # "op" -> TypeOf(e) \in Whole
               [] OTHER -> \/ e.int \/ e.op \in {"slen", "match"}
                           \/ (e.op = "[" /\ TypeOf(e) \in Whole)

--------------------------------------------------------------------------
(* The parser: one operator for each level of getorexp, getandexp,         *)
(* getrelexp, getaddexp and getmultexp, and getidconst below them          *)

Fail == [ok |-> FALSE, tree |-> Nil, rest |-> <<>>]
Found(tree, rest) == [ok |-> TRUE, tree |-> tree, rest |-> rest]
Next1(toks, tok) == toks # <<>> /\ Head(toks) = tok
FirstLevel(cond) == IF cond THEN 1 ELSE 4

RECURSIVE Level(_, _, _, _), LevelRight(_, _, _, _), More(_, _, _, _)
RECURSIVE IdConst(_, _, _), GetArgs(_, _, _, _)
\* mutated: the operator takes the rest of the line for its right side
LevelRight(n, cond, chk, toks) ==
    IF n > Len(Ops) THEN IdConst(cond, chk, toks)
    ELSE LET l == LevelRight(n + 1, cond, chk, toks)
         IN IF l.ok /\ l.rest # <<>> /\ Head(l.rest) \in Ops[n]
            THEN LET r == LevelRight(n, cond, chk, Tail(l.rest))
                 IN IF r.ok THEN Found(Op(Head(l.rest), FALSE, l.tree, r.tree), r.rest) ELSE Fail
            ELSE l
Level(n, cond, chk, toks) ==
    IF n > Len(Ops) THEN IdConst(cond, chk, toks)
    ELSE More(n, cond, chk, Level(n + 1, cond, chk, toks))
\* the operators of the level, from left to right
More(n, cond, chk, l) ==
    IF ~l.ok \/ l.rest = <<>> \/ Head(l.rest) \notin Ops[n] THEN l
    ELSE LET r == Level(n + 1, cond, chk, Tail(l.rest))
             int == (n = Len(Ops) => chk) /\ IntExp(l.tree) /\ IntExp(r.tree)
         IN IF ~r.ok THEN Fail
            ELSE More(n, cond, chk, Found(Op(Head(l.rest), int, l.tree, r.tree), r.rest))

\* after "(" or ",": nothing at all is an expression too
Inner(cond, chk, toks) ==
    IF Next1(toks, ")") THEN Found(Nil, toks) ELSE Level(FirstLevel(cond), cond, chk, toks)
Close(e) == IF e.ok /\ Next1(e.rest, ")") THEN Found(e.tree, Tail(e.rest)) ELSE Fail

\* what an argument of a function may be
Numeric(fn, n) == (fn = "substr" /\ n > 0) \/ (fn \in {"smult", "sword"} /\ n = 1)
TypeOk(fn, n, e) == IF Numeric(fn, n) THEN TypeOf(e) \in Whole ELSE TypeOf(e) # "none"
\* the arguments from number n on; `more` are still to come, or any number
GetArgs(fn, n, more, toks) ==
    LET e == Inner(FALSE, more.chk, toks)
    IN IF ~e.ok \/ ~TypeOk(fn, n, e.tree) THEN Fail
       ELSE IF more.n <= 1 /\ ~Next1(e.rest, ",") THEN e
       ELSE IF more.n \in {0, 1} \/ ~Next1(e.rest, ",") THEN Fail
       ELSE LET r == GetArgs(fn, IF more.n < 0 THEN n ELSE n + 1, [more EXCEPT !.n = @ - 1], Tail(e.rest))
            IN IF r.ok THEN Found(Op("args", FALSE, e.tree, r.tree), r.rest) ELSE Fail
Call(fn, chk, toks) ==
    LET l == Inner(FALSE, chk, Tail(toks))
        int == fn \in {"slen", "asc"}
        args == IF fn \in Fn2 THEN 1 ELSE IF fn = "scat" THEN -1 ELSE 2
        r == GetArgs(fn, 1, [n |-> args, chk |-> chk], Tail(l.rest))
    IN CASE ~Next1(toks, "(") \/ ~l.ok -> Fail
         [] fn \in Fn1 -> Close(Found(Op(fn, int, l.tree, Nil), l.rest))
         [] ~Next1(l.rest, ",") \/ ~r.ok -> Fail
         [] OTHER -> Close(Found(Op(fn, FALSE, l.tree, r.tree), r.rest))

Signed(e, op) == IF e.ok THEN Found(Op(op, FALSE, e.tree, Nil), e.rest) ELSE Fail
\* gettfexp: a variable, with a subscript or without one
Variable(name, toks) ==
    LET sub == Level(4, FALSE, TRUE, Tail(toks))
    IN IF ~Next1(toks, "[") THEN Found(Var(name), toks)
       ELSE IF Elements[name] > 0 /\ sub.ok /\ sub.tree.k # "nil" /\ Next1(sub.rest, "]")
            THEN Found(Op("[", FALSE, Var(name), sub.tree), Tail(sub.rest)) ELSE Fail
IdConst(cond, chk, toks) ==
    IF toks = <<>> THEN Fail
    ELSE LET tok == Head(toks)  rest == Tail(toks)
         IN CASE tok = "(" -> Close(Inner(cond, chk, rest))
              [] tok = "-" -> Signed(IdConst(cond, chk, rest), "-")
              [] tok = "not" /\ cond -> Signed(IdConst(cond, chk, rest), "not")
              [] tok \in Functions1 /\ (tok = "ucase" => ~cond) -> Call(tok, chk, rest)
              [] tok \in Names -> Variable(tok, rest)
              [] tok \in DOMAIN Literals -> Found(Literals[tok], rest)
              [] OTHER -> Fail
\* loadexp, and the end of the line after it
Parse(cond, chk, toks) ==
    LET e == Level(FirstLevel(cond), cond, chk, toks) IN IF e.rest = <<>> THEN e ELSE Fail

--------------------------------------------------------------------------
(* Numbers *)

Abs(x) == IF x < 0 THEN -x ELSE x
RECURSIVE Gcd(_, _)
Gcd(x, y) == IF y = 0 THEN x ELSE Gcd(y, x % y)
Sign(x) == IF x > 0 THEN 1 ELSE IF x < 0 THEN -1 ELSE 0
By(p, q, g) == <<p \div g, q \div g>>
Q(p, q) == IF q = 0 THEN <<Sign(p), 0>> ELSE By(p, q, Gcd(Abs(p), Abs(q)) * Sign(q))
Add(x, y) == Q(x[1] * y[2] + y[1] * x[2], x[2] * y[2])
Neg(x) == <<-x[1], x[2]>>
Minus(x, y) == Add(x, Neg(y))
Mul(x, y) == Q(x[1] * y[1], x[2] * y[2])
Div(x, y) == Q(x[1] * y[2], x[2] * y[1])
\* (int) of a double: towards zero, and the least int when it does not fit
InRange(n) == IF Abs(n) > MaxN THEN -Half ELSE n
Trunc(x) == IF x[2] = 0 THEN -Half
            ELSE InRange(Sign(x[1]) * (Abs(x[1]) \div x[2]))
Wrap(n) == ((n + Half) % (2 * Half)) - Half
Quot(m, n) == IF n = 0 THEN 0 ELSE Sign(m) * Sign(n) * (Abs(m) \div Abs(n))
Rem(m, n) == IF n = 0 THEN 0 ELSE m - n * Quot(m, n)
Places == [N |-> 1, I |-> 1, C |-> 1, none |-> 1] @@ ("1" :> 10) @@ ("2" :> 100)
Huge == 1000
\* clround: to two places more than the type has, and then to those it has
Round(x, type) ==
    IF x[2] = 0 THEN <<-Huge * (IF x[1] < 0 THEN -1 ELSE 1), 1>>
    ELSE LET p == Places[type]
             fine == (2 * Abs(x[1]) * p * 100 + x[2]) \div (2 * x[2])
         IN Q(Sign(x[1]) * ((fine + 50) \div 100), p)

--------------------------------------------------------------------------
(* Strings *)

RECURSIVE Digits(_)
Digits(n) == IF n < 0 THEN <<45>> \o Digits(-n)
             ELSE IF n < 10 THEN <<48 + n>> ELSE Append(Digits(n \div 10), 48 + (n % 10))
Written(x, type) == LET p == Places[type]  n == (Abs(x[1]) * p) \div x[2]
                  IN (IF x[1] < 0 THEN <<45>> ELSE <<>>) \o Digits(n \div p)
                     \o IF p = 1 THEN <<>> ELSE <<46>> \o Digits(n % p)
\* strtol and strtod: the number that the string starts with
Skip(s, i) == IF i <= Len(s) /\ s[i] \in 48..57 THEN i + 1 ELSE i
RECURSIVE Run(_, _)
Run(s, i) == IF Skip(s, i) = i THEN i ELSE Run(s, i + 1)
RECURSIVE ValueOf(_)
ValueOf(s) == IF s = <<>> THEN 0 ELSE 10 * ValueOf(Front(s)) + Last(s) - 48
Decimal(whole, frac) == Q(ValueOf(whole \o frac), 10^Len(frac))
\* the digits that the number has before and behind its point, which is at i
Pointed(s, i) ==
    Decimal(SubSeq(s, 1, i - 1),
            IF i <= Len(s) /\ s[i] = 46 THEN SubSeq(s, i + 1, Run(s, i + 1) - 1) ELSE <<>>)
Unsigned(s) == Pointed(s, Run(s, 1))
Number(s) == IF s # <<>> /\ s[1] = 45 THEN Neg(Unsigned(Tail(s))) ELSE Unsigned(s)
Atoi(s) == Trunc(Number(s))

Cut(s, n) == SubSeq(s, 1, IF Len(s) < n THEN Len(s) ELSE n)
Concat(s, t) == s \o Cut(t, MaxStr - Len(s))
At(s, t, i) == SubSeq(s, i, i + Len(t) - 1) = t /\ i + Len(t) - 1 <= Len(s)
Matches(s, t) == {i \in DOMAIN s : At(s, t, i)}
\* match(): the place of a pattern, here plain text, or 0
Match(pattern, text) ==
    IF pattern = <<>> \/ Matches(text, pattern) = {} THEN 0
    ELSE CHOOSE i \in Matches(text, pattern) : \A j \in Matches(text, pattern) : i <= j
\* the buffer stays as it is when the text is too short
Substr(s, start, n, buf) ==
    CASE start <= 0 \/ n < 0 -> <<>>
      [] n = 0 -> SubSeq(s, start, Len(s))
      [] start <= Len(s) -> Cut(SubSeq(s, start, Len(s)), n)
      [] OTHER -> buf
\* the text is copied behind what is in the buffer
RECURSIVE Replaced(_, _, _)
Replaced(s, old, new) ==
    IF s = <<>> THEN <<>>
    ELSE IF At(s, old, 1) THEN new \o Replaced(SubSeq(s, Len(old) + 1, Len(s)), old, new)
    ELSE <<s[1]>> \o Replaced(Tail(s), old, new)
Repstr(s, old, new, buf) == IF old = <<>> THEN s ELSE buf \o Replaced(s, old, new)
\* as often as it fits; a count below zero runs until nothing fits any more
Multiple(s, n, buf) ==
    LET fits == IF s = <<>> THEN 1 ELSE MaxStr \div Len(s)
        times == IF n < 0 \/ n > fits THEN fits ELSE n
    IN IF times = 0 THEN buf ELSE FlattenSeq([k \in 1..times |-> s])
RECURSIVE Deleted(_, _, _)
Deleted(s, t, i) ==
    IF i > Len(s) THEN s
    ELSE IF t # <<>> /\ At(s, t, i) THEN Deleted(SubSeq(s, 1, i - 1) \o SubSeq(s, i + Len(t), Len(s)), t, i)
    ELSE Deleted(s, t, i + 1)
Until(s, i) == LET ends == {j \in i..Len(s) : s[j] = TAB}
               IN SubSeq(s, i, IF ends = {} THEN Len(s) ELSE (CHOOSE j \in ends : \A k \in ends : j <= k) - 1)
\* skey(): what follows the key, up to the next separator
KeyText(key, s) == IF key = <<>> \/ Matches(s, key) = {} THEN <<>>
               ELSE Until(s, Match(key, s) + Len(key))
\* sword(): several separators after a word count as one
RECURSIVE Word(_, _)
Word(s, n) ==
    IF n <= 1 THEN Until(s, 1)
    ELSE LET next == {j \in 2..Len(s) : s[j] # TAB /\ s[j - 1] = TAB}
         IN IF next = {} THEN <<>>
            ELSE Word(SubSeq(s, CHOOSE j \in next : \A k \in next : j <= k, Len(s)), n - 1)

Stroped(op, s, t, n, buf) ==
    CASE op = "+" -> Concat(s, t)
      [] op = "/" -> IF n > 99 THEN Substr(s, n \div 100, n % 100, buf) ELSE s
      [] op \in {"*", "smult"} -> Multiple(s, n, buf)
      [] op \in {"-", "sdel"} -> Deleted(s, t, 1)
      [] op = "skey" -> KeyText(s, t)
      [] op \in {"%", "sword"} -> Word(s, n)
      [] OTHER -> <<>>
Stroper(op, s, t, buf) == Stroped(op, s, t, Atoi(t), buf)

--------------------------------------------------------------------------
(* Evaluation *)

\* the value of e as the number, the whole number or the text that is asked for
RECURSIVE Eval(_, _, _, _)
EvalNum(e, env) == Eval("num", e, env, <<>>)
EvalInt(e, env) == Eval("int", e, env, <<>>)
EvalStr(e, env, buf) == Eval("str", e, env, buf)
\* getftf: a subscript out of range is 1, as is none
Element(name, k) == IF Elements[name] = 0 \/ k \notin 1..Elements[name] THEN 1 ELSE k
Fld(e, env) == IF e.k = "var" THEN env.mem[e.v].vals[1]
               ELSE env.mem[e.l.v].vals[Element(e.l.v, EvalInt(e.r, env))]
IsFld(e) == e.k = "var" \/ IsOp(e, {"["})
StrOps == {"ucase", "sdel", "smult", "sword", "substr", "srep", "scat"}

Remainder(a, b) == IF b[1] = 0 THEN <<0, 1>> ELSE Minus(a, Mul(b, <<Trunc(Div(a, b)), 1>>))
NumOf(e, env) ==
    LET l == EvalNum(e.l, env)  r == EvalNum(e.r, env)
        type(x) == IF IsFld(x) \/ x.k \in {"num", "str"} THEN TypeOf(x) ELSE "N"
    IN CASE e.k = "nil" -> <<0, 1>>
         [] e.k = "op" /\ e.int -> <<EvalInt(e, env), 1>>
         [] IsFld(e) \/ e.k \in {"num", "str"} ->
                IF TypeOf(e) = "C" THEN Number(EvalStr(e, env, <<>>))
                ELSE IF e.k = "num" THEN e.x ELSE Fld(e, env)
         [] IsOp(e, StrOps) -> Number(EvalStr(e, env, env.left))
         [] IsOp(e, {"+"}) -> Add(l, r)
         [] IsOp(e, {"-"}) -> IF e.r.k = "nil" THEN Neg(l) ELSE Minus(l, r)
         [] IsOp(e, {"*"}) -> Mul(l, r)
         [] IsOp(e, {"/"}) -> IF r[1] = 0 THEN <<0, 1>> ELSE Div(l, r)
         [] IsOp(e, {"%"}) ->
                IF type(e.l) = "C" THEN Number(EvalStr(e, env, env.left))
                ELSE Remainder(Round(l, type(e.l)), Round(r, type(e.r)))
         [] OTHER -> <<0, 1>>

IntOf(e, env) ==
    LET l == IF e.int THEN EvalInt(e.l, env) ELSE Trunc(EvalNum(e.l, env))
        r == IF e.int THEN EvalInt(e.r, env) ELSE Trunc(EvalNum(e.r, env))
        s == EvalStr(e.l, env, <<>>)
    IN CASE e.k = "nil" -> 0
         [] IsOp(e, {"+"}) -> Wrap(l + r)
         [] IsOp(e, {"-"}) -> Wrap(l - r)
         [] IsOp(e, {"*"}) -> Wrap(l * r)
         [] IsOp(e, {"/"}) -> Quot(l, r)
         [] IsOp(e, {"%"}) -> Rem(l, r)
         [] IsOp(e, {"match"}) -> Match(EvalStr(e.l, env, env.left), EvalStr(e.r, env, env.left))
         [] IsOp(e, {"asc"}) -> IF s = <<>> THEN 0 ELSE s[1]
         [] IsOp(e, {"slen"}) -> IF TypeOf(e.l) = "C" THEN Len(s) ELSE 0
         [] (IsFld(e) \/ e.k = "num") /\ TypeOf(e) # "C" ->
                Trunc(IF e.k = "num" THEN e.x ELSE Fld(e, env))
         [] OTHER -> 0

\* scat(): the arguments go through one buffer, which is not cleared
RECURSIVE Scat(_, _, _, _)
Scat(out, e, env, buf) ==
    IF IsOp(e, {"args"})
    THEN LET s == EvalStr(e.l, env, buf) IN Scat(Concat(out, s), e.r, env, s)
    ELSE Concat(out, EvalStr(e, env, buf))
\* what the buffer holds when it held buf before
StrOf(e, env, buf) ==
    LET s == EvalStr(e.l, env, <<>>)
        t == IF IsOp(e, {"*", "/", "%"}) THEN Digits(EvalInt(e.r, env)) ELSE EvalStr(e.r, env, <<>>)
    IN CASE e.k = "nil" -> buf
         [] e.k = "str" -> e.s
         [] e.k = "num" -> Written(e.x, TypeOf(e))
         [] IsFld(e) -> IF TypeOf(e) = "C" THEN Fld(e, env) ELSE Written(Fld(e, env), TypeOf(e))
         [] IsOp(e, {"srep"}) -> Repstr(s, EvalStr(e.r.l, env, <<>>), EvalStr(e.r.r, env, <<>>), buf)
         [] IsOp(e, {"substr"}) -> Substr(s, EvalInt(e.r.l, env), EvalInt(e.r.r, env), buf)
         [] IsOp(e, {"scat"}) -> Scat(s, e.r, env, s)
         [] IsOp(e, {"slen", "asc"}) -> Digits(EvalInt(e, env))
         [] IsOp(e, {"match"}) -> Digits(Match(s, t))
         [] IsOp(e, {"ucase"}) -> [i \in DOMAIN s |-> IF s[i] \in 97..122 THEN s[i] - 32 ELSE s[i]]
         [] IsOp(e, {"chr"}) -> LET c == EvalInt(e.l, env)
                                IN IF c = 0 THEN <<92, 48>> ELSE IF c >= 256 THEN <<>> ELSE <<c>>
         [] OTHER -> Stroper(e.op, s, t, buf)

Eval(as, e, env, buf) == CASE as = "num" -> NumOf(e, env)
                           [] as = "int" -> IntOf(e, env)
                           [] as = "str" -> StrOf(e, env, buf)

\* getetype: what a comparison with e on the left compares
RECURSIVE CmpType(_)
CmpType(e) == CASE IsOp(e, {"ucase", "chr", "match", "sdel", "smult", "sword", "substr", "scat"}) -> "C"
                [] IsOp(e, {"slen", "asc"}) -> "N"
                [] e.k = "op" /\ e.op # "[" -> CmpType(e.l)
                [] OTHER -> TypeOf(e)
Compared(op, x) == CASE op = "<" -> x < 0  [] op = "<=" -> x <= 0  [] op = "=" -> x = 0
                     [] op = ">" -> x > 0  [] op = ">=" -> x >= 0  [] op = "<>" -> x # 0
Lower(s) == [i \in DOMAIN s |-> IF s[i] \in 65..90 THEN s[i] + 32 ELSE s[i]]
\* the difference of the two sides (of strings: only whether they are equal)
Difference(e, env) ==
    LET type == CmpType(e.l)
        r(x) == Round(EvalNum(x, env), type)
    IN IF e.int /\ type # "C" THEN Wrap(EvalInt(e.l, env) - EvalInt(e.r, env))
       ELSE IF type = "C"
       THEN IF Lower(EvalStr(e.l, env, env.left)) = Lower(EvalStr(e.r, env, env.left)) THEN 0 ELSE 1
       ELSE Round(Minus(r(e.l), r(e.r)), type)[1]
RECURSIVE Leftmost(_), Evaliex(_, _)
Leftmost(e) == IF e.k = "op" /\ e.l.k # "nil" THEN Leftmost(e.l) ELSE e
Evaliex(e, env) ==
    CASE e.k = "nil" -> FALSE
      [] IsOp(e, {"or"}) -> Evaliex(e.l, env) \/ Evaliex(e.r, env)
      [] IsOp(e, {"and"}) -> Evaliex(e.l, env) /\ Evaliex(e.r, env)
      [] IsOp(e, {"not"}) -> ~Evaliex(e.l, env)
      [] IsOp(e, Relations) -> Compared(e.op, Difference(e, env))
      [] IsOp(e, {"slen", "asc", "chr"}) -> EvalStr(e.l, env, <<>>) # <<>>
      [] IsOp(e, {"match"}) -> Match(EvalStr(e.l, env, env.left), EvalStr(e.r, env, env.left)) # 0
      [] IsOp(e, {"["}) -> Fld(e, env) \notin {<<>>, <<0, 1>>}
      [] e.k = "var" -> ~env.mem[e.v].zero
      [] e.k = "str" -> e.s # <<>>
      [] e.k = "num" -> e.x[1] # 0
      [] OTHER -> IF e.int THEN EvalInt(e, env) # 0
                  ELSE IF TypeOf(e) = "C" THEN EvalStr(e, env, env.left) # <<>>
                  ELSE EvalNum(e, env)[1] # 0

--------------------------------------------------------------------------
(* Assignment (calculate) *)

Env(left) == [mem |-> mem, left |-> left]
\* a statement as it is compiled: whole numbers only for a whole variable
Compiled(st) ==
    LET e == Parse(FALSE, Types[st.dest] \in Whole, st.src).tree
    IN [dest |-> IF st.sub = <<>> THEN Var(st.dest)
                 ELSE Op("[", FALSE, Var(st.dest), Parse(FALSE, TRUE, st.sub).tree),
        op |-> st.op, e |-> e, int |-> Types[st.dest] \in Whole /\ IntExp(e)]

Computed(op, old, x) ==
    CASE op = "=" -> x   \* the operator of +=, -=, ...
      [] op = "+" -> Add(old, x)  [] op = "-" -> Minus(old, x)
      [] op = "*" -> Mul(old, x)  [] op = "/" -> Div(old, x)
Clamped(x, type) ==
    IF type \notin Whole THEN x
    ELSE IF x[1] > MaxOf[type] THEN <<MaxOf[type], 1>>
    ELSE IF x[1] < -MaxOf[type] THEN <<-MaxOf[type], 1>> ELSE x
NewNumber(st, env, old, type) ==
    LET x == IF st.int THEN <<EvalInt(st.e, env), 1>> ELSE Round(EvalNum(st.e, env), type)
    IN IF st.op = "=" THEN x ELSE Round(Computed(st.op, old, x), type)
NewString(st, env, old) ==
    LET s == EvalStr(st.e, env, <<>>)
    IN Cut(IF st.op = "=" THEN s ELSE Stroper(st.op, old, s, env.left), Width)

\* the quick flag of a number is set before the value is cut to its limits
ZeroFlag(st, env, x) == x \in {<<>>, <<0, 1>>}
Calculate(st, left) ==
    LET env == Env(left)
        name == IF st.dest.k = "var" THEN st.dest.v ELSE st.dest.l.v
        type == Types[name]
        old == Fld(st.dest, env)
        x == IF type = "C" THEN NewString(st, env, old) ELSE NewNumber(st, env, old, type)
        new == IF type = "C" THEN x ELSE Clamped(x, type)
        \* without a subscript, or with 0, all elements are assigned
        k == IF st.dest.k = "var" THEN 0 ELSE EvalInt(st.dest.r, env)
        which == IF Elements[name] > 0 /\ k = 0 THEN 1..Elements[name] ELSE {Element(name, k)}
    IN /\ IF type = "C" THEN TRUE ELSE Abs(new[1]) <= Bound * new[2]
       /\ mem' = [mem EXCEPT ![name] = [vals |-> [j \in DOMAIN @.vals |->
                                                     IF j \in which THEN new ELSE @.vals[j]],
                                        zero |-> ZeroFlag(st, env, x)]]

--------------------------------------------------------------------------
Init ==
    /\ mem = [v \in Names |-> [vals |-> [k \in 1..(IF Elements[v] = 0 THEN 1 ELSE Elements[v]) |->
                                            IF Types[v] = "C" THEN <<>> ELSE <<0, 1>>],
                               zero |-> TRUE]]
    /\ \/ src = [cond |-> FALSE, toks |-> <<>>]
       \/ \E a \in Alphabets, n \in 1..MaxToks : \E t \in [1..n -> a.toks] :
              src = [cond |-> a.cond, toks |-> a.head \o t \o a.tail]
    /\ done = 0
CompiledTests == {Parse(TRUE, TRUE, t).tree : t \in Tests}
CompiledAll == {Compiled(st) : st \in Statements}
Assign == \E st \in CompiledAll, left \in Left : Calculate(st, left)
Next == src.toks = <<>> /\ done < Steps /\ Assign /\ done' = done + 1 /\ UNCHANGED src
Spec == Init /\ [][Next]_<<mem, src, done>>

--------------------------------------------------------------------------
(* Properties *)

\* The tree of a line is the one that the levels of the operators say, with
\* the operators of one level from the left, and any other line is refused.
Depth(toks, i) == Cardinality({j \in 1..i : toks[j] \in {"(", "["}})
                  - Cardinality({j \in 1..i : toks[j] \in {")", "]"}})
Operand(tok) == tok \in Names \union DOMAIN Literals \union {")", "]"}
LevelOf(tok) == CHOOSE n \in 1..Len(Ops) : tok \in Ops[n]
Binary(cond, toks) ==
    {p \in 2..(Len(toks) - 1) : /\ Depth(toks, p) = 0 /\ Operand(toks[p - 1])
                                /\ \E n \in FirstLevel(cond)..Len(Ops) : toks[p] \in Ops[n]}
Top(ps) == CHOOSE p \in ps : \A q \in ps : q <= p
RECURSIVE Reads(_, _), Arguments(_, _)
Both(a, op, b) == IF a.ok /\ b.ok THEN Found(Op(op, FALSE, a.tree, b.tree), <<>>) ELSE Fail
\* the arguments in toks, which starts behind the "("
Arguments(fn, toks) ==
    LET commas == {p \in DOMAIN toks : toks[p] = "," /\ Depth(toks, p) = 0}
        cut == IF commas = {} THEN Len(toks) + 1 ELSE CHOOSE p \in commas : \A q \in commas : p <= q
        first == Reads(FALSE, SubSeq(toks, 1, cut - 1))
    IN IF commas = {} THEN <<first>>
       ELSE <<first>> \o Arguments(fn, SubSeq(toks, cut + 1, Len(toks)))
RECURSIVE Chain(_)
Chain(args) == IF Len(args) = 1 THEN Head(args).tree
               ELSE Op("args", FALSE, Head(args).tree, Chain(Tail(args)))
Arity(fn) == IF fn \in Fn1 THEN {1} ELSE IF fn \in Fn2 THEN {2} ELSE IF fn \in Fn3 THEN {3} ELSE 2..6
Called(fn, args) ==
    IF /\ Len(args) \in Arity(fn) /\ \A n \in DOMAIN args : args[n].ok
       /\ \A n \in 2..Len(args) : TypeOk(fn, n - 1, args[n].tree)
    THEN Found(Op(fn, FALSE, args[1].tree, IF Len(args) = 1 THEN Nil ELSE Chain(Tail(args))), <<>>)
    ELSE Fail
Closed(toks, i) == Len(toks) > i /\ Last(toks) \in {")", "]"} /\ \A j \in i..(Len(toks) - 1) : Depth(toks, j) > 0
Reads(cond, toks) ==
    LET ps == Binary(cond, toks)
        level == CHOOSE n \in {LevelOf(toks[p]) : p \in ps} : \A p \in ps : n <= LevelOf(toks[p])
        p == Top({q \in ps : LevelOf(toks[q]) = level})
        in(i) == SubSeq(toks, i, Len(toks) - 1)
    IN IF toks = <<>> THEN Fail ELSE
       CASE ps # {} -> Both(Reads(cond, SubSeq(toks, 1, p - 1)), toks[p],
                            Reads(cond, SubSeq(toks, p + 1, Len(toks))))
         [] ps = {} /\ (toks[1] = "-" \/ (toks[1] = "not" /\ cond)) -> Signed(Reads(cond, Tail(toks)), toks[1])
         [] toks[1] = "(" /\ Closed(toks, 1) /\ Last(toks) = ")" -> Reads(cond, in(2))
         [] toks[1] \in Functions1 /\ (toks[1] = "ucase" => ~cond) /\ Len(toks) > 3 /\ toks[2] = "("
              /\ Closed(toks, 2) /\ Last(toks) = ")" -> Called(toks[1], Arguments(toks[1], in(3)))
         [] toks[1] \in Names /\ Elements[toks[1]] > 0 /\ Len(toks) > 3 /\ toks[2] = "["
              /\ Closed(toks, 2) /\ Last(toks) = "]" ->
                    Both(Found(Var(toks[1]), <<>>), "[", Reads(FALSE, in(3)))
         [] Len(toks) = 1 /\ toks[1] \in Names -> Found(Var(toks[1]), <<>>)
         [] Len(toks) = 1 /\ toks[1] \in DOMAIN Literals -> Found(Literals[toks[1]], <<>>)
         [] OTHER -> Fail
RECURSIVE Bare(_)
Bare(e) == IF e.k = "op" THEN Op(e.op, FALSE, Bare(e.l), Bare(e.r)) ELSE e
\* "()" is taken for a number that is not there; no reading is given for it
NoText(toks) == \E i \in 1..(Len(toks) - 1) : toks[i] = "(" /\ toks[i + 1] = ")"
Parses == src.toks # <<>> /\ ~NoText(src.toks) =>
    LET e == Parse(src.cond, TRUE, src.toks)  f == Reads(src.cond, src.toks)
    IN e.ok = f.ok /\ (e.ok => Bare(e.tree) = Bare(f.tree))

\* The value of a number expression when nothing is lost on the way.
RECURSIVE Meaning(_, _), PartsOf(_)
Meaning(e, env) ==
    LET l == Meaning(e.l, env)  r == Meaning(e.r, env)
    IN CASE e.k = "num" -> e.x
         [] IsFld(e) -> Fld(e, env)
         [] e.op = "+" -> Add(l, r)
         [] e.op = "-" -> IF e.r.k = "nil" THEN Neg(l) ELSE Minus(l, r)
         [] e.op = "*" -> Mul(l, r)
         [] e.op = "/" -> IF r[1] = 0 THEN <<0, 1>>
                          ELSE IF e.int THEN <<Quot(l[1], r[1]), 1>> ELSE Div(l, r)
         [] e.op = "%" -> <<Rem(l[1], r[1]), 1>>
         [] OTHER -> <<EvalInt(e, env), 1>>
PartsOf(e) == IF e.k = "op" THEN {e} \union PartsOf(e.l) \union PartsOf(e.r) ELSE {e}
Fits(e, env) == \A p \in PartsOf(e) : p.k = "op" /\ p.int => Abs(Meaning(p, env)[1]) <= MaxN
Strings(e) == \E p \in PartsOf(e) : p.k = "str" \/ (p.k = "var" /\ Types[p.v] = "C")
\* match() in an expression that is not of whole numbers counts as 0
Lost(e) == \E p \in PartsOf(e) : p.k = "op" /\ ~p.int /\ (IsOp(p.l, {"match"}) \/ IsOp(p.r, {"match"}))
\* -x counts as x where only a whole number is asked for
Turned(e) == \E p \in PartsOf(e) : IsOp(p, {"["}) /\ (\E q \in PartsOf(p.r) : IsOp(q, {"-"}) /\ q.r.k = "nil")
Sides(c) == {p \in PartsOf(c) : IsOp(p, Relations) /\ ~Strings(p)}
\* Computing with whole numbers where the compiler flags it, and comparing by
\* the sign of a difference, gives the value of the expression and the truth
\* of the comparison, unless an int overflows.
Exact ==
    LET env == Env(<<>>)
    IN /\ \A st \in CompiledAll :
             Types[IF st.dest.k = "var" THEN st.dest.v ELSE st.dest.l.v] # "C" /\ ~Strings(st.e)
             /\ ~Lost(st.e) /\ ~Turned(st.e) /\ Fits(st.e, env)
             => Meaning(st.e, env) = IF st.int THEN <<EvalInt(st.e, env), 1>> ELSE EvalNum(st.e, env)
       /\ \A t \in CompiledTests : \A c \in Sides(t) :
             Fits(c.l, env) /\ Fits(c.r, env) =>
               \A d \in {Minus(Round(Meaning(c.l, env), CmpType(c.l)), Round(Meaning(c.r, env), CmpType(c.l)))} :
                  Abs(d[1]) <= MaxN * d[2] => (Evaliex(c, env) <=> Compared(c.op, d[1]))

\* A whole variable holds a whole number within its limits, whatever was
\* computed, and a variable counts as false exactly when it is zero or blank:
\* the flag that an if looks at is never older than the value.
Kept ==
    /\ \A v \in Names : Types[v] \in Whole =>
         \A k \in DOMAIN mem[v].vals :
             mem[v].vals[k][2] = 1 /\ Abs(mem[v].vals[k][1]) <= MaxOf[Types[v]]
    /\ \A v \in Names : Elements[v] = 0 =>
         (Evaliex(Var(v), Env(<<>>)) <=> mem[v].vals[1] \notin {<<>>, <<0, 1>>})
=============================================================================
