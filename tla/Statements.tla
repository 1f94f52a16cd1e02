----------------------------- MODULE Statements -----------------------------
(* What the compiler's parsers of statements do to the arrays they fill: the  *)
(* arrays of program lines (PT), expressions (EN), fields (XT), table         *)
(* operations (RT), files (SF), lists to print or to read (PR), redisplays    *)
(* (RD), ranges (RA), copies (XF) and new tables (KX).  A parser is the set   *)
(* of the sequences of operations it may go through, one for each way through *)
(* its tests; one that ends with a message of loaderr() ends with Fail.       *)
EXTENDS Naturals, Sequences

(* Operations.  An element is known by its number, which never changes; a     *)
(* local of the parser is a pointer to one, and an array moves as it grows.   *)
New(a, e) == [op |-> "new", arr |-> a, el |-> e]           \* e = getXXmem()
Hold(l, e) == [op |-> "hold", ptr |-> l, el |-> e]         \* allXXpt(e, &l)
Point(l, e) == [op |-> "point", ptr |-> l, el |-> e]       \* l = XXARR(e)
Put(l, f, e) == [op |-> "put", ptr |-> l, field |-> f, el |-> e]   \* l->f = e
PutNew(l, f, a, e) == [op |-> "putnew", ptr |-> l, field |-> f, arr |-> a, el |-> e]  \* l->f = getXXmem()
Fill(l) == [op |-> "fill", ptr |-> l]                      \* l->... = a value
Go(l) == [op |-> "go", ptr |-> l]                          \* dallXXpt(&l)
Fail == [op |-> "fail"]                                    \* return 0

Failed(p) == p # <<>> /\ p[Len(p)] = Fail
Do(p) == {p}
Nothing == {<<>>}
Refuse(p) == {Append(p, Fail)}

(* One after the other; a call whose failure the caller cleans up after.      *)
A ++ B == {p \in A : Failed(p)} \cup {p \o q : p \in {r \in A : ~Failed(r)}, q \in B}
Else(A, s) ==
  {p \in A : ~Failed(p)} \cup {SubSeq(p, 1, Len(p) - 1) \o Append(s, Fail) : p \in {r \in A : Failed(r)}}

(***************************************************************************)
(* Expressions                                                             *)
(***************************************************************************)
(* An operator, whose element is taken before that of the operand on its    *)
(* right; a name alone takes fewer.  A mistake is found with elements taken. *)
loadexp(e) ==
  LET left == e \o "-left" right == e \o "-right" IN
  { <<New("EN", left), Hold("id", left), Fill("id"), Go("id"), New("EN", e), Hold("entab", e),
      Put("entab", "enleft", left), New("EN", right), Hold("id", right), Fill("id"), Go("id"),
      Put("entab", "enright", right), Go("entab")>>,
    <<New("EN", e), Fail>> }

(* The name of a variable or field, in an element the caller has taken; an   *)
(* array with its subscript takes more.                                      *)
gettfexp(e) ==
  LET name == e \o "-name" at == e \o "-at" IN
  Do(<<Point("tf", e), Fill("tf")>>)
  \cup (Do(<<Hold("tf", e), Fill("tf"), New("EN", name), Put("tf", "enleft", name),
             Hold("v14", name), Fill("v14"), Go("v14")>>)
        ++ Else(loadexp(at), <<Go("tf")>>)
        ++ Do(<<Put("tf", "enright", at), Go("tf")>>)
        ++ (Nothing \cup Refuse(<<>>)))
  \cup Refuse(<<>>)

Where(l) == Nothing \cup (loadexp("where") ++ Do(<<Put(l, "WhereEXP", "where")>>))

(***************************************************************************)
(* Fields of the screen                                                    *)
(***************************************************************************)
getadwid(l) == Nothing \cup (loadexp("width") ++ Do(<<Put(l, "WidthEXP", "width")>>)) \cup Refuse(<<>>)
getcol(l, f) == loadexp("col") ++ Do(<<Put(l, f, "col")>>)
getrow(l, f) == loadexp("row") ++ Do(<<Put(l, f, "row")>>)
getprmpt(l) ==
  (Do(<<New("EN", "prompt"), Hold("v8", "prompt")>>) ++ (Refuse(<<Go("v8")>>) \cup Do(<<Fill("v8"), Go("v8"), Put(l, "Prompt_exp", "prompt")>>)))
  \cup (loadexp("prompt") ++ Do(<<Put(l, "Prompt_exp", "prompt")>>))

leaccept(e) ==
  Do(<<New("XT", "field"), Hold("xtb", "field"), Put("xtb", "VarExpNo", e)>>)
  ++ Else(getadwid("xtb"), <<Go("xtb")>>)
  ++ (Refuse(<<Go("xtb")>>) \cup Do(<<Fill("xtb")>>))
  ++ Else((Nothing \cup getcol("xtb", "PCol_exp") \cup getrow("xtb", "PLine_exp")
            \cup getcol("xtb", "ACol_exp") \cup getrow("xtb", "ALine_exp")) ++ getprmpt("xtb"), <<Go("xtb")>>)
  ++ Do(<<Fill("xtb"), Go("xtb")>>)

lehdtxt ==
  Do(<<New("XT", "field"), Hold("xtab", "field")>>)
  ++ Else(getadwid("xtab") ++ (Nothing \cup getcol("xtab", "PCol_exp") \cup getrow("xtab", "PLine_exp"))
          ++ getprmpt("xtab"), <<Go("xtab")>>)
  ++ Do(<<Go("xtab")>>)

(* range: an element is taken for the first bound whatever follows.  A field *)
(* of text may be given a pattern, whose expression is taken in the middle   *)
(* of the assignment to the element that is held.                            *)
numrange(e) == Do(<<Point("entb", e), Fill("entb")>>) \cup gettfexp(e)
lerange ==
  Do(<<Point("xt", "field")>>)
  ++ ( Refuse(<<>>) \cup
       ( Do(<<New("RA", "range"), Point("ratb", "range"), Put("xt", "RangeID", "range")>>)
         ++ ( Refuse(<<>>) \cup
              ( Do(<<New("EN", "from")>>)
                ++ ( ( Do(<<Hold("entb", "from")>>)
                       ++ ( Do(<<Fill("ratb"), Go("entb")>>)
                            \cup Do(<<Put("ratb", "RangeFrom", "from"), Fill("entb"), PutNew("entb", "enleft", "EN", "pattern"),
                                      Point("v8", "pattern"), Fill("v8"), Go("entb")>>)
                            \cup Do(<<Fill("entb"), Put("ratb", "RangeFrom", "from"), Go("entb")>>)
                            \cup (Else(gettfexp("from"), <<Go("entb")>>) ++ Do(<<Put("ratb", "RangeFrom", "from"), Go("entb")>>))
                            \cup Refuse(<<Go("entb")>>) ) )
                     \cup Do(<<Fill("ratb")>>)
                     \cup ( numrange("from") ++ Do(<<Put("ratb", "RangeFrom", "from")>>)
                            ++ ( Refuse(<<>>) \cup (Do(<<New("EN", "to")>>) ++ numrange("to") ++ Do(<<Put("ratb", "RangeTo", "to")>>)) ) ) )
                ++ (Nothing \cup Refuse(<<>>)) ) ) ) )

(* join: the test of the record that is joined is built from the where       *)
(* expression, an AND and a comparison, and again in the middle of           *)
(* assignments to elements that are held.                                    *)
lejoin ==
  Do(<<Hold("xtb", "field")>>)
  ++ ( Refuse(<<Go("xtb")>>) \cup
       ( Do(<<New("EN", "to")>>) ++ Else(gettfexp("to"), <<Go("xtb")>>)
         ++ Do(<<New("RT", "join"), Hold("rtb", "join"), Put("rtb", "enleft", "to"), Fill("rtb"),
                 Put("xtb", "RangeID", "join"), Go("xtb")>>)
         ++ ( Nothing \cup
              ( Else(loadexp("where"), <<Go("rtb")>>)
                ++ Do(<<Put("rtb", "WhereEXP", "where"),
                        New("EN", "and"), Hold("entb", "and"), Fill("entb"), Put("entb", "enright", "where"),
                        PutNew("entb", "enleft", "EN", "equal"), Put("rtb", "WhereEXP", "and"), Go("entb"),
                        Hold("entb", "equal"), Fill("entb"),
                        PutNew("entb", "enleft", "EN", "theirs"), Point("v12", "theirs"), Fill("v12"),
                        PutNew("entb", "enright", "EN", "ours"), Point("v12", "ours"), Fill("v12"),
                        Go("entb")>>) ) )
         ++ Do(<<Go("rtb")>>) ++ (Nothing \cup Refuse(<<>>)) ) )

(* escape and on_key: a node of the heap, hung on the field before.          *)
leescape == Do(<<Point("xtab", "field"), Fill("xtab")>>) ++ (Nothing \cup Refuse(<<>>))

(***************************************************************************)
(* Tables                                                                  *)
(***************************************************************************)
(* replace: a list of names, each in an element of its own.                  *)
aliasexp ==
  LET item(e, n) == Else(loadexp(n), <<Go("rl")>>) ++ Do(<<Put("rl", "enright", n)>>) IN
  Do(<<New("RT", "alias"), Hold("rl", "alias")>>) ++ item("alias", "one")
  ++ ( Nothing \cup (Do(<<New("RT", "next"), Put("rl", "NextRT", "next"), Point("rl", "next")>>) ++ item("next", "two")) )
  ++ Do(<<Go("rl")>>)

(* Mutant: the element of the operation is not held while its test is read.  *)
lerfileLoose ==
  Do(<<New("PT", "line"), Point("pt", "line"), Fill("pt"), New("RT", "file"), Point("rt", "file"), Put("pt", "TABno", "file")>>)
  ++ (Where("rt") \cup (aliasexp ++ Do(<<Put("rt", "NextRT", "alias")>>)))
(* get, put, delete and the rest; the program line itself is not held, since *)
(* nothing below takes another.                                              *)
lerfile ==
  Do(<<New("PT", "line"), Point("pt", "line"), Fill("pt")>>)
  ++ ( Refuse(<<>>) \cup
       ( Do(<<New("RT", "file"), Hold("rt", "file")>>)
         ++ ( Refuse(<<Go("rt")>>) \cup
              ( Do(<<Fill("rt"), Put("pt", "TABno", "file")>>)
                ++ (Nothing \cup Refuse(<<Go("rt")>>))
                ++ Else(Where("rt") \cup (aliasexp ++ Do(<<Put("rt", "NextRT", "alias")>>)), <<Go("rt")>>)
                ++ (Refuse(<<Go("rt")>>) \cup Do(<<Go("rt")>>)) ) ) ) )

leselect ==
  Refuse(<<>>) \cup
  ( Do(<<New("RT", "file"), Point("rt", "file"), Fill("rt")>>)
    ++ (Nothing \cup Refuse(<<>>)) ++ Where("rt") ++ (Nothing \cup Refuse(<<>>)) )

leulck == Do(<<New("PT", "line"), Point("ptab", "line"), Fill("ptab")>>) ++ (Nothing \cup Refuse(<<>>))

lecopy == Refuse(<<>>) \cup (Do(<<New("XF", "copy"), Hold("xft", "copy"), Fill("xft")>>) ++ (Do(<<Go("xft")>>) \cup Refuse(<<Go("xft")>>)))

(* create: every way out gives the element back.                             *)
lecreate ==
  Do(<<New("KX", "new"), Hold("kxtab", "new"), Fill("kxtab")>>)
  ++ ( Refuse(<<Go("kxtab")>>) \cup
       ( Else(Where("kxtab"), <<Go("kxtab")>>)
         ++ (Refuse(<<Go("kxtab")>>) \cup Do(<<Fill("kxtab"), Go("kxtab")>>)) ) )

(***************************************************************************)
(* Files and printing                                                      *)
(***************************************************************************)
(* print: a list whose tail is held while its items are taken; a whole table *)
(* is an item for each of its fields.                                        *)
leprint ==
  LET more(n) == Do(<<New("PR", n), Put("pr", "NextPR", n), Point("pr", n)>>)
      width == Nothing \cup (Else(loadexp("width"), <<Go("pr")>>) ++ Do(<<Put("pr", "WIDTH_ENTno", "width")>>))
      item == Do(<<Fill("pr")>>) \cup (Else(loadexp("item"), <<Go("pr")>>) ++ Do(<<Put("pr", "VAR_ENTno", "item")>>))
      field(n) == Do(<<New("EN", n), Point("entb", n), Fill("entb"), Put("pr", "VAR_ENTno", n), Fill("pr")>>)
      table == field("f1") ++ (Nothing \cup (more("second") ++ field("f2")))
  IN Refuse(<<>>) \cup
     ( Do(<<New("PR", "list"), Hold("pr", "list")>>)
       ++ ((item ++ width) \cup table) ++ (Nothing \cup (more("next") ++ item)) ++ Do(<<Go("pr")>>) )

(* read: two of the ways out forget that the element of the file is held.    *)
leread ==
  LET more(n) == Do(<<New("PR", n), Put("prtab", "NextPR", n), Point("prtab", n)>>)
      one(n) == Do(<<New("EN", n)>>) ++ Else(gettfexp(n), <<Go("sftab"), Go("prtab")>>) ++ Do(<<Put("prtab", "VAR_ENTno", n)>>)
      field(n) == Do(<<New("EN", n), Point("entb", n), Fill("entb"), Put("prtab", "VAR_ENTno", n)>>)
      table == field("f1") ++ (Nothing \cup (more("second") ++ field("f2")))
      read == Do(<<New("PR", "list"), Put("sftab", "PRTno", "list"), Hold("prtab", "list")>>)
              ++ (one("var") \cup table)
              ++ (Nothing \cup (more("next") ++ (one("var2") \cup Refuse(<<Go("sftab"), Go("prtab")>>))))
              ++ Do(<<Go("prtab"), Fill("sftab")>>)
      write == Else(leprint, <<Go("sftab")>>) ++ Do(<<Put("sftab", "PRTno", "list")>>)
      close == Do(<<Fill("sftab")>>)
  IN Do(<<New("SF", "file"), Hold("sftab", "file")>>)
     ++ ( Refuse(<<Go("sftab")>>) \cup (close ++ Do(<<Go("sftab")>>)) \cup
          ( loadexp("name") ++ Do(<<Put("sftab", "AliasEnt", "name")>>)
            ++ (close \cup Refuse(<<>>) \cup read \cup write) ++ Do(<<Go("sftab")>>) ) )

leopen ==
  Do(<<New("SF", "file"), Point("sft", "file")>>)
  ++ ( Refuse(<<>>) \cup
       ( loadexp("name") ++ Do(<<Put("sft", "AliasEnt", "name"), Fill("sft")>>)
         ++ loadexp("path") ++ Do(<<Put("sft", "FileNameEnt", "path")>>) ++ (Nothing \cup Refuse(<<>>)) ) )

leredisp ==
  LET item(n) == Do(<<Fill("rd")>>) \cup (Else(loadexp(n), <<Go("rd")>>) ++ Do(<<Put("rd", "ENTno", n)>>)) IN
  Do(<<New("RD", "redisp"), Hold("rd", "redisp")>>)
  ++ ( Nothing \cup Refuse(<<>>) \cup
       ( item("one") ++ ( Nothing \cup (Do(<<New("RD", "next"), Put("rd", "NextRD", "next"), Point("rd", "next")>>)
                                        ++ (item("two") \cup Refuse(<<>>))) ) ) )
  ++ Do(<<Go("rd")>>)

(***************************************************************************)
(* The other statements                                                    *)
(***************************************************************************)
lepause ==
  Nothing \cup
  LET both == <<New("EN", "both"), Point("entb", "both"), Put("entb", "enleft", "one")>> line == <<Put("ptab1", "TABno", "both")>> IN
  ( loadexp("one") ++ (Do(both) \cup (loadexp("two") ++ Do(Append(both, Put("entb", "enright", "two"))))) ++ Do(line) )
lemsg ==
  loadexp("one") ++ loadexp("two")
  ++ Do(<<New("EN", "both"), Point("ent", "both"), Put("ent", "enleft", "one"), Put("ent", "enright", "two"), Put("ptab1", "TABno", "both")>>)
lefork == Nothing \cup (loadexp("one") ++ (Refuse(<<>>) \cup (Do(<<Put("ptab1", "TABno", "one")>>) ++ (Nothing \cup Refuse(<<>>)))))
lesleep == loadexp("one") ++ Do(<<Put("ptab1", "TABno", "one")>>)
lescreen == Refuse(<<>>) \cup Do(<<Fill("ptab1")>>)
leset == Do(<<New("PT", "line"), Point("pt", "line"), Fill("pt")>>) ++ (Nothing \cup Refuse(<<>>) \cup Do(<<New("PT", "line2"), Point("pt", "line2"), Fill("pt")>>))

leformat ==
  Refuse(<<>>) \cup
  ( Do(<<New("PT", "break"), Point("ptab", "break"), Fill("ptab"), New("PT", "line"), Hold("ptab", "line"), Fill("ptab")>>)
    ++ ( Nothing \cup
         (Do(<<New("EN", "name")>>) ++ Else(gettfexp("name"), <<Go("ptab")>>) ++ Do(<<Put("ptab", "TABno", "name")>>)) )
    ++ Do(<<Go("ptab")>>) )

(* openlib: a call whose brackets do not match is passed over in silence.    *)
leopenlib ==
  LET line == <<New("PT", "line"), Hold("ptab", "line"), Fill("ptab"), Put("ptab", "TABno", "call"), Go("ptab")>>
      call == <<New("EN", "call"), Hold("entb", "call"), Fill("entb"), Put("entb", "enleft", "handle"), Put("entb", "enright", "lib"), Go("entb")>>
  IN Nothing \cup
     ( Do(<<New("EN", "handle")>>) ++ (Else(gettfexp("handle"), <<>>))
       ++ ( Nothing \cup
            ( Do(<<New("EN", "lib")>>) ++ (Do(<<Hold("entb", "lib"), Fill("entb"), Go("entb")>>) \cup gettfexp("lib"))
              ++ Do(call \o line) ) ) )

(* libcall: the list of its arguments is built before it is known whether    *)
(* there are enough of them; the line is made only then.                     *)
lelibcall ==
  LET arg(n) == loadexp(n) ++ Do(<<Put("entb", "enright", n)>>)
      more(n, m) == Do(<<New("EN", m), Hold("entr", m), Fill("entr"), Put("entr", "enleft", n), Go("entr"),
                         Put("entb", "enright", m), Go("entb"), Hold("entb", m), Fill("entb")>>)
      line == Do(<<New("PT", "line"), Hold("ptab", "line"), Put("ptab", "TABno", "top"), Go("ptab")>>)
  IN loadexp("ret")
     ++ Do(<<New("EN", "top"), Hold("entb", "top"), Fill("entb"), Put("entb", "enleft", "ret")>>)
     ++ ( Refuse(<<Go("entb")>>) \cup Do(<<Go("entb")>>) \cup
          ( Else(arg("a1"), <<Go("entb")>>) ++ more("a1", "m1") ++ Else(arg("a2"), <<Go("entb")>>)
            ++ (Nothing \cup (more("a2", "m2") ++ Else(arg("a3"), <<Go("entb")>>))) ++ Do(<<Go("entb")>>) ++ line ) )

(* A name to begin with: a field of the screen, or an assignment.            *)
assign ==
  Do(<<New("EN", "set"), Hold("enta", "set"), Fill("enta"), Put("enta", "enleft", "name")>>)
  ++ Else( Refuse(<<>>) \cup
           ( loadexp("value") ++ Do(<<Put("enta", "enright", "value")>>)
             ++ (Refuse(<<>>) \cup Do(<<Put("ptab1", "TABno", "set")>>)) ),
           <<Go("enta"), Go("entb"), Go("ptab1")>> )
  ++ Do(<<Go("enta")>>)
named ==
  Do(<<New("PT", "line"), Hold("ptab1", "line"), Fill("ptab1"), New("EN", "name"), Hold("entb", "name")>>)
  ++ Else(gettfexp("name"), <<Go("entb"), Go("ptab1")>>)
  ++ ( (Else(leaccept("name"), <<Go("entb"), Go("ptab1")>>) ++ Do(<<Put("ptab1", "TABno", "field")>>))
       \cup assign \cup Refuse(<<Go("entb"), Go("ptab1")>>) )
  ++ Do(<<Go("entb"), Go("ptab1")>>)

(* A statement that makes one line, held while its arguments are taken; the  *)
(* line points at what the parser returns.                                   *)
Line(A, e) ==
  Do(<<New("PT", "line"), Hold("ptab1", "line"), Fill("ptab1")>>) ++ Else(A ++ Do(<<Put("ptab1", "TABno", e)>>), <<Go("ptab1")>>) ++ Do(<<Go("ptab1")>>)
LineOnly(A) ==
  Do(<<New("PT", "line"), Hold("ptab1", "line"), Fill("ptab1")>>) ++ Else(A, <<Go("ptab1")>>) ++ Do(<<Go("ptab1")>>)

(* while and if: the statements inside take lines of their own; the line of  *)
(* the test is looked up again when its jump is filled in.                   *)
inside == Nothing \cup Line(loadexp("in"), "in")
lewhile ==
  Do(<<New("PT", "while"), Point("ptab", "while"), Fill("ptab")>>)
  ++ loadexp("test") ++ Do(<<Put("ptab", "TABno", "test")>>) ++ inside
  ++ Do(<<New("PT", "back"), Point("v12", "back"), Fill("v12"), Point("v13", "while"), Put("v12", "Operand", "while"), Fill("v13")>>)
leif ==
  Do(<<New("PT", "if"), Hold("ptb", "if"), Fill("ptb")>>)
  ++ Else(loadexp("test"), <<Go("ptb")>>) ++ Do(<<Put("ptb", "TABno", "test"), Go("ptb")>>) ++ inside
  ++ ( Nothing \cup
       (Do(<<New("PT", "else"), Point("pe", "else"), Fill("pe"), Point("pe", "if"), Put("pe", "Operand", "else")>>) ++ inside) )
  ++ Do(<<Point("pe", "if"), Fill("pe")>>)

(* Every statement.                                                          *)
loadstate ==
  lerfile \cup leset \cup lerange \cup leulck \cup leescape \cup lejoin \cup leformat
  \cup leif \cup lewhile \cup leopenlib \cup lelibcall \cup named
  \cup LineOnly(Nothing \cup Refuse(<<>>)) \cup LineOnly(lemsg) \cup LineOnly(lepause) \cup LineOnly(lefork)
  \cup LineOnly(lesleep) \cup LineOnly(lescreen)
  \cup Line(lehdtxt, "field") \cup Line(leopen, "file") \cup Line(leselect, "file") \cup Line(leredisp, "redisp")
  \cup Line(lecopy, "copy") \cup Line(lecreate, "new") \cup Line(leread, "file") \cup Line(leprint, "list")
=============================================================================
