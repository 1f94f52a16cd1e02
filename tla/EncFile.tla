------------------------------ MODULE EncFile ------------------------------
(***************************************************************************)
(* The compiled program file (.enc).  clcomp dumps the program it holds,   *)
(* table after table, and clenter loads it again; clenter first decides    *)
(* whether the file is there, has its version and is not older than the    *)
(* source, and runs clcomp when it is not.                                 *)
(*                                                                         *)
(* A file is a sequence of written units, each with its width in bytes and *)
(* its value; fread() of another width, or past the end, does not succeed  *)
(* here.  In the portable form each field is a unit of its own, otherwise  *)
(* a table is one unit.  Integers of up to four bytes come back as they    *)
(* were written, which is assumed; what xtodom() and domtox() make of        *)
(* fractions is in GetDouble and GetFloat.                                 *)
(***************************************************************************)
EXTENDS Naturals, Sequences, FiniteSets, SequencesExt, FiniteSetsExt, TLC

CONSTANTS Texts,          \* the sources
          Program,        \* what the compiler holds after it read one: [Texts -> ...]
          Forms,          \* the flags: tpenc (-s) and extendDC (-E)
          Loads,          \* how often a program is started
          Ticks           \* how many seconds pass

ZERO == 4               \* fld_ZERO
CHAR == 67              \* FLDtype 'C'
DECIMALS == 164         \* a type with two decimal places (FPtypes)
Lost == 0               \* what is left of a number the loader gets wrong

--------------------------------------------------------------------------
(* The units of a file. *)

Unit(w, v) == [w |-> w, v |-> v]
\* op on the elements of s from the first to the last
Through(op(_, _), base, s) ==
    LET f[i \in 0..Len(s)] == IF i = 0 THEN base ELSE op(f[i - 1], s[i]) IN f[Len(s)]

Two(v) == <<Unit(2, v)>>                      \* putcount, putucount, putbits
Flag(b) == IF b THEN 1 ELSE 0
Text(s) == <<Unit(2, 1), Unit(1, s)>>         \* puttext(s, 0): length, bytes
Raw(w, v) == IF w = 0 THEN <<>> ELSE <<Unit(w, v)>>

Shorts(fs) == [i \in DOMAIN fs |-> <<fs[i], 2>>]
Words(fs) == [i \in DOMAIN fs |-> <<fs[i], 4>>]

Fields(row, layout) ==
    [j \in DOMAIN layout |-> Unit(layout[j][2], row[layout[j][1]])]
\* a whole table: its fields one by one, or its memory at once
PutRows(p, rows, layout, size) ==
    IF p.form.tpenc
    THEN FlattenSeq([i \in DOMAIN rows |-> Fields(rows[i], layout)])
    ELSE Raw(size * Len(rows), rows)
PutTable(p, rows, layout, size) == Two(Len(rows)) \o PutRows(p, rows, layout, size)
PutArray(p, a, w) ==
    IF p.form.tpenc THEN [i \in DOMAIN a |-> Unit(w, a[i])]
    ELSE Raw(w * Len(a), a)

--------------------------------------------------------------------------
(* What the compiler writes, in its order (dumpenc). *)

PutHeader(p) == Two(403) \o Two(2 * Flag(p.form.extendDC) + Flag(p.form.tpenc))

\* sub-records and key tables are marked at the last moment
Marked(t) ==
    t.TDlocked \cup (IF t.subs THEN {"HASSUB"} ELSE {})
               \cup (IF t.keys THEN {"HASK"} ELSE {})
               \cup (IF t.keys /\ t.TDlocked \cap {"PUT", "GET"} # {}
                     THEN {"GETK"} ELSE {})
PutTd(t) ==
    Text(t.db) \o (IF "FLOCK" \in t.TDlocked THEN Text("locking") ELSE <<>>)
    \o Text(t.name) \o Two(Marked(t)) \o Two(t.crc)
PutTds(p) ==
    Two(Len(p.tables)) \o FlattenSeq([i \in DOMAIN p.tables |-> PutTd(p.tables[i])])

OneEsc == Shorts(<<"OESCFlags", "BlockNo", "KeyNumber", "NextESC">>)
DumpOe(p, n) ==
    FlattenSeq([i \in 1..n |->
        LET e == [OESCFlags |-> 31, BlockNo |-> 32, KeyNumber |-> 33,
                  NextESC |-> Flag(i < n)]
        IN  IF p.form.tpenc THEN Fields(e, OneEsc) ELSE Raw(16, e)])
PutOelist(p) == Two(p.esc) \o (IF p.esc # 0 THEN DumpOe(p, p.esc) ELSE <<>>)

VarRow == Shorts(<<"TDFtype", "FLDstat", "FLDelemID", "FLDlen", "FLDtype", "field_15">>)
PutFtabs(p) == PutRows(p, p.vars, VarRow, 24)
PutDouble(v) == <<Unit(8, v.data)>>
PutVars(p) ==
    Two(Len(p.vars)) \o PutFtabs(p)
    \o FlattenSeq([i \in DOMAIN p.vars |->
         LET v == p.vars[i]
         IN  CASE v.FLDstat = ZERO -> <<>>
               [] v.FLDstat # ZERO /\ v.FLDtype = CHAR -> <<Unit(v.FLDlen, v.data)>>
               [] OTHER -> PutDouble(v)])

PutPtabs(p) ==
    PutTable(p, p.steps, Shorts(<<"SrcLineNo", "OpCode", "Operand", "TABno">>), 8)

\* the middle of a node depends on its kind
PutNode(p, e) ==
    Two(e.entype) \o (IF p.form.extendDC THEN Two(e.extOpCode) ELSE <<>>)
    \o (CASE e.entype \in {1, 2} -> Two(e.a) \o Two(e.b)
          [] e.entype \in {4, 8, 16} -> <<Unit(4, e.a)>>
          [] OTHER -> <<>>)
    \o Two(e.enleft) \o Two(e.enright)
PutEnodes(p) ==
    Two(Len(p.nodes))
    \o (IF p.form.tpenc THEN FlattenSeq([i \in DOMAIN p.nodes |-> PutNode(p, p.nodes[i])])
        ELSE Raw(16 * Len(p.nodes), p.nodes))

PutXtabs(p) ==
    PutTable(p, p.accepts,
        Shorts(<<"Flags", "Attr", "ScrAttrib", "field_32", "FLDnum", "Width", "width",
                 "PCol", "PLine", "ACol", "ALine", "C_X", "C_Y", "onesc", "RangeID",
                 "VarExpNo", "WidthEXP", "PCol_exp", "PLine_exp", "ACol_exp",
                 "ALine_exp", "Prompt_exp">>), 52)
PutRtabs(p) ==
    PutTable(p, p.refs, Shorts(<<"LockType", "OpType", "WhereEXP">>) \o Words(<<"TTno">>)
                        \o Shorts(<<"enleft", "enright", "NextRT">>), 20)
PutRatabs(p) ==
    PutTable(p, p.ranges, Shorts(<<"RangeType", "RangeFrom", "RangeTo", "StringOffset">>), 12)
PutXftabs(p) == PutTable(p, p.copies, Words(<<"TTno_to", "TTno_from">>), 8)
PutSftabs(p) ==
    PutTable(p, p.files, Shorts(<<"cmd_flags", "PRTno", "AliasEnt", "FileNameEnt">>), 8)
PutPrtabs(p) ==
    PutTable(p, p.prints, Shorts(<<"VAR_ENTno", "WIDTH_ENTno", "WIDTH_FLAGS",
                                   "ReservedFlags", "NextPR">>), 10)
PutRdtabs(p) ==
    PutTable(p, p.reads, Shorts(<<"RDTFlags", "ENTno">>) \o Words(<<"TTno">>)
                         \o Shorts(<<"NextRD">>), 12)

KxRow == Shorts(<<"KXFlags", "WhereEXP", "NumTTs", "NumKeyFields", "NumDataFields",
                  "KeySize", "RecSize">>) \o Words(<<"TTno">>)
PutKxtabs(p) ==
    Two(Len(p.creates))
    \o (IF p.form.tpenc
        THEN FlattenSeq([i \in DOMAIN p.creates |->
                 Fields(p.creates[i].row, KxRow) \o Text(p.creates[i].row.TableName)])
        ELSE Raw(64 * Len(p.creates), [i \in DOMAIN p.creates |-> p.creates[i].row]))
\* the lists of each create statement follow the table
PutKxLists(p) ==
    FlattenSeq([i \in DOMAIN p.creates |->
        LET k == p.creates[i]
        IN  Two(Len(k.KeyElemIDs)) \o PutArray(p, k.KeyElemIDs, 2)
            \o PutArray(p, k.TkeyTy, 2)
            \o Two(Len(k.DataElemIDs)) \o PutArray(p, k.DataElemIDs, 2)
            \o Two(Len(k.TTlist)) \o PutArray(p, k.TTlist, 4)])

PutStrings(p) == <<Unit(4, p.strs)>> \o Raw(p.strs, "strings")

\* after the tables: the names and escapes that the steps refer to
PutStep(p, s) ==
    CASE s.OpCode \in 1..49 -> DumpOe(p, p.escs[s.TABno])
      [] s.OpCode \in {250, 260} /\ s.TABno # 0 -> Text("screen_name")
      [] OTHER -> <<>>
PutSteps(p) == FlattenSeq([i \in DOMAIN p.steps |-> PutStep(p, p.steps[i])])

ScrRow == Shorts(<<"PT_start", "PT_end", "NextSCR">>)
DumpScr(p, n) ==
    FlattenSeq([i \in 1..n |->
        LET s == [PT_start |-> 41, PT_end |-> 42, NextSCR |-> Flag(i < n)]
        IN  IF p.form.tpenc THEN Fields(s, ScrRow) ELSE Raw(8, s)])
BlockRow ==
    Words(<<"BTFlags">>)
    \o Shorts(<<"EndLine", "fmts", "StartLine", "TTno", "Scrs", "EXPR", "On_delete",
                "On_exit", "On_excep", "On_entry">>)
    \o <<<<"Maintain", 7>>, <<"BlockName", 21>>>>
PutBtabs(p) == PutTable(p, p.blocks, BlockRow, 72)
PutBlockLists(p) ==
    FlattenSeq([i \in DOMAIN p.blocks |->
        LET b == p.blocks[i]
        IN  DumpScr(p, b.Scrs) \o DumpOe(p, b.On_delete) \o DumpOe(p, b.On_exit)
            \o DumpOe(p, b.On_excep) \o DumpOe(p, b.On_entry)])

\* dumpenc: one write after the other
Sections == 19
DumpSection(p, n) ==
    CASE n = 1 -> PutHeader(p)    [] n = 2 -> PutTds(p)     [] n = 3 -> PutOelist(p)
      [] n = 4 -> PutVars(p)      [] n = 5 -> PutPtabs(p)   [] n = 6 -> PutEnodes(p)
      [] n = 7 -> PutXtabs(p)     [] n = 8 -> PutRtabs(p)   [] n = 9 -> PutRatabs(p)
      [] n = 10 -> PutXftabs(p)   [] n = 11 -> PutSftabs(p) [] n = 12 -> PutPrtabs(p)
      [] n = 13 -> PutRdtabs(p)   [] n = 14 -> PutKxtabs(p) [] n = 15 -> PutKxLists(p)
      [] n = 16 -> PutStrings(p)  [] n = 17 -> PutSteps(p)  [] n = 18 -> PutBtabs(p)
      [] n = 19 -> PutBlockLists(p)

--------------------------------------------------------------------------
(* What the loader reads.  r: what is left of the file, how reading went   *)
(* (ok, cut: the file ended, garbled: the unit is another one), the value  *)
(* read last, and the row and the rows being filled.                       *)

Getbuf(r, w) ==
    IF r.fate # "ok" \/ w = 0 THEN r
    ELSE IF r.rest = <<>> THEN [r EXCEPT !.fate = "cut"]
    ELSE IF Head(r.rest).w # w THEN [r EXCEPT !.fate = "garbled"]
    ELSE [r EXCEPT !.rest = Tail(@), !.val = Head(r.rest).v]
Getcount(r) == Getbuf(r, 2)
Num(r) == IF r.fate = "ok" THEN r.val ELSE 0
Counted(r) == Getbuf(r, Num(r))               \* as many bytes as the count just read
GetText(r) == Counted(Getcount(r))

\* the value, or the row, just read becomes a field of the row, the rows, one of them
Into(r, f) == [r EXCEPT !.row = @ @@ (f :> r.val)]
Values(r) == [r EXCEPT !.rows = r.val]
Value(r) == [r EXCEPT !.rows = Append(@, r.val)]
WithRow(r) == [r EXCEPT !.rows = Append(@, r.row)]
NoRow(r) == [r EXCEPT !.row = <<>>]
NoRows(r) == [r EXCEPT !.rows = <<>>]

GetRow(r, layout) == Through(LAMBDA a, f : Into(Getbuf(a, f[2]), f[1]), NoRow(r), layout)
Upto(n) == [i \in 1..n |-> i]
\* n rows of the given size, one after the other or all at once
Several(op(_), r, n, size) ==
    IF r.tpenc \/ n = 0 THEN Through(LAMBDA a, i : op(a), NoRows(r), Upto(n))
    ELSE Values(Getbuf(r, size * n))
GetRows(r, n, layout, size) == Several(LAMBDA a : WithRow(GetRow(a, layout)), r, n, size)
TableOf(c, layout, size) == GetRows(c, Num(c), layout, size)
GetTable(r, layout, size) == TableOf(Getcount(r), layout, size)
GetArray(r, n, w) == Several(LAMBDA a : Value(Getbuf(a, w)), r, n, w)

\* a list of escapes or of screens: one is read in any case
RECURSIVE GetList(_, _, _, _, _)
InRow(r) == [r EXCEPT !.row = r.val]
Listed(r, layout, next, size, n) ==
    IF r.fate = "ok" /\ r.row[next] # 0 THEN GetList(r, layout, next, size, n + 1)
    ELSE [r EXCEPT !.val = n]
GetList(r, layout, next, size, n) ==
    Listed(IF r.tpenc THEN GetRow(r, layout) ELSE InRow(Getbuf(r, size)), layout, next, size, n)
LoadOe(r) == GetList(r, Shorts(<<"OESCFlags", "BlockNo", "KeyNumber", "NextESC">>), "NextESC", 16, 1)
LoadScr(r) == GetList(r, Shorts(<<"PT_start", "PT_end", "NextSCR">>), "NextSCR", 8, 1)
\* a list that a flag announces: its length is kept
OptOe(r, announced) == Value(IF announced THEN LoadOe(r) ELSE [r EXCEPT !.val = 0])

\* "locking" stands before the name of a table that is locked as a whole
Locking(r) == r.fate = "ok" /\ r.val = "locking"
GetName(r) == IF Locking(r) THEN GetText(Into(r, "locking")) ELSE r
TdOf(r) ==
    IF r.fate # "ok" THEN r
    ELSE IF ("locking" \in DOMAIN r.row) # ("FLOCK" \in r.row.TDlocked) THEN [r EXCEPT !.fate = "garbled"]
    ELSE WithRow([r EXCEPT !.row = [db |-> @.db, name |-> @.name, crc |-> @.crc,
                                TDlocked |-> IF "CREATE" \in @.TDlocked THEN @.TDlocked
                                             ELSE @.TDlocked \cup {"OPEN"}]])
GetTd(r) ==
    TdOf(Into(Getcount(Into(Getcount(Into(GetName(GetText(Into(GetText(NoRow(r)), "db"))), "name")),
                            "TDlocked")), "crc"))
TdsOf(c) == Through(LAMBDA a, i : GetTd(a), NoRows(c), Upto(Num(c)))
GetTds(r) == TdsOf(Getcount(r))

OelistOf(c) == OptOe(NoRows(c), Num(c) # 0)
GetOelist(r) == OelistOf(Getcount(r))

GetFtabs(r, n) ==
    GetRows(r, n, Shorts(<<"TDFtype", "FLDstat", "FLDelemID", "FLDlen", "FLDtype",
                           "field_15">>), 24)
\* domtox() of eight bytes with decimal places gives nothing
Kept(r, how) == IF how THEN r ELSE [r EXCEPT !.val = Lost]
GetDouble(r, v) == Kept(Getbuf(r, 8), ~(r.tpenc /\ v.TDFtype = DECIMALS))
VarOf(r, v) == [r EXCEPT !.rows = Append(@, [x \in DOMAIN v \cup {"data"} |->
                                                IF x = "data" THEN r.val ELSE v[x]])]
GetVar(r, v) ==
    VarOf(CASE v.FLDstat = ZERO -> [r EXCEPT !.val = 0]
            [] v.FLDstat # ZERO /\ v.FLDtype = CHAR -> Getbuf(r, v.FLDlen)
            [] OTHER -> GetDouble(r, v), v)
VarsOf(r) == IF r.fate # "ok" THEN r ELSE Through(GetVar, NoRows(r), r.rows)
FtabsOf(c) == GetFtabs(c, Num(c))
GetVars(r) == VarsOf(FtabsOf(Getcount(r)))

GetPtabs(r) == GetTable(r, Shorts(<<"SrcLineNo", "OpCode", "Operand", "TABno">>), 8)

\* xtodom() takes the eight bytes at a float for a double
GetFloat(r) == Kept(Getbuf(r, 4), ~r.tpenc)
Absent(r) == [r EXCEPT !.val = 0]
GetMiddle(r) ==
    CASE r.row.entype \in {1, 2} -> Into(Getcount(Into(Getcount(r), "a")), "b")
      [] r.row.entype = 4 -> Into(Absent(Into(GetFloat(r), "a")), "b")
      [] r.row.entype \in {8, 16} -> Into(Absent(Into(Getbuf(r, 4), "a")), "b")
      [] OTHER -> Into(Into(Absent(r), "a"), "b")
GetKind(r) == Into([r EXCEPT !.val = Num(r)], "entype")
GetNode(r) ==
    WithRow(Into(Getcount(Into(Getcount(
            GetMiddle(Into(IF r.extendDC THEN Getcount(GetKind(Getcount(NoRow(r))))
                           ELSE Absent(GetKind(Getcount(NoRow(r)))), "extOpCode"))), "enleft")), "enright"))
TabsOf(c) == Several(GetNode, c, Num(c), 16)
GetTabs(r) == TabsOf(Getcount(r))

GetXtabs(r) ==
    GetTable(r,
        Shorts(<<"Flags", "Attr", "ScrAttrib", "field_32", "FLDnum", "Width", "width",
                 "PCol", "PLine", "ACol", "ALine", "C_X", "C_Y", "onesc", "RangeID",
                 "VarExpNo", "WidthEXP", "PCol_exp", "PLine_exp", "ACol_exp",
                 "ALine_exp", "Prompt_exp">>), 52)
GetRtabs(r) ==
    GetTable(r, Shorts(<<"LockType", "OpType", "WhereEXP">>) \o Words(<<"TTno">>)
                \o Shorts(<<"enleft", "enright", "NextRT">>), 20)
GetRatabs(r) ==
    GetTable(r, Shorts(<<"RangeType", "RangeFrom", "RangeTo", "StringOffset">>), 12)
GetXftabs(r) == GetTable(r, Words(<<"TTno_to", "TTno_from">>), 8)
GetSftabs(r) == GetTable(r, Shorts(<<"cmd_flags", "PRTno", "AliasEnt", "FileNameEnt">>), 8)
GetPrtabs(r) ==
    GetTable(r, Shorts(<<"VAR_ENTno", "WIDTH_ENTno", "WIDTH_FLAGS", "ReservedFlags",
                         "NextPR">>), 10)
GetRdtabs(r) ==
    GetTable(r, Shorts(<<"RDTFlags", "ENTno">>) \o Words(<<"TTno">>) \o Shorts(<<"NextRD">>), 12)

GetKxRow(r) ==
    WithRow(Into(GetText(GetRow(r, Shorts(<<"KXFlags", "WhereEXP", "NumTTs", "NumKeyFields",
                                        "NumDataFields", "KeySize", "RecSize">>) \o Words(<<"TTno">>))),
             "TableName"))
KxtabsOf(c) == Several(GetKxRow, c, Num(c), 64)
GetKxtabs(r) == KxtabsOf(Getcount(r))
FieldOf(b, f) == [b EXCEPT !.row = @ @@ (f :> b.rows)]
Array(r, n, w, f) == FieldOf(GetArray(r, n, w), f)
CountedArray(c, w, f) == Array(c, Num(c), w, f)
KeysOf(c) == Array(Array(c, Num(c), 2, "KeyElemIDs"), Num(c), 2, "TkeyTy")
Joined(b, rows) == [b EXCEPT !.rows = Append(rows, b.row)]
GetKxList(r, row) ==
    Joined(CountedArray(Getcount(CountedArray(Getcount(KeysOf(Getcount([r EXCEPT !.row = [row |-> row]]))),
                                              2, "DataElemIDs")), 4, "TTlist"), r.rows)
GetKxLists(r, creates) == Through(GetKxList, [r EXCEPT !.rows = <<>>], creates)

StrarrOf(c) == [Counted(c) EXCEPT !.rows = Num(c)]
GetStrarr(r) == StrarrOf(Getbuf(r, 4))

\* what follows the tables goes by the steps just loaded
StepScreenOnly(r, s, accepts) ==
    IF s.OpCode \in 1..49 THEN OptOe(r, accepts[s.TABno].onesc # 0)
    ELSE IF s.OpCode = 260 /\ s.TABno # 0
         THEN [GetText(r) EXCEPT !.rows = Append(@, 0)]
    ELSE [r EXCEPT !.rows = Append(@, 0)]
GetStep(r, s, accepts) ==
    CASE s.OpCode \in 1..49 -> OptOe(r, accepts[s.TABno].onesc # 0)
      [] s.OpCode \in {250, 260} /\ s.TABno # 0 ->
            [GetText(r) EXCEPT !.rows = Append(@, 0)]
      [] OTHER -> [r EXCEPT !.rows = Append(@, 0)]
GetSteps(r, got) ==
    Through(LAMBDA a, s : GetStep(a, s, got[7]), [r EXCEPT !.rows = <<>>], got[5])

GetBtabs(r) ==
    GetTable(r, Words(<<"BTFlags">>)
        \o Shorts(<<"EndLine", "fmts", "StartLine", "TTno", "Scrs", "EXPR", "On_delete",
                    "On_exit", "On_excep", "On_entry">>)
        \o <<<<"Maintain", 7>>, <<"BlockName", 21>>>>, 72)
BlockOf(s, b, rows) ==
    [OptOe(OptOe(OptOe(OptOe([s EXCEPT !.rows = <<s.val>>], b.On_delete # 0), b.On_exit # 0),
                 b.On_excep # 0), b.On_entry # 0) EXCEPT !.rows = Append(rows, @)]
GetBlockList(r, b) == BlockOf(LoadScr(r), b, r.rows)
GetBlockLists(r, blocks) == Through(GetBlockList, [r EXCEPT !.rows = <<>>], blocks)

\* loadenc after the header
LoadSection(r, got, n) ==
    CASE n = 2 -> GetTds(r)     [] n = 3 -> GetOelist(r)  [] n = 4 -> GetVars(r)
      [] n = 5 -> GetPtabs(r)   [] n = 6 -> GetTabs(r)    [] n = 7 -> GetXtabs(r)
      [] n = 8 -> GetRtabs(r)   [] n = 9 -> GetRatabs(r)  [] n = 10 -> GetXftabs(r)
      [] n = 11 -> GetSftabs(r) [] n = 12 -> GetPrtabs(r) [] n = 13 -> GetRdtabs(r)
      [] n = 14 -> GetKxtabs(r) [] n = 15 -> GetKxLists(r, got[14])
      [] n = 16 -> GetStrarr(r) [] n = 17 -> GetSteps(r, got)
      [] n = 18 -> GetBtabs(r)  [] n = 19 -> GetBlockLists(r, got[18])

--------------------------------------------------------------------------
(* Starting a program.  ent, enc: the two files, with the time of the last *)
(* change; a compiled file is known by its source and form and by how many *)
(* of its parts were written; got: what was loaded; res: how it ended.     *)

VARIABLES ent, enc, now, pc, sec, form, entStat, EncVersion, src, got, res, loads

vars == <<ent, enc, now, pc, sec, form, entStat, EncVersion, src, got, res, loads>>

\* versions: 403 for 40403, which dumpenc writes; 404 as EncVersion starts;
\* 399 for a file that the loader does not take
Current == 403
None == "none"
Plain == [tpenc |-> FALSE, extendDC |-> FALSE]
NoFile == [there |-> FALSE, mtime |-> 0, text |-> None, form |-> Plain, parts |-> 0,
           raced |-> FALSE]
\* left by an earlier release
OldFile == [NoFile EXCEPT !.there = TRUE]
Holds(t, f) == ("form" :> f) @@ Program[t]
Held(e) == Holds(e.text, e.form)

Init ==
    /\ ent \in [there : BOOLEAN, mtime : {0}, bad : {FALSE}, text : Texts]
    /\ enc \in {NoFile, OldFile}
    /\ now = 1 /\ pc = "idle" /\ sec = 0 /\ form = Plain
    /\ entStat = ent /\ EncVersion = 404 /\ src = None
    /\ got = <<>> /\ res = None /\ loads = 0

Ends(how) ==
    /\ pc' = "idle" /\ res' = how
    /\ sec' = 0 /\ src' = None
    /\ UNCHANGED <<ent, enc, now, form, entStat, EncVersion, loads>>

\* the source is looked at once, the compiled file on each turn
Start(f) ==
    /\ pc = "idle" /\ loads < Loads
    /\ loads' = loads + 1
    /\ form' = f /\ entStat' = ent /\ EncVersion' = 404
    /\ pc' = "stat" /\ got' = <<>> /\ res' = None
    /\ UNCHANGED <<ent, enc, now, sec, src>>
MustCompile == ~enc.there \/ EncVersion # 404
OlderSource == entStat.there /\ entStat.mtime < enc.mtime
Older == entStat.there /\ enc.mtime < entStat.mtime
NoSource == pc = "stat" /\ MustCompile /\ ~entStat.there /\ Ends("no source") /\ UNCHANGED got
Compile ==
    /\ pc = "stat"
    /\ (MustCompile /\ entStat.there) \/ (~MustCompile /\ Older)
    /\ pc' = "child"
    /\ UNCHANGED <<ent, enc, now, sec, form, entStat, EncVersion, src, got, res, loads>>
Open ==
    /\ pc = "stat" /\ ~MustCompile /\ ~Older
    /\ pc' = "read"
    /\ UNCHANGED <<ent, enc, now, sec, form, entStat, EncVersion, src, got, res, loads>>

\* the child reads the whole source before it opens the file for writing
ChildErrors == pc = "child" /\ ent.bad /\ Ends("errors") /\ UNCHANGED got
ChildParses ==
    /\ pc = "child" /\ ~ent.bad
    /\ src' = ent.text
    /\ pc' = "parsed"
    /\ UNCHANGED <<ent, enc, now, sec, form, entStat, EncVersion, got, res, loads>>
ChildOpens ==
    /\ pc = "parsed"
    /\ enc' = [there |-> TRUE, mtime |-> now, text |-> src, form |-> form, parts |-> 0,
               raced |-> ent.text # src]
    /\ sec' = 1 /\ pc' = "dump"
    /\ UNCHANGED <<ent, now, form, entStat, EncVersion, src, got, res, loads>>
ChildWrites ==
    /\ pc = "dump" /\ sec <= Sections
    /\ enc' = [enc EXCEPT !.parts = sec, !.mtime = now]
    /\ sec' = sec + 1
    /\ UNCHANGED <<ent, now, pc, form, entStat, EncVersion, src, got, res, loads>>
\* the parent waits for the end of the child and opens what it wrote
ChildExits ==
    /\ pc = "dump" /\ sec > Sections
    /\ pc' = "read" /\ sec' = 0 /\ src' = None
    /\ UNCHANGED <<ent, enc, now, form, entStat, EncVersion, got, res, loads>>
ChildKilled ==
    pc \in {"child", "parsed", "dump"} /\ Ends("errors") /\ UNCHANGED got

\* what clenter finds in the file: version, form, the tables
Reading(file) == [rest |-> file, fate |-> "ok", val |-> 0, row |-> <<>>, rows |-> <<>>,
                  tpenc |-> FALSE, extendDC |-> FALSE]
Loaded(r, before) == [r |-> r, got |-> Append(before, r.rows)]
LoadAll(r) ==
    Through(LAMBDA a, n : IF a.r.fate # "ok" THEN a ELSE Loaded(LoadSection(a.r, a.got, n), a.got),
             [r |-> r, got |-> <<Current>>], [i \in 1..(Sections - 1) |-> i + 1])
HeaderOf(r) ==
    IF r.fate # "ok" THEN [version |-> Current, r |-> r, got |-> <<>>]
    ELSE IF r.row.version # Current THEN [version |-> r.row.version, r |-> r, got |-> <<>>]
    ELSE [version |-> r.row.version]
           @@ LoadAll([r EXCEPT !.tpenc = r.val % 2 = 1, !.extendDC = r.val \div 2 = 1])
Loadenc(file) == HeaderOf(Getcount(Into(Getcount(Reading(file)), "version")))

\* ... in each file the compiler may leave behind, whole or cut short
Found ==
    {[text |-> t, form |-> f, parts |-> n,
      is |-> Loadenc(IF t = None THEN Two(399) \o Two(0)
                     ELSE FlattenSeq([k \in 1..n |-> DumpSection(Holds(t, f), k)]))] :
        t \in Texts \cup {None}, f \in Forms \cup {Plain}, n \in 0..Sections}
FoundIn(e) == (CHOOSE x \in Found : x.text = e.text /\ x.form = e.form /\ x.parts = e.parts).is

\* a file of another version: round the loop again, to compile it
Again ==
    /\ pc = "read"
    /\ \E l \in {FoundIn(enc)} : l.version # Current /\ EncVersion' = l.version
    /\ pc' = "stat"
    /\ UNCHANGED <<ent, enc, now, sec, form, entStat, src, got, res, loads>>
Load ==
    /\ pc = "read"
    /\ \E l \in {FoundIn(enc)} :
          /\ l.version = Current
          /\ CASE l.r.fate = "cut" -> Ends("exit") /\ UNCHANGED got
               [] l.r.fate = "garbled" \/ (l.r.fate = "ok" /\ l.r.rest # <<>>) ->
                       Ends("garbled") /\ UNCHANGED got
               [] OTHER -> Ends("loaded") /\ got' = l.got

\* outside: the source is edited, time passes; while clenter reads the compiled
\* file it looks at neither, so that both can wait until it is done
Outside == {"idle", "stat", "child", "parsed", "dump"}
Edit(t, bad) ==
    /\ pc \in Outside
    /\ loads < Loads \/ pc # "idle"
    /\ <<t, bad>> # <<ent.text, ent.bad>>
    /\ ent' = [there |-> TRUE, mtime |-> now, bad |-> bad, text |-> t]
    /\ enc' = IF pc = "dump" THEN [enc EXCEPT !.raced = @ \/ t # src] ELSE enc
    /\ UNCHANGED <<now, pc, sec, form, entStat, EncVersion, src, got, res, loads>>
Tick ==
    /\ pc \in Outside /\ now < Ticks /\ now' = now + 1
    /\ UNCHANGED <<ent, enc, pc, sec, form, entStat, EncVersion, src, got, res, loads>>

Step ==
    \/ NoSource \/ Compile \/ Open \/ ChildErrors \/ ChildParses \/ ChildOpens
    \/ ChildWrites \/ ChildExits \/ Again \/ Load
Next ==
    \/ Step \/ ChildKilled \/ Tick
    \/ \E f \in Forms : Start(f)
    \/ \E t \in Texts, bad \in BOOLEAN : Edit(t, bad)

Spec == Init /\ [][Next]_vars
FairSpec == Spec /\ WF_vars(Step)

--------------------------------------------------------------------------
(* What a program is after dumpenc and loadenc. *)

HeldTds(p) ==
    [i \in DOMAIN p.tables |->
        LET t == p.tables[i]
        IN  [db |-> t.db, name |-> t.name, crc |-> t.crc,
             TDlocked |-> IF "CREATE" \in t.TDlocked THEN Marked(t)
                          ELSE Marked(t) \cup {"OPEN"}]]
HeldSteps(p) ==
    [i \in DOMAIN p.steps |->
        IF p.steps[i].OpCode \in 1..49 THEN p.escs[p.steps[i].TABno] ELSE 0]
HeldBlocks(p) ==
    [i \in DOMAIN p.blocks |->
        LET b == p.blocks[i]
        IN  <<b.Scrs, b.On_delete, b.On_exit, b.On_excep, b.On_entry>>]
Expected(p) ==
    <<Current, HeldTds(p), <<p.esc>>, p.vars, p.steps, p.nodes, p.accepts, p.refs, p.ranges,
      p.copies, p.files, p.prints, p.reads, [i \in DOMAIN p.creates |-> p.creates[i].row],
      p.creates, p.strs, HeldSteps(p), p.blocks, HeldBlocks(p)>>

(* A program that was loaded is the one the compiler wrote, down to the    *)
(* last escape, in either form, and the file holds nothing else; the       *)
(* loader never takes one thing for another, and a file that was cut short *)
(* by a killed compiler is never run (loadenc, dumpenc and their helpers). *)
Whole ==
    /\ res # "garbled"
    /\ res = "loaded" => got = Expected(Held(enc))

(* clenter opens a compiled file without compiling only when it was made   *)
(* from the source it found at its start; a source edited while the        *)
(* compiler ran, or in the second of its last write, goes unnoticed, and   *)
(* nothing else does (the times in loadenc).                               *)
Fresh ==
    [][Open => \/ ~entStat.there \/ enc.raced \/ enc.mtime = entStat.mtime
               \/ enc.text = entStat.text]_vars

(* Each start comes to an end: a file of another version is compiled once, *)
(* and the second turn finds its version (the loop of loadenc).            *)
LoadEnds == pc # "idle" ~> pc = "idle"
=============================================================================
