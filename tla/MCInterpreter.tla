---------------------------- MODULE MCInterpreter ----------------------------
(* What a statement does: expressions are parsed and computed; a block is      *)
(* maintained through its form; a table keeps its key tables and sub-records; *)
(* and the arrays of the compiler, which grow while it puts a statement down.  *)
(* Forms: one of two screens, the key and a field with a range, then a field   *)
(* that must be a key of another table; and one of a screen that computes a    *)
(* field.  Arrays grow by two expressions and by one of everything else.       *)
EXTENDS MCExpr

CONSTANT Parts   \* the parts that are looked at

VARIABLES part,    \* the part this behaviour is about; the others stand still
          formForm, formStored, formHolder, formRec, formDirty, formCopy, formMode, formSearch, formPc, formScreen, formRecalt, formRun, formNav, formShown,
          keysStored, keysEntries, keysSubs, keysHolder, keysT, keysKt, keysPc, keysKeep, keysHurt,
          tabTodo, tabUsed, tabSize, tabBase, tabNumber, tabPtr, tabHeld, tabLinks, tabFilled, tabLost

CONSTANTS h, b, Empty, Absent, None, Nobody, prog1, prog2
Accept(f, s, n, req, c) == [op |-> "accept", field |-> f, from |-> f, screen |-> s, num |-> n, required |-> req, check |-> c]
Set(f, e, s) == [op |-> "set", field |-> f, from |-> e, screen |-> s, num |-> 0, required |-> FALSE, check |-> "none"]
TwoScreens == <<Accept("key", 0, 0, FALSE, "none"), Accept("one", 0, 1, FALSE, "range"), Accept("two", 1, 1, TRUE, "join")>>
OneComputed == <<Accept("key", 0, 0, FALSE, "none"), Accept("one", 0, 1, FALSE, "none"), Set("two", "one", 0)>>
Arrays10 == {"PT", "EN", "XT", "RT", "SF", "PR", "RD", "RA", "XF", "KX"}

Form == INSTANCE Maintain WITH
    Key <- {1, 2}, Field <- {"key", "one", "two"}, KeyField <- "key", Value <- {h, b},
    Forms <- {TwoScreens, OneComputed}, Allowed <- {h}, Codes <- {h},
    Modes <- {"a", "c", "d", "v"}, UpStays <- FALSE,
    First <- {[k \in {1, 2} |-> IF k = 1 THEN Absent ELSE [f \in {"one", "two"} |-> IF f = "one" THEN b ELSE h]]},
    Form <- formForm, stored <- formStored, holder <- formHolder, rec <- formRec,
    dirty <- formDirty, copy <- formCopy, mode <- formMode, search <- formSearch, pc <- formPc,
    screen <- formScreen, recalt <- formRecalt, run <- formRun, nav <- formNav,
    shown <- formShown
Keys == INSTANCE KeyTables WITH
    Prog <- {prog1, prog2}, Key <- {1}, Value <- {0, 7}, Zero <- 0, Sub <- {1, 2},
    stored <- keysStored, entries <- keysEntries, subs <- keysSubs, holder <- keysHolder,
    t <- keysT, kt <- keysKt, pc <- keysPc, keep <- keysKeep, hurt <- keysHurt
Tab == INSTANCE Tables WITH
    Arrays <- Arrays10, Block <- [a \in Arrays10 |-> IF a = "EN" THEN 2 ELSE 1],
    AddressFirst <- FALSE, todo <- tabTodo, used <- tabUsed, size <- tabSize, base <- tabBase,
    number <- tabNumber, ptr <- tabPtr, held <- tabHeld, links <- tabLinks, filled <- tabFilled,
    lost <- tabLost
ASSUME Form!FormsType
ASSUME Form!KeyFirst
ASSUME Keys!Constants
ASSUME Tab!Constants

----------------------------------------------------------------------------
(* Instances *)
Both2 == Permutations({prog1, prog2})
\* A key that a signal hurt is not looked at again; nothing is assigned to the
\* field c but a value (that a field can be emptied is seen with a).
\* At the start of a statement all its arrays are full but one at most, and no
\* more than MaxMoved of them move while it is parsed.
MaxMoved == 1
StartsFull == DOMAIN tabNumber = {Tab!Old} => Cardinality({a \in Tab!Taken(tabTodo) : tabUsed[a] < tabSize[a]}) <= 1
Worth ==
  /\ part = "keys" => keysHurt # {1} /\ keysT[prog1].set["c"] # 0 /\ keysT[prog2].set["c"] # 0
  /\ part = "tables" => Cardinality({a \in Arrays10 : tabBase[a] # 0}) <= MaxMoved /\ StartsFull

----------------------------------------------------------------------------
maintainVars == <<formForm, formStored, formHolder, formRec, formDirty, formCopy, formMode, formSearch, formPc, formScreen, formRecalt, formRun, formNav, formShown>>
keysVars == <<keysStored, keysEntries, keysSubs, keysHolder, keysT, keysKt, keysPc, keysKeep, keysHurt>>
tablesVars == <<tabTodo, tabUsed, tabSize, tabBase, tabNumber, tabPtr, tabHeld, tabLinks, tabFilled, tabLost>>
allVars == <<part, <<mem, src, done>>, maintainVars, keysVars, tablesVars>>

ExprOff == mem = 0 /\ src = 0 /\ done = 0
MaintainOff == Form!Init /\ formForm = OneComputed
TablesOff == /\ tabTodo = 0 /\ tabUsed = 0 /\ tabSize = 0 /\ tabBase = 0 /\ tabNumber = 0
             /\ tabPtr = 0 /\ tabHeld = 0 /\ tabLinks = 0 /\ tabFilled = 0 /\ tabLost = 0

InterpreterInit ==
    /\ part \in Parts
    /\ IF part = "expr" THEN Init ELSE ExprOff
    /\ IF part = "maintain" THEN Form!Init ELSE MaintainOff
    /\ Keys!Init
    /\ IF part = "tables" THEN Tab!Init ELSE TablesOff

ExprStep == /\ part = "expr" /\ Next
            /\ UNCHANGED <<part, maintainVars, keysVars, tablesVars>>
MaintainStep == /\ part = "maintain" /\ Form!Next
                /\ UNCHANGED <<part, <<mem, src, done>>, keysVars, tablesVars>>
KeysStep == /\ part = "keys" /\ Keys!Next
            /\ UNCHANGED <<part, <<mem, src, done>>, maintainVars, tablesVars>>
TablesStep == /\ part = "tables" /\ Tab!Next
              /\ UNCHANGED <<part, <<mem, src, done>>, maintainVars, keysVars>>
InterpreterNext == ExprStep \/ MaintainStep \/ KeysStep \/ TablesStep
InterpreterSpec == InterpreterInit /\ [][InterpreterNext]_allVars

----------------------------------------------------------------------------
(* Properties *)
(* An expression is parsed as its levels say, computed without loss where the *)
(* compiler flags whole numbers, and a variable's flag follows its value       *)
(* (getexp.c, calculate.c, evaliex.c).                                         *)
Computes == part = "expr" => Parses /\ Exact /\ Kept
(* A record is reserved while the user works on it and no longer; none lacks a *)
(* required field; the form shows what is stored (ploop.c, abcd.c, pedit.c).   *)
FormsRight == part = "maintain" => Form!Held /\ Form!AtRest /\ Form!NoHalf /\ Form!Display
(* Between commands the key table has the entries of the records and no other, *)
(* and no sub-record is without its record (putrec.c, rdkey.c, reffile.c).     *)
KeysRight == part = "keys" => Keys!IndexFits /\ Keys!NoOrphans
(* What a form saves has passed every check and is what the user sees; and a    *)
(* form or a command changes no record that its program has not reserved       *)
(* (abcd.c, modfld.c, repkey.c, delhier.c).                                    *)
SavesRight == Form!Checked /\ Form!SavesAll /\ Form!OwnLock /\ Keys!ChangesHeld
(* No parser writes to where an array was, what it puts down can be reached,   *)
(* and it lets go of what it held (gettfexp.c, leread.c, lejoin.c).            *)
TablesRight == part = "tables" => Tab!NothingLost /\ Tab!Linked /\ Tab!Released
==============================================================================
