------------------------------ MODULE Maintain ------------------------------
(* One block that maintains a table: pblock() offers its modes, abcd() takes *)
(* one record after the other through its screens, _ploop() runs the         *)
(* statements of a screen, pedit() and modfld() one field, eaddkey() and      *)
(* egetkey() the key, and reply() the question at the end.  The user may      *)
(* answer anything at each prompt; another program works on the same table.   *)
EXTENDS Naturals, FiniteSets, Sequences

CONSTANTS Key,            \* the keys of the table, ordered
          Field, KeyField, \* its fields and the one that is the key
          Value, Empty,   \* what a data field may hold; Empty: nothing was typed
          Forms,          \* blocks: the statements of their screens
          Allowed, Codes, \* the range of a field; the keys of the table it joins
          Modes,          \* the maintain codes of the block, more than one
          UpStays,        \* whether the user goes back where that leads nowhere:
                          \* the field done last has the number of this one
          Absent, None,
          First           \* what the table may hold at first

Data == Field \ {KeyField}
Rows == [Data -> Value \cup {Empty}]
Blank == [f \in Field |-> Empty]

FormsType ==
  /\ Forms \subseteq Seq([op : {"accept", "set"}, field : Field, from : Field, screen : Nat, num : Nat,
                   required : BOOLEAN, check : {"none", "range", "join", "nojoin"}])
  /\ Key \subseteq Nat /\ Empty \notin Key \cup Value /\ None \notin Key \cup Rows
  /\ Absent \notin Rows /\ Modes \subseteq {"a", "c", "d", "v"} /\ Modes # {}
  /\ UpStays \in BOOLEAN
  /\ Allowed \subseteq Value /\ Codes \subseteq Value

(* The first statement accepts the key, the only field of the key; fields    *)
(* that are checked against another table are on a later screen than the     *)
(* search shows.  No record of the table has records of its own below it.    *)
KeyFirst == \A form \in Forms :
  /\ form[1].op = "accept" /\ form[1].field = KeyField /\ form[1].num = 0 /\ form[1].screen = 0
  /\ form[1].check = "none" /\ ~form[1].required
  /\ \A i \in DOMAIN form : i > 1 => form[i].field # KeyField
  /\ \A i \in DOMAIN form : form[i].screen = 0 => form[i].check \notin {"join", "nojoin"}

VARIABLES Form,            \* the block
          stored, holder,  \* the records of the table, and who has them locked
          rec, dirty,      \* the fields of the entry of ttab[]; those assigned to
          copy,            \* its LOCK and AVAIL, TDworkarea2 (or what getr() saw),
                            \* and whether a lock was left behind
          mode, search,    \* Curr_Mode, SrchMode, BTFlags and where the cursor is
          pc, screen, recalt,
          run,             \* _ploop(): the statement, the range, skip, key_found
          nav,             \* go_back, back_to, lback_to, skip_gb, last_fld
          shown            \* what the screen shows of the record

vars == <<Form, stored, holder, rec, dirty, copy, mode, search, pc, screen, recalt, run, nav, shown>>
table == <<stored, holder>>
entry == <<rec, dirty, copy>>
dialog == <<mode, search, screen, recalt, run, nav>>

Items == DOMAIN Form
Screens == {Form[i].screen : i \in Items}
LastScreen == CHOOSE s \in Screens : \A t \in Screens : t <= s
StartOf(s) == CHOOSE i \in Items : Form[i].screen = s /\ \A j \in Items : Form[j].screen = s => i <= j
EndOf(s) == CHOOSE i \in Items : Form[i].screen = s /\ \A j \in Items : Form[j].screen = s => j <= i

NoSearch == [mode |-> None, active |-> FALSE, place |-> None, seen |-> FALSE]
NoCopy == [lock |-> None, avail |-> FALSE, old |-> None, left |-> FALSE]
NoRun == [at |-> 1, lo |-> 1, hi |-> 1, skip |-> FALSE, save |-> FALSE, found |-> FALSE]
NoNav == [on |-> FALSE, back |-> 0, lback |-> 0, skip |-> FALSE, last |-> 0]

Init ==
  /\ Form \in Forms /\ stored \in First /\ holder = [k \in Key |-> "nobody"]
  /\ rec = Blank /\ dirty = {} /\ copy = NoCopy
  /\ mode = "e" /\ search = NoSearch
  /\ pc = "menu" /\ screen = 0 /\ recalt = FALSE
  /\ run = NoRun /\ nav = NoNav /\ shown = Blank

(***************************************************************************)
(* The entry of ttab[] and the record it reserves                           *)
(***************************************************************************)
(* rfree() empties the fields, and disprec() their places on the screen. *)
Rfree == rec' = Blank /\ dirty' = {}

Cleared == Rfree /\ shown' = Blank

(* dispfld(): a field's place on the screen. *)
Dispfld(f, v) == shown' = [shown EXCEPT ![f] = v]

(* ulckrec() gives the lock back if the entry says that it has one; AVAIL    *)
(* and TDworkarea2 are read with the lock only.                              *)
Unlocked == IF copy.lock = None THEN holder ELSE [holder EXCEPT ![copy.lock] = "nobody"]
Ulckrec == holder' = Unlocked /\ copy' = NoCopy

Row == [f \in Data |-> rec[f]]
Loaded(k, row) == [f \in Field |-> IF f = KeyField THEN k ELSE row[f]]

(* reprec(): a record that is locked, loaded and the same is not put. *)
Same == copy.lock # None /\ copy.avail /\ copy.old = Row /\ copy.lock = rec[KeyField]
Put == IF Same THEN stored ELSE [stored EXCEPT ![rec[KeyField]] = Row]

(* delhier(): the record of the fields is deleted, and unlocked. *)
Deleted == [stored EXCEPT ![rec[KeyField]] = Absent]

(***************************************************************************)
(* abcd(): from one record to the next                                     *)
(***************************************************************************)
(* ploop() on statements lo to hi of a screen; a7: the screen was entered. *)
Ploop(s, lo, hi, a7, back) ==
  /\ pc' = "stmt" /\ screen' = s
  /\ run' = [at |-> StartOf(s), lo |-> lo, hi |-> hi, save |-> FALSE,
             skip |-> back \/ (s > 0 /\ a7 /\ mode \in {"c", "v"}),
             found |-> run.found /\ ~(a7 /\ s = 0)]

EnterScreen(s) ==
  /\ Ploop(s, StartOf(s), EndOf(s), TRUE, nav.on)
  /\ recalt' = (mode = "a")

(* LABEL_2: the first screen again, for the next record. *)
NextRecord == EnterScreen(0) /\ UNCHANGED <<mode, search, nav>>

ToMenu ==
  /\ pc' = "menu" /\ screen' = 0 /\ run' = NoRun /\ recalt' = FALSE
  /\ search' = NoSearch
  /\ UNCHANGED <<mode, nav>>

(* A record that is given up: one half added is deleted again. *)
GivenUp ==
  /\ IF mode = "a" /\ screen > 0 THEN stored' = Deleted ELSE stored' = stored
  /\ Ulckrec

(* ploop() has returned: 1, 0, 64, 128, -22 (go back), -17 (restart) or -5.  *)
Restart ==
  /\ pc \in {"restart", "exit"}
  /\ GivenUp /\ Cleared
  /\ IF pc = "exit" THEN ToMenu ELSE NextRecord

GoBack ==
  /\ pc = "back"
  /\ nav' = [nav EXCEPT !.on = TRUE]
  /\ Ploop(screen, run.lo, run.hi, FALSE, TRUE)
  /\ UNCHANGED <<table, entry, mode, search, recalt, shown>>

(* Not unique, not found, or reserved by another: the key is asked again. *)
KeyRefused ==
  /\ pc = "refused"
  /\ NextRecord /\ UNCHANGED <<table, entry, shown>>

(* An empty key ends the mode. *)
EmptyKey ==
  /\ pc = "empty"
  /\ ToMenu /\ UNCHANGED <<table, entry, shown>>

(* exit_block in the block of an escape key: as if answered q, then MODE = E. *)
ExitBlock ==
  /\ pc = "exit_block"
  /\ GivenUp /\ Cleared
  /\ pc' = "out" /\ screen' = 0 /\ run' = NoRun /\ recalt' = FALSE
  /\ search' = NoSearch
  /\ UNCHANGED <<mode, nav>>

Completed ==
  /\ pc = "done" /\ pc' = "ask"
  /\ UNCHANGED <<table, entry, dialog, shown>>

(***************************************************************************)
(* reply() at the end of a screen                                          *)
(***************************************************************************)
Saved == recalt \/ dirty # {}

(* Mutant: reprec() gives the lock back after each screen. *)
LetGo == Ulckrec
StillReserved ==
  /\ copy' = IF mode \in {"a", "c"} /\ Saved THEN [copy EXCEPT !.avail = TRUE, !.old = Row] ELSE copy
  /\ UNCHANGED holder

AnswerYes ==
  /\ pc = "ask" /\ mode # "d"
  /\ stored' = IF mode \in {"a", "c"} /\ Saved THEN Put ELSE stored
  /\ IF screen = LastScreen
     THEN Ulckrec /\ Cleared /\ NextRecord
     ELSE /\ StillReserved
          /\ EnterScreen(screen + 1) /\ shown' = Blank
          /\ UNCHANGED <<rec, dirty, mode, search, nav>>

AnswerDelete ==
  /\ pc = "ask" /\ mode = "d"
  /\ stored' = Deleted
  /\ Ulckrec /\ Cleared /\ NextRecord

(* q, or n to "are you sure". *)
AnswerQuit ==
  /\ pc = "ask"
  /\ GivenUp /\ Cleared /\ NextRecord

(* m: eafr() asks for a field by its number, or all of them, or from one on. *)
Numbered(s) == {i \in Items : Form[i].screen = s /\ Form[i].op = "accept" /\ Form[i].field # KeyField}

AnswerModify ==
  /\ pc = "ask" /\ mode \in {"a", "c"}
  /\ recalt' = TRUE
  /\ \/ \E i \in Numbered(screen), to \in {"it", "on"} :
          Ploop(screen, i, IF to = "it" THEN i ELSE EndOf(screen), FALSE, nav.on)
     \/ Ploop(screen, StartOf(screen), EndOf(screen), FALSE, nav.on)
     \/ UNCHANGED <<pc, screen, run>>
  /\ UNCHANGED <<table, entry, mode, search, nav, shown>>

(* E ends the program wherever a question is asked: closedb() unlocks. *)
EndProgram ==
  /\ pc \in {"menu", "ask", "pick"} /\ pc' = "over"
  /\ holder' = [k \in Key |-> IF holder[k] = "me" THEN "nobody" ELSE holder[k]]
  /\ copy' = NoCopy /\ Cleared
  /\ UNCHANGED <<stored, dialog>>

(***************************************************************************)
(* pblock(): the menu of the modes                                         *)
(***************************************************************************)
ChooseMode ==
  /\ pc = "menu"
  /\ \E m \in Modes :
       /\ mode' = m /\ recalt' = (m = "a")
       /\ pc' = "stmt" /\ screen' = 0
       /\ run' = [NoRun EXCEPT !.hi = EndOf(0), !.skip = nav.on]
  /\ UNCHANGED <<table, entry, search, nav, shown>>

LeaveBlock ==
  /\ pc = "menu" /\ pc' = "out"
  /\ UNCHANGED <<table, entry, dialog, shown>>

(* The program calls the block again. *)
EnterBlock ==
  /\ pc = "out" /\ pc' = "menu"
  /\ UNCHANGED <<table, entry, dialog, shown>>

(***************************************************************************)
(* _ploop(): the statements of a screen                                    *)
(***************************************************************************)
At == Form[run.at]
Return(code) == pc' = code
Advance(r) == pc' = "stmt" /\ run' = [r EXCEPT !.at = @ + 1]

EndOfScreen ==
  /\ pc = "stmt" /\ run.at > EndOf(screen)
  /\ Return("done")
  /\ UNCHANGED <<table, entry, mode, search, screen, recalt, run, nav, shown>>

InScreen(op) == pc = "stmt" /\ run.at <= EndOf(screen) /\ At.op = op

(* An assignment: calculate() marks the field, for hasass(). *)
Assign ==
  /\ InScreen("set")
  /\ rec' = [rec EXCEPT ![At.field] = rec[At.from]]
  /\ dirty' = dirty \cup {At.field}
  /\ Advance(run)
  /\ UNCHANGED <<table, copy, mode, search, screen, recalt, nav, shown>>

Outside == run.at < run.lo \/ run.at > run.hi

(* Outside the range that is modified only what a record lacks is asked, and *)
(* what is checked is checked again.                                         *)
Passed == Outside /\ At.check = "none" /\ ~(At.required /\ rec[At.field] = Empty)

PassField ==
  /\ InScreen("accept")
  /\ \/ run.found /\ At.field = KeyField
        /\ Dispfld(KeyField, rec[KeyField])
     \/ ~(run.found /\ At.field = KeyField) /\ Passed
        /\ IF At.field \in dirty THEN Dispfld(At.field, rec[At.field]) ELSE UNCHANGED shown
  /\ Advance(run)
  /\ UNCHANGED <<table, entry, mode, search, screen, recalt, nav>>

(* go_back is reset; without it back_to, lback_to and skip_gb are not read. *)
Forward == [NoNav EXCEPT !.last = nav.last]

(* On the way back to a field all others are skipped; past the field that    *)
(* was left, skip is what it was there.                                      *)
BackOver(n) == IF nav.on /\ n # nav.back /\ n >= nav.lback THEN Forward ELSE nav
SkipAt(n, skip) ==
  IF ~nav.on THEN skip ELSE IF n = nav.back THEN FALSE ELSE IF n >= nav.lback THEN nav.skip ELSE skip

(* jcheck(): whether the table has the value, and whether it may. *)
Joined(check, v) == (v \in Codes) = (check = "join")

(* rcheck() and jcheck(). *)
Accepts(s, v) ==
  IF v = Empty THEN ~s.required
  ELSE CASE s.check = "range" -> v \in Allowed
         [] s.check \in {"join", "nojoin"} -> Joined(s.check, v)
         [] OTHER -> TRUE

PassesSkipped(s, v) == Accepts(s, v)

(* A field the user accepted, or that was skipped: the next statement. *)
FieldDone(r) ==
  /\ nav' = [BackOver(At.num) EXCEPT !.last = At.num]
  /\ Advance([r EXCEPT !.skip = IF Outside /\ At.check # "none" THEN run.save ELSE @])

(* Mutant: a check that fails on a field that was skipped is not noted. *)
FieldCheckedSilently == recalt' = recalt
FieldChecked == recalt' = TRUE

(* pedit(): an empty key ends the mode, any other is added or looked for.    *)
TakeKey(k) ==
  /\ search' = NoSearch
  /\ Dispfld(KeyField, k)
  /\ IF k = Empty THEN Return("empty")
     ELSE pc' = (IF mode = "a" THEN "getr" ELSE "find")

(* modfld() with skip: the value is checked, and asked if it is refused.     *)
StartField ==
  /\ InScreen("accept") /\ ~(run.found /\ At.field = KeyField) /\ ~Passed
  /\ At.field = KeyField => ~search.active
  /\ LET skip == SkipAt(At.num, run.skip \/ (Outside /\ At.check # "none"))
         r == [run EXCEPT !.skip = skip, !.save = run.skip]
     IN \/ /\ skip /\ PassesSkipped(At, rec[At.field]) /\ At.field # KeyField
           /\ Dispfld(At.field, rec[At.field])
           /\ FieldDone(r) /\ UNCHANGED <<recalt, search>>
        \/ /\ skip /\ At.field = KeyField
           /\ TakeKey(rec[KeyField]) /\ run' = r /\ nav' = BackOver(0)
           /\ UNCHANGED recalt
        \/ /\ ~(skip /\ PassesSkipped(At, rec[At.field]))
           /\ pc' = "field" /\ run' = r /\ nav' = BackOver(At.num)
           /\ IF skip THEN FieldChecked ELSE UNCHANGED recalt
           /\ UNCHANGED <<shown, search>>
  /\ UNCHANGED <<table, entry, mode, screen>>

(***************************************************************************)
(* linput() in modfld(): what the user may do in a field                   *)
(***************************************************************************)
InField == pc = "field"
Ranges(f) == (IF f = KeyField THEN Key ELSE Value) \cup {Empty}

(* Enter, or ESC ESC: the text as it was, and the rest of the fields skipped. *)
EnterData ==
  /\ InField /\ At.field # KeyField
  /\ \E v \in Ranges(At.field), out \in BOOLEAN :
       /\ out => v = rec[At.field]
       /\ rec' = [rec EXCEPT ![At.field] = v]
       /\ Dispfld(At.field, v)
       /\ IF Accepts(At, v)
          THEN FieldDone([run EXCEPT !.skip = @ \/ out]) /\ UNCHANGED recalt
          ELSE FieldChecked /\ UNCHANGED <<pc, run, nav>>
  /\ UNCHANGED <<table, dirty, copy, mode, search, screen>>

(* A wild card in a joined field: the user takes one of the other table's    *)
(* records, or none.                                                         *)
LookUp ==
  /\ InField /\ At.check = "join"
  /\ \/ \E v \in Codes :
          /\ rec' = [rec EXCEPT ![At.field] = v]
          /\ Dispfld(At.field, v)
          /\ FieldDone(run) /\ UNCHANGED recalt
     \/ /\ rec' = [rec EXCEPT ![At.field] = Empty]
        /\ Dispfld(At.field, Empty)
        /\ FieldChecked /\ UNCHANGED <<pc, run, nav>>
  /\ UNCHANGED <<table, dirty, copy, mode, search, screen>>

(* An escape key runs its block; what was typed is in the field already. *)
EscapeKey ==
  /\ InField
  /\ \/ /\ At.field # KeyField
        /\ \E v \in Value : rec' = [rec EXCEPT ![At.field] = v]
        /\ UNCHANGED <<pc, nav>>
     \/ /\ Return("exit_block") /\ nav' = Forward
        /\ UNCHANGED rec
  /\ UNCHANGED <<table, dirty, copy, mode, search, screen, recalt, run, shown>>

(* Up: back to the field before, unless the user is on the way back already. *)
Up ==
  /\ InField /\ Return("back")
  /\ At.num = nav.last => UpStays
  /\ LET skip == IF Outside /\ At.check # "none" THEN run.save ELSE run.skip IN
     nav' = IF nav.on THEN [nav EXCEPT !.back = nav.last]
            ELSE [nav EXCEPT !.on = TRUE, !.back = nav.last, !.lback = At.num, !.skip = skip]
  /\ UNCHANGED <<table, entry, mode, search, screen, recalt, run, shown>>

(* ctrl-A: this record again; ctrl-E: back to the menu. *)
AbortField ==
  /\ InField
  /\ \E code \in {"restart", "exit"} : Return(code)
  /\ nav' = Forward
  /\ Dispfld(At.field, Empty)
  /\ UNCHANGED <<table, entry, mode, search, screen, recalt, run>>

(***************************************************************************)
(* pedit(): the key                                                        *)
(***************************************************************************)
EnterKey ==
  /\ InField /\ At.field = KeyField
  /\ \E k \in Ranges(KeyField) : rec' = [rec EXCEPT ![KeyField] = k] /\ TakeKey(k)
  /\ UNCHANGED <<table, dirty, copy, mode, screen, recalt, run, nav>>

(* A wild card: the records one after the other, from either end. *)
EnterWild ==
  /\ InField /\ At.field = KeyField /\ mode # "a"
  /\ \E way \in {"n", "p"} : search' = [NoSearch EXCEPT !.mode = way]
  /\ pc' = "search"
  /\ UNCHANGED <<table, entry, mode, screen, recalt, run, nav, shown>>

(* With BTFlags the search goes on after each record, without a question.    *)
SearchOn ==
  /\ InScreen("accept") /\ At.field = KeyField /\ ~run.found /\ search.active
  /\ search' = [search EXCEPT !.seen = FALSE] /\ pc' = "search"
  /\ UNCHANGED <<table, entry, mode, screen, recalt, run, nav, shown>>

(* 64: the fields of the record follow, skipped unless it is a new one.      *)
Reserved(lock, avail, row) ==
  /\ copy' = [NoCopy EXCEPT !.lock = lock, !.avail = avail, !.old = row]
  /\ run' = [run EXCEPT !.at = IF mode = "a" THEN @ + 1 ELSE StartOf(screen) + 1,
                        !.skip = @ \/ mode # "a", !.found = TRUE]
  /\ pc' = "stmt"
  /\ search' = [search EXCEPT !.active = (search.mode # None)]
 

(* 128, and what is on the screen of a search that is given up goes.         *)
Refused(wipe) ==
  /\ Return("refused")
  /\ run' = [run EXCEPT !.found = FALSE]
  /\ search' = NoSearch
  /\ IF wipe THEN shown' = Blank ELSE UNCHANGED shown

NoFields == [f \in Data |-> Empty]

(* rdnxt() for one key: the lock is given back, the record looked for. *)
Find ==
  /\ pc = "find" /\ Ulckrec
  /\ \/ /\ stored[rec[KeyField]] # Absent /\ pc' = "getr"
        /\ UNCHANGED <<rec, dirty, run, search, shown>>
     \/ /\ stored[rec[KeyField]] = Absent
        /\ Rfree /\ Refused(TRUE)
  /\ UNCHANGED <<stored, mode, screen, recalt, nav>>

(* rdrec(): read without a lock first; in view mode that is all. *)
Getr ==
  /\ pc = "getr"
  /\ LET k == rec[KeyField]
         seen == stored[k]
     IN /\ holder' = Unlocked
        /\ IF mode # "v"
           THEN /\ pc' = "lgetr" /\ copy' = [NoCopy EXCEPT !.old = seen]
                /\ UNCHANGED <<rec, dirty, run, search, shown>>
           ELSE IF seen # Absent
           THEN /\ rec' = Loaded(k, seen) /\ Reserved(None, FALSE, None)
                /\ UNCHANGED <<dirty, shown>>
           ELSE /\ IF search.seen THEN Rfree ELSE rec' = Loaded(k, NoFields) /\ dirty' = dirty
                /\ copy' = NoCopy /\ Refused(search.seen)
  /\ UNCHANGED <<stored, mode, screen, recalt, nav>>

(* Mutant: a key that is in the table already is left reserved. *)
ExistsKept(k) == holder' = [holder EXCEPT ![k] = "me"] /\ copy' = [copy EXCEPT !.lock = k, !.avail = TRUE]

(* eaddkey(): the record exists, it is not reserved for long. *)
Exists(k) == UNCHANGED holder /\ copy' = NoCopy

(* lgetr() with lockr: the record is locked, and read again. *)
Lgetr ==
  /\ pc = "lgetr"
  /\ LET k == rec[KeyField]
         seen == copy.old
         row == IF stored[k] # Absent THEN stored[k] ELSE seen
     IN \/ /\ holder[k] = "other"
           /\ UNCHANGED holder /\ copy' = NoCopy
           /\ IF mode = "a" \/ search.seen THEN Rfree
              ELSE rec' = Loaded(k, IF seen # Absent THEN seen ELSE NoFields) /\ dirty' = dirty
           /\ Refused(mode = "a" \/ search.seen)
        \/ /\ holder[k] # "other" /\ mode = "a" /\ seen # Absent
           /\ Exists(k) /\ Rfree /\ Refused(TRUE)
        \/ /\ holder[k] # "other" /\ mode = "a" /\ seen = Absent
           /\ holder' = [holder EXCEPT ![k] = "me"]
           /\ rec' = Loaded(k, NoFields) /\ Reserved(k, FALSE, IF row = Absent THEN NoFields ELSE row)
           /\ UNCHANGED <<dirty, shown>>
        \/ /\ holder[k] # "other" /\ mode # "a" /\ seen # Absent
           /\ holder' = [holder EXCEPT ![k] = "me"]
           /\ rec' = Loaded(k, row) /\ Reserved(k, TRUE, row)
           /\ UNCHANGED <<dirty, shown>>
        \/ (* deleted since it was found: refused, but it stays reserved *)
           /\ holder[k] # "other" /\ mode # "a" /\ seen = Absent
           /\ holder' = [holder EXCEPT ![k] = "me"]
           /\ copy' = [lock |-> k, avail |-> FALSE, old |-> NoFields, left |-> TRUE]
           /\ IF search.seen THEN Rfree ELSE rec' = Loaded(k, NoFields) /\ dirty' = dirty
           /\ Refused(search.seen)
  /\ UNCHANGED <<stored, mode, screen, recalt, nav>>

(* rdnxt() and rdprev(): the next record in key order. *)
Ahead == {k \in Key : stored[k] # Absent /\ (search.place # None =>
            IF search.mode = "n" THEN k > search.place ELSE k < search.place)}
NextIs(k) == k \in Ahead /\ \A j \in Ahead : IF search.mode = "n" THEN k <= j ELSE j <= k

Search ==
  /\ pc = "search" /\ Ulckrec
  /\ \/ \E k \in Key :
          /\ NextIs(k)
          /\ rec' = Loaded(k, stored[k])
          /\ shown' = [f \in Field |-> IF \E i \in Items : Form[i].screen = 0 /\ Form[i].field = f /\ Form[i].op = "accept"
                                       THEN rec'[f] ELSE shown[f]]
          /\ search' = [search EXCEPT !.place = k, !.seen = TRUE]
          /\ pc' = "pick" /\ UNCHANGED <<dirty, run>>
     \/ /\ Ahead = {}
        /\ IF search.seen THEN Rfree ELSE UNCHANGED <<rec, dirty>>
        /\ Refused(search.seen)
  /\ UNCHANGED <<stored, mode, screen, recalt, nav>>

(* <y>es <n>ext <p>rev or <q>uit *)
Pick ==
  /\ pc = "pick"
  /\ \/ /\ pc' = "getr" /\ UNCHANGED <<rec, dirty, search, run, shown>>
     \/ /\ \E way \in {"n", "p"} : search' = [search EXCEPT !.mode = way]
        /\ Cleared /\ pc' = "search" /\ UNCHANGED <<run>>
     \/ Rfree /\ Refused(TRUE)
  /\ UNCHANGED <<table, copy, mode, screen, recalt, nav>>

(***************************************************************************)
(* Another program, that changes what it has locked                        *)
(***************************************************************************)
OtherLocks ==
  /\ \A k \in Key : holder[k] # "other"
  /\ \E k \in Key : holder[k] = "nobody" /\ holder' = [holder EXCEPT ![k] = "other"]
  /\ UNCHANGED stored

OtherRows == UNION {{s[k] : k \in Key} : s \in First}

OtherChanges ==
  /\ \E k \in Key, row \in OtherRows : holder[k] = "other" /\ stored' = [stored EXCEPT ![k] = row]
  /\ UNCHANGED holder

OtherUnlocks ==
  /\ \E k \in Key : holder[k] = "other" /\ holder' = [holder EXCEPT ![k] = "nobody"]
  /\ UNCHANGED stored

Other == (OtherLocks \/ OtherChanges \/ OtherUnlocks) /\ UNCHANGED <<entry, dialog, pc, shown>>

Question == ChooseMode \/ LeaveBlock \/ EnterBlock \/ AnswerYes \/ AnswerDelete \/ AnswerQuit \/ AnswerModify \/ EndProgram \/ Pick
InForm == EnterData \/ LookUp \/ EscapeKey \/ Up \/ AbortField \/ EnterKey \/ EnterWild
Inside == \/ Restart \/ GoBack \/ KeyRefused \/ EmptyKey \/ ExitBlock \/ Completed
          \/ EndOfScreen \/ Assign \/ PassField \/ StartField \/ SearchOn
          \/ Find \/ Getr \/ Lgetr \/ Search
Over == pc = "over" /\ UNCHANGED vars

Mine == Question \/ InForm \/ Inside
Next == (Mine \/ Other \/ Over) /\ UNCHANGED Form
Spec == Init /\ [][Next]_vars

(***************************************************************************)
(* Properties                                                              *)
(***************************************************************************)
Codings == {"done", "empty", "refused", "back", "restart", "exit", "exit_block"}
TypeOK ==
  /\ Form \in Forms /\ stored \in [Key -> Rows \cup {Absent}]
  /\ holder \in [Key -> {"nobody", "me", "other"}]
  /\ rec \in [Field -> Key \cup Value \cup {Empty}] /\ dirty \subseteq Data
  /\ copy \in [lock : Key \cup {None}, avail : BOOLEAN, old : Rows \cup {Absent, None}, left : BOOLEAN]
  /\ mode \in Modes \cup {"e"}
  /\ search \in [mode : {"n", "p", None}, active : BOOLEAN, place : Key \cup {None}, seen : BOOLEAN]
  /\ pc \in {"menu", "out", "over", "stmt", "field", "ask", "find", "getr", "lgetr", "search", "pick"} \cup Codings
  /\ screen \in Screens /\ recalt \in BOOLEAN
  /\ shown \in [Field -> Key \cup Value \cup {Empty}]

(* From the moment the key was taken until the last question is answered,    *)
(* the record is reserved, whatever way the user takes through the form:     *)
(* nobody changes it under the user's eyes.                                  *)
Held == run.found /\ pc \in {"stmt", "field", "ask"} /\ mode \in {"a", "c", "d"} => holder[rec[KeyField]] = "me" /\ copy.lock = rec[KeyField]

(* At the menu, or when the block has been left, no record is reserved but   *)
(* the one egetkey() leaves so: found, and deleted before rdrec() read it.   *)
AtRest == pc \in {"menu", "out", "over"} => \A k \in Key : holder[k] = "me" => copy.left /\ copy.lock = k

(* A record that lacks a required field is one that is just being added: if  *)
(* the user gives up, whatever way, it goes again.                           *)
Required(row) == \A i \in Items : Form[i].required => row[Form[i].field] # Empty
NoHalf == pc # "over" => \A k \in Key :
  stored[k] # Absent /\ ~Required(stored[k]) => mode = "a" /\ screen > 0 /\ k = rec[KeyField] /\ holder[k] = "me"

(* What yes saves has passed all the checks of the form.                     *)
Checked == [][AnswerYes /\ stored' # stored /\ screen = LastScreen =>
                \A i \in Items : Form[i].op = "accept" => Accepts(Form[i], rec[Form[i].field])]_vars

(* Yes at the last screen stores what the user sees, and nothing else does;  *)
(* a record that was deleted just before it was reserved stays deleted.      *)
SavesAll == [][AnswerYes /\ screen = LastScreen /\ mode \in {"a", "c"} =>
                stored'[rec[KeyField]] = Row \/ (stored[rec[KeyField]] = Absent /\ Same)]_vars
OwnLock == [][Mine => \A k \in Key : stored'[k] # stored[k] => holder[k] = "me"]_vars

(* The question is asked under the record as it is, and the next key with    *)
(* nothing of the last record on the screen.                                 *)
OnScreen(s) == {Form[i].field : i \in {j \in Items : Form[j].screen = s /\ Form[j].op = "accept"}}
Display ==
  /\ pc = "ask" => \A f \in OnScreen(screen) : shown[f] = rec[f]
  /\ pc = "field" /\ At.field = KeyField => \A f \in Data : shown[f] = Empty
=============================================================================
