------------------------------- MODULE Cursor -------------------------------
(* The cursor of an open table: _restrict(), _nxtr() and _prevr(), called by *)
(* rdnxt() and rdprev() for one record at a time, while other programs put    *)
(* and delete records and the tree changes its shape. The cursor copies one   *)
(* leaf and goes on, in whatever tree there is by then, from the separator    *)
(* it met on the way down. A published tree is not written again (module     *)
(* PageSpace), so one way down reads one tree.                                *)
EXTENDS Integers, Sequences, FiniteSets, SequencesExt

CONSTANTS Key,        \* keys of two fields: pairs of numbers
          Where,      \* expressions of where, each with its parts
          NoExpr,     \* a select without where
          MaxLevel,   \* bound: levels of index pages of a tree
          Updates     \* bound: records other programs put or delete

ASSUME Constants == /\ Key \subseteq (Nat \ {0}) \X Nat /\ Key # {} /\ IsFiniteSet(Key)
                    /\ NoExpr \in Where /\ IsFiniteSet(Where)
                    /\ {MaxLevel, Updates} \subseteq Nat

(* The expressions of where are trees, below NoExpr, comparisons [join |->     *)
(* "cmp", field, op, value] with op a set of "<", "=", ">", and joins [join    *)
(* |-> "and" or "or", one, other].                                           *)
Comparison(e) == /\ e.join = "cmp" /\ e.field \in 1..2
                 /\ e.op \subseteq {"<", "=", ">"} /\ e.value \in Int
Join(e, height) == /\ e.join \in {"and", "or"} /\ {e.one, e.other} \subseteq Where
                   /\ height[e.one] < height[e] /\ height[e.other] < height[e]
ASSUME Expressions ==
  \E height \in [Where -> 0..Cardinality(Where)] :
    \A e \in Where \ {NoExpr} : Comparison(e) \/ Join(e, height)

VARIABLES tree,   \* what the other programs have published
          td,     \* TDinfo: the leaf and the place in it, key buffers, flags
          expr,   \* the where of the select
          call,   \* the call that runs: its direction, its lock, how far it is
          answer, \* the key of the record in the work area, None when there is none
          mine,   \* the key this program has a lock on, None when on none
          left,   \* updates that are still to come
          pos,    \* history: where the cursor is: a key, Fresh or Lost
          steady  \* history: keys that were there ever since the select

vars == <<tree, td, expr, call, answer, mine, left, pos, steady>>

(***************************************************************************)
(* Keys. A bound or a separator may have fewer fields than a record.        *)
(***************************************************************************)
None == <<>>
Short == {<<k[1]>> : k \in Key} \cup Key
Bounds == {s \in Seq(Int) : Len(s) =< 2}

(* The order of keys: field by field; what is cut off comes first. *)
Before(x, y) ==
  \/ IsStrictPrefix(x, y)
  \/ \E i \in 1..Len(x) : /\ i <= Len(y) /\ x[i] < y[i]
                          /\ \A j \in 1..(i - 1) : x[j] = y[j]

(* _scanpg() finds the first entry that does not pass: without the bit 2 of   *)
(* ArgType one not below the search key, with it one above it. _cmp() takes   *)
(* an entry that goes on where the search key ends for equal.                *)
Passes(entry, key, mode) ==
  Before(entry, key) \/ (mode = 2 /\ IsPrefix(key, entry))

Least(S) == CHOOSE x \in S : \A y \in S : ~Before(y, x)
Greatest(S) == CHOOSE x \in S : \A y \in S : ~Before(x, y)

(***************************************************************************)
(* Trees other programs may publish: separators part their children         *)
(* (Balance!Searchable). level[s] is the level of the page s is on.          *)
(***************************************************************************)
Within(x, lo, hi) == ~Before(x, lo) /\ (hi = None \/ Before(x, hi))
LeafKeys(t, lo, hi) == {k \in t.keys : Within(k, lo, hi)}

Seps(t) == DOMAIN t.level
Parted(t) ==
  \A lo \in Seps(t) \cup {None} : \E hi \in Seps(t) \cup {None} :
    /\ hi = None \/ Before(lo, hi)
    /\ ~\E s \in Seps(t) : Before(lo, s) /\ (hi = None \/ Before(s, hi))
    /\ LeafKeys(t, lo, hi) # {}

Empty == [keys |-> {}, level |-> <<>>]
Shapes == UNION {[S -> 1..MaxLevel] : S \in SUBSET Short}
Trees == {Empty} \cup {t \in {[keys |-> ks, level |-> f] : ks \in (SUBSET Key) \ {{}}, f \in Shapes} : Parted(t)}
TreesOf(ks) == {t \in Trees : t.keys = ks}

(***************************************************************************)
(* What the where says of a key, and the bounds it puts on it.              *)
(***************************************************************************)
AtLeast == {">", "="}
AtMost == {"<", "="}

Sign(x, y) == IF x < y THEN "<" ELSE IF x = y THEN "=" ELSE ">"

Match(k) ==
  LET m[e \in Where] ==
        \/ e = NoExpr
        \/ e.join = "or" /\ (m[e.one] \/ m[e.other])
        \/ e.join = "and" /\ m[e.one] /\ m[e.other]
        \/ e.join = "cmp" /\ Sign(k[e.field], e.value) \in e.op
  IN  m

(* Mutant of Bound: a side of an "or" without a bound counts for nothing.     *)
BoundOr(op, f) ==
  LET b[e \in Where] ==
        IF e = NoExpr THEN None ELSE
        CASE e.join \in {"or", "and"} -> IF b[e.one] # None THEN b[e.one] ELSE b[e.other]
          [] OTHER -> IF e.field = f /\ e.op \subseteq op THEN <<e.value>> ELSE None
  IN  b

(* _bound(): the bound an expression puts on a field, None or <<value>>.     *)
Weaker(op, x, y) == IF (x[1] <= y[1]) = (op = AtLeast) THEN x ELSE y
Bound(op, f) ==
  LET b[e \in Where] ==
        IF e = NoExpr THEN None ELSE
        CASE e.join = "or" -> IF None \in {b[e.one], b[e.other]} THEN None
                              ELSE Weaker(op, b[e.one], b[e.other])
          [] e.join = "and" -> IF b[e.one] # None THEN b[e.one] ELSE b[e.other]
          [] OTHER -> IF e.field = f /\ e.op \subseteq op THEN <<e.value>> ELSE None
  IN  b

(* xkey(): the key made of the bounds of the leading fields that have one.   *)
Xkey(e, op) ==
  IF Bound(op, 1)[e] = None THEN None ELSE Bound(op, 1)[e] \o Bound(op, 2)[e]

(* _beyond(): no key from k on can match.                                    *)
Beyond(e, op, k) ==
  \E f \in 1..2 : /\ Bound(op, f)[e] # None
                  /\ Sign(k[f], Bound(op, f)[e][1]) \notin op
                  /\ \A g \in 1..(f - 1) : Bound(op, g)[e] = <<k[g]>>

(***************************************************************************)
(* The two directions mirror each other: KeyBuf1 and field_3A serve "next",  *)
(* KeyBuf2 and field_42 serve "prev".                                         *)
(***************************************************************************)
Dirs == {"next", "prev"}
Other(d) == IF d = "next" THEN "prev" ELSE "next"
Limit(d) == IF d = "next" THEN AtMost ELSE AtLeast
TurnedOn(d) == 1                          \* mutant of Turned: the same record again
Turned(d) == IF d = "next" THEN 1 ELSE 2  \* the mode a record leaves the other way

(* findnxt() and findprev(): the range of the leaf they come to, and the     *)
(* separator it ends with in direction d. They begin with the buffer empty.  *)
(* At a separator equal to the key findnxt() goes right, findprev() left.     *)
Window == [lo : Short \cup {None}, hi : Short \cup {None}]
OnPage(t, l, w) == {s \in Seps(t) : t.level[s] = l /\ Before(w.lo, s)
                                     /\ (w.hi = None \/ Before(s, w.hi))}
Passed(t, key, mode, right, l, w) ==
  {s \in OnPage(t, l, w) : Passes(s, key, mode) \/ (right /\ s = key)}
Child(page, passed, w) ==
  [lo |-> IF passed # {} THEN Greatest(passed) ELSE w.lo,
   hi |-> IF page # passed THEN Least(page \ passed) ELSE w.hi]
Way(t, key, mode, right) ==
  LET down[l \in 0..MaxLevel] ==
        [w \in Window |->
           IF l = 0 THEN w
           ELSE down[l - 1][Child(OnPage(t, l, w), Passed(t, key, mode, right, l, w), w)]]
  IN  down[MaxLevel][[lo |-> None, hi |-> None]]

DescentLeft(t, d, key, mode) == Way(t, key, mode, FALSE)  \* mutant of Descent: never right

Descent(t, d, key, mode) == Way(t, key, mode, d = "next" /\ mode = 1)

Fresh == <<0>>
Lost == <<0, 0>>     \* relseq() has thrown the place away
Garbage == <<0, 0, 0>>  \* what is in a key buffer nobody has filled: no key
Idle == [dir |-> "next", lock |-> "no", at |-> "idle"]

-----------------------------------------------------------------------------
NewTd(e) ==
  [loaded |-> FALSE, node |-> [d \in Dirs |-> {}],
   key |-> [d \in Dirs |-> Xkey(e, IF d = "next" THEN AtLeast ELSE AtMost)],
   mode |-> [d \in Dirs |-> IF d = "next" THEN 1 ELSE 2],
   ended |-> FALSE, back |-> FALSE]

Init ==
  /\ tree \in Trees
  /\ expr \in Where /\ td = NewTd(expr)
  /\ call = Idle /\ answer = None /\ mine = None
  /\ left = Updates
  /\ pos = Fresh /\ steady = tree.keys

(* Another program puts or deletes a record it could lock, and leaves a tree *)
(* of any shape.                                                             *)
Update(k) ==
  /\ left > 0 /\ k # mine
  /\ \E ks \in {tree.keys \cup {k}, tree.keys \ {k}} : ks # tree.keys /\ tree' \in TreesOf(ks)
  /\ left' = left - 1
  /\ steady' = steady \cap tree'.keys
  /\ UNCHANGED <<td, expr, call, answer, mine, pos>>

(* cdbrestrict(): a new select.                                              *)
Cdbrestrict ==
  /\ call = Idle
  /\ expr' \in Where /\ td' = NewTd(expr')
  /\ pos' = Fresh /\ steady' = tree.keys
  /\ UNCHANGED <<tree, call, answer, mine, left>>

(* rdnxt() and rdprev() unlock the record they had and call _nxtr() or       *)
(* _prevr(). Both turn the cursor; only "prev" has to have come to its end    *)
(* backwards to give up.                                                     *)
Relnode(t) == [t EXCEPT !.loaded = FALSE, !.node = [d \in Dirs |-> {}]]
Begin(t, d) == [t EXCEPT !.key[Other(d)] = None]
GivesUp(d) == td.ended /\ td.back = (d = "prev")
Start(d, lock) ==
  /\ call = Idle
  /\ mine' = None
  /\ IF GivesUp(d)
     THEN /\ answer' = None
          /\ UNCHANGED <<td, call>>
     ELSE /\ td' = Begin(IF td.back = (d = "prev") THEN td
                         ELSE [Relnode(td) EXCEPT !.back = (d = "prev")], d)
          /\ call' = [dir |-> d, lock |-> lock, at |-> "step"]
          /\ UNCHANGED answer
  /\ UNCHANGED <<tree, expr, left, pos, steady>>

-----------------------------------------------------------------------------
(* _stepfwd() and _stepbak(): the node still has an entry in direction d.     *)
(* td.node[d] has the entries on that side of N1_2idx.                        *)
HasEntry(d) == td.node[d] # {}
Entry(d) == IF d = "next" THEN Least(td.node[d]) ELSE Greatest(td.node[d])

(* The call has no record: relseq() frees the node and the key buffers.      *)
Nothing ==
  /\ td' = [Relnode(td) EXCEPT !.ended = TRUE,
                               !.key = [d \in Dirs |-> IF @[d] = None THEN None ELSE Garbage]]
  /\ call' = Idle /\ answer' = None /\ pos' = Lost
  /\ UNCHANGED <<tree, expr, mine, left, steady>>

Load ==
  /\ call.at = "step" /\ ~HasEntry(call.dir)
  /\ ~(td.loaded /\ td.key[call.dir] = None) /\ tree # Empty
  /\ \E d \in {call.dir}, way \in {Descent(tree, call.dir, td.key[call.dir], td.mode[call.dir])} :
       LET leaf == LeafKeys(tree, way.lo, way.hi)
           passed == {k \in leaf : Passes(k, td.key[d], td.mode[d])}
       IN  td' = [td EXCEPT !.loaded = TRUE, !.node = [prev |-> passed, next |-> leaf \ passed],
                            !.key[d] = IF d = "next" THEN way.hi ELSE way.lo, !.mode[d] = 1]
  /\ UNCHANGED <<tree, expr, call, answer, mine, left, pos, steady>>

NoMore ==
  /\ call.at = "step" /\ ~HasEntry(call.dir)
  /\ (td.loaded /\ td.key[call.dir] = None) \/ tree = Empty
  /\ Nothing

(* One entry of the leaf: it matches and is copied to the work area, or it    *)
(* is past the bounds of the where, or it is skipped.                        *)
Stepped(d) ==
  [td EXCEPT !.node[d] = @ \ {Entry(d)}, !.node[Other(d)] = @ \cup {Entry(d)}]
Take ==
  LET d == call.dir IN
  /\ call.at = "step" /\ HasEntry(d) /\ Match(Entry(d))[expr]
  /\ td' = [Stepped(d) EXCEPT !.key[Other(d)] = Entry(d), !.mode[Other(d)] = Turned(d)]
  /\ pos' = Entry(d) /\ answer' = Entry(d)
  /\ call' = IF call.lock = "no" THEN Idle ELSE [call EXCEPT !.at = "lock"]
  /\ UNCHANGED <<tree, expr, mine, left, steady>>

PastBounds ==
  /\ call.at = "step" /\ HasEntry(call.dir) /\ ~Match(Entry(call.dir))[expr]
  /\ Beyond(expr, Limit(call.dir), Entry(call.dir))
  /\ Nothing

Skip ==
  /\ call.at = "step" /\ HasEntry(call.dir) /\ ~Match(Entry(call.dir))[expr]
  /\ ~Beyond(expr, Limit(call.dir), Entry(call.dir))
  /\ td' = Stepped(call.dir)
  /\ UNCHANGED <<tree, expr, call, answer, mine, left, pos, steady>>

(* lgetr() of the record just read, in a tree that may be another by now: it  *)
(* is locked and read again, or it has gone and the search goes on. "lock"    *)
(* waits for another program that has the lock, "lockr" takes the copy.      *)
GetrTrusted(k) == TRUE  \* mutant of Getr: the copy is taken for the record
Getr(k) ==
  LET way == Descent(tree, "next", k, 1) IN k \in LeafKeys(tree, way.lo, way.hi)
Lock ==
  /\ call.at = "lock"
  /\ IF Getr(answer)
     THEN mine' = answer /\ call' = Idle /\ UNCHANGED <<td, answer>>
     ELSE /\ td' = Begin(td, call.dir)
          /\ call' = [call EXCEPT !.at = "step"]
          /\ UNCHANGED <<mine, answer>>
  /\ UNCHANGED <<tree, expr, left, pos, steady>>

LockedElsewhere ==
  /\ call.at = "lock" /\ call.lock = "lockr"
  /\ call' = Idle
  /\ UNCHANGED <<tree, td, expr, answer, mine, left, pos, steady>>

-----------------------------------------------------------------------------
Step == Load \/ NoMore \/ Take \/ PastBounds \/ Skip \/ Lock
Next == \/ \E k \in Key : Update(k)
        \/ Cdbrestrict
        \/ \E d \in Dirs, lock \in {"no", "lock", "lockr"} : Start(d, lock)
        \/ Step \/ LockedElsewhere

(* A call that runs goes on, and the locks of other programs are released.   *)
Spec == Init /\ [][Next]_vars /\ WF_vars(Step)

-----------------------------------------------------------------------------
TypeOK ==
  /\ tree = Empty \/ Parted(tree)
  /\ Seps(tree) \subseteq Short /\ tree.keys \subseteq Key
  /\ td \in [loaded : BOOLEAN, node : [Dirs -> SUBSET Key], key : [Dirs -> Bounds \cup {Garbage}],
             mode : [Dirs -> 1..2], ended : BOOLEAN, back : BOOLEAN]
  /\ expr \in Where /\ answer \in Key \cup {None} /\ mine \in Key \cup {None}
  /\ call \in [dir : Dirs, lock : {"no", "lock", "lockr"}, at : {"idle", "step", "lock"}]
  /\ left \in 0..Updates /\ pos \in Key \cup {Fresh, Lost}
  /\ steady \subseteq tree.keys

(* relseq() frees the key buffers and leaves their sizes alone, newseq()      *)
(* allocates them again: no key is looked for that was never written there.   *)
BuffersFilled == call.at = "step" => td.key[call.dir] # Garbage

(* What rdnxt() and rdprev() give matches the where, and one they give locked *)
(* is in the table now, although it was copied from the leaf before the lock  *)
(* was asked for (the lgetr() of rdnxt.c, "very difficult to get here").      *)
GivesRecords ==
  /\ answer = pos => Match(answer)[expr]
  /\ mine # None => mine = answer /\ mine \in tree.keys

(* What a call of next or previous relies on, and what it gives (stepfw.c,     *)
(* stepba.c, rdnxt.c).                                                        *)
GivenRight == BuffersFilled /\ GivesRecords

(* The key is past p in direction d.                                         *)
Past(d, k, p) ==
  \/ p = Fresh
  \/ p # Lost /\ IF d = "next" THEN Before(p, k) ELSE Before(k, p)

(* The cursor moves: records come in the order of their keys and none comes  *)
(* twice, however the tree was split, joined or emptied meanwhile and also   *)
(* when the program turns round, as long as its place is not lost.            *)
Orderly == [][Take /\ pos # Lost => Past(call.dir, pos', pos)]_vars

(* Between one record and the next, and between the last one and the end,    *)
(* there was none that matches and was there all the time: neither the        *)
(* bounds of the where nor the change of the tree hides a record.             *)
NoneMissed ==
  [][call.at = "step" /\ pos' # pos =>
       \A k \in steady : Match(k)[expr] /\ Past(call.dir, k, pos)
                         => k = pos' \/ Past(call.dir, k, pos')]_vars

(* Every call ends: the loop of _stepfwd() and _stepbak() goes from leaf to   *)
(* leaf and does not come to the same one again.                              *)
CallsEnd == call.at # "idle" ~> call.at = "idle"
=============================================================================
