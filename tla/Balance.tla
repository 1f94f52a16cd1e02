------------------------------ MODULE Balance ------------------------------
(***************************************************************************)
(* The update of a table (Ccl4src/update.c, balanc.c, spread.c, split.c).  *)
(*                                                                         *)
(* _update() changes one leaf in memory and _balance() climbs from it: a   *)
(* node that does not fit a page, or fills less than half of one, is       *)
(* spread over a sibling, merged with it or split, on new pages; its       *)
(* parent, changed in memory, is next.  The climb ends when a node can be  *)
(* written in place of its old page, or the header can name a new root:    *)
(* that one write publishes the new tree.  One process runs it at a time   *)
(* (the lock of emark()); it may die between any two steps.                *)
(*                                                                         *)
(* Abstractions.  Which free page _capture() returns does not matter: it   *)
(* is the lowest here.                                                     *)
(* Pages the header does not reach hold nothing between updates.  The      *)
(* writes of one round of the climb go to pages of no tree, so a round is  *)
(* one step.  upd_lock is a Put of a record that is not there; an update   *)
(* that finds nothing to do is no step.                                    *)
(***************************************************************************)
EXTENDS Node

CONSTANTS
    Key,         \* keys that occur
    RecSize,     \* sizes of records
    KeepRoot,    \* TDFlags & 0x20: an empty root leaf is kept
    RecPlus,     \* Rec_plus_DB
    MaxDepth,    \* levels a tree may have: 6 in the code
    MaxPage      \* pages of the volume: more than the trees below need

ASSUME GeometryAssumption ==
    /\ \A k \in Key : k \in Nat /\ k % Width # 0
    /\ RecSize \subseteq Nat \ {0}
    /\ \A s \in RecSize : LeafBase + LeafOvh + s =< PgSize
    /\ KeepRoot \in BOOLEAN /\ {RecPlus, MaxDepth, MaxPage} \subseteq Nat

VARIABLES
    disk,    \* the pages written, a function from their numbers
    root,    \* the table's header: the page of the root,
    depth,   \* and the number of levels
    pc,      \* what _update() is doing
    op,      \* the key and record size of the update, size 0 to delete
    path,    \* PageList, the pages from the root to the leaf
    level,   \* PagePtr - PageList, the level of the node
    node,    \* the node to write
    list2,   \* PageList2
    made     \* pages captured by this update

header == <<root, depth>>
update == <<op, path, level, node>>
lists  == <<list2, made>>
vars   == <<disk, header, pc, update, lists>>

Page == 1 .. MaxPage
NoOp == [key |-> 0, size |-> 0]
NoNode == [leaf |-> TRUE]

TypeOK ==
    /\ DOMAIN disk \subseteq Page
    /\ root \in Page \cup {0} /\ depth \in 0 .. MaxDepth
    /\ root = 0 <=> depth = 0
    /\ pc \in {"idle", "balance", "whead", "finish"}
    /\ op = NoOp \/ op \in [key : Key, size : RecSize \cup {0}]
    /\ level \in 0 .. MaxDepth /\ ToSet(path) \subseteq Page
    /\ ToSet(list2) \subseteq Page /\ made \subseteq Page

Init ==
    /\ disk = << >>
    /\ root = 0 /\ depth = 0
    /\ pc = "idle"
    /\ op = NoOp /\ path = <<>> /\ level = 0 /\ node = NoNode
    /\ list2 = <<>> /\ made = {}

-----------------------------------------------------------------------------
(* The tree the header names. *)

Levels ==
    LET at[i \in 1 .. depth] ==
          IF i = 1 THEN {root} ELSE UNION {ToSet(disk[n].kids) : n \in at[i - 1]}
    IN  at
Reach == UNION {Levels[i] : i \in 1 .. depth}
Leaves == IF depth = 0 THEN {} ELSE Levels[depth]

(* _getpath(). *)
Getpath(k) ==
    LET at[i \in 1 .. depth] ==
          IF i = 1 THEN root
          ELSE LET above == disk[at[i - 1]] IN above.kids[ChildIndex(above.ents, k) + 1]
    IN  at

-----------------------------------------------------------------------------
(* A round of the climb works on a record w: the disk and the lists, the   *)
(* node, its parent and the index of the node there; w.done is the result  *)
(* of _spread(), w.bad tells that it read a page that is not sane, which   *)
(* ends the process (derror(50) and derror(51)).                           *)

(* _capture(): 0 when no page is free, which ends the process (derror(42)).*)
Unused(taken) == LET free == Page \ taken IN IF free = {} THEN 0 ELSE Min(free)
Capture(w) == Unused(DOMAIN w.disk \cup w.made)

(* Mutant: the node is written over its old page. *)
ReposInPlace(w, i, nd) ==
    [w EXCEPT !.disk = Putnode(@, nd), !.parent = SetKid(@, i, nd.page)]

(* _repos() of a node that is child i of the parent. *)
Repos(w, i, nd) ==
    LET n == Capture(w)
    IN  [w EXCEPT !.disk = Putnode(@, [nd EXCEPT !.page = n]),
                  !.made = @ \cup {n},
                  !.list2 = Append(@, nd.page),
                  !.parent = SetKid(@, i, n)]

(* adopt(): a new separator, and each of the two nodes that fits on a new  *)
(* page.                                                                   *)
Adopt1(w, i, nd) == IF nd.end > PgSize THEN w ELSE Repos(w, i, nd)
Adopt(w, i, p) ==
    [Adopt1(Adopt1([w EXCEPT !.parent = Modpage(@, i, p.entry)], i, p.left), i + 1, p.right)
        EXCEPT !.done = ~(p.left.end > PgSize \/ p.right.end > PgSize)]

(* The node is what adopt() left of it, child i.                           *)
Adopted(w, i, nd) == [w EXCEPT !.node = [nd EXCEPT !.page = Kid(w.parent, i)]]
AdoptLeft(w, i, p)  == Adopted(Adopt(w, i, p), i + 1, p.right)
AdoptRight(w, i, p) == Adopted(Adopt(w, i, p), i, p.left)

(* Mutant: the page of a merged node is forgotten. *)
MergeLeak(w, i, joined) ==
    [Repos([w EXCEPT !.parent = Delpage(@, i)], i, joined) EXCEPT !.done = TRUE]

(* Children i and i + 1 are one node; the page of w.node is free.          *)
Merge(w, i, joined) ==
    [Repos([w EXCEPT !.parent = Delpage(@, i)], i, joined)
        EXCEPT !.list2 = Append(@, w.node.page), !.done = TRUE]

(* Half of _spread(): the node and its left sibling.  Between two index    *)
(* nodes the separator comes down.                                         *)
ReachLeft(nd, sib, e) ==
    IF nd.leaf THEN sib
    ELSE SetKid(Addpage(sib, Count(sib), e), Count(sib) + 1, Kid(nd, 0))
ShareLeft(w, i, r) == IF r.moved = 0 THEN w ELSE AdoptLeft(w, i, Promote(r))

JoinLeft(w, i, sib) ==
    IF w.node.end + sib.end > PgSize
    THEN ShareLeft(w, i, Redistrib(sib, w.node))
    ELSE Merge(w, i, Moveleft(sib, w.node, Count(w.node)).left)
SpreadLeft(w) ==
    LET i == w.idx - 1
    IN  IF ~Chkpage(w.disk[Kid(w.parent, i)]) THEN [w EXCEPT !.bad = TRUE]
        ELSE JoinLeft(w, i,
                      ReachLeft(w.node, Getnode(w.disk, Kid(w.parent, i)), Entry(w.parent, i)))

(* The other half: the node and its right sibling.                         *)
ReachRight(nd, sib, e) ==
    IF nd.leaf THEN sib ELSE SetKid(Addpage(sib, 0, e), 0, Kid(nd, Count(nd)))
ShareRight(w, i, r) == IF r.moved = 0 THEN w ELSE AdoptRight(w, i, Promote(r))
JoinRight(w, i, sib) ==
    IF w.node.end + sib.end > PgSize
    THEN ShareRight(w, i, Redistrib(w.node, sib))
    ELSE Merge(w, i, Moveright(w.node, sib, Count(w.node)).right)
SpreadRight(w) ==
    LET i == w.idx
    IN  IF ~Chkpage(w.disk[Kid(w.parent, i + 1)]) THEN [w EXCEPT !.bad = TRUE]
        ELSE JoinRight(w, i,
                       ReachRight(w.node, Getnode(w.disk, Kid(w.parent, i + 1)),
                                  Entry(w.parent, i)))

ThenRight(w) ==
    IF ~w.done /\ ~w.bad /\ Count(w.parent) # w.idx THEN SpreadRight(w) ELSE w
Spread(w) == ThenRight(IF w.idx > 0 THEN SpreadLeft(w) ELSE w)

(* One round of the loop of _split(): the tail of the node on a new page.  *)
SplitOff(w, p) ==
    [w EXCEPT !.parent = SetKid(Addpage(@, w.idx, p.entry), w.idx + 1, p.right.page),
              !.node = p.left,
              !.disk = Putnode(@, p.right),
              !.made = @ \cup {p.right.page}]
SplitOnce(w) == SplitOff(w, SplitTail(w.node, Freshnode(Capture(w), w.node.leaf)))
SplitAgain(w) == IF w.node.end > PgSize THEN SplitOnce(w) ELSE w
ReposNode(w) == Repos(w, w.idx, w.node)

(* Mutant: one new page at most. *)
SplitInTwo(w) == ReposNode(SplitOnce(w))

(* _split() of a node that does not fit: two new pages at most.            *)
Split(w) == ReposNode(SplitAgain(SplitOnce(w)))

-----------------------------------------------------------------------------
Goto(l) == pc' = l

(* What is left of an update when it is over, done or not. *)
Forget ==
    /\ disk' = [n \in Reach |-> disk[n]]
    /\ op' = NoOp /\ path' = <<>> /\ level' = 0 /\ node' = NoNode
    /\ list2' = <<>> /\ made' = {}
    /\ Goto("idle")
    /\ UNCHANGED header

(* Every page on the way to a key is sane; the process ends at one that is *)
(* not.                                                                    *)
Readable(k) == \A i \in 1 .. depth : Chkpage(disk[Getpath(k)[i]])

(* _update() up to its call of _balance(). *)
Begin(k, nd) ==
    /\ Goto("balance")
    /\ path' = Getpath(k) /\ level' = depth /\ node' = nd
    /\ UNCHANGED <<disk, header, list2>>

Put(k, s) ==
    /\ pc = "idle" /\ Readable(k)
    /\ op' = [key |-> k, size |-> s]
    /\ LET leaf == Getnode(disk, Getpath(k)[depth])
           new  == Freshnode(Unused(DOMAIN disk), TRUE)
       IN  IF depth = 0
           THEN new.page # 0 /\ Begin(k, Addpage(new, 0, op')) /\ made' = {new.page}
           ELSE /\ Begin(k, IF Found(leaf.ents, k)
                            THEN Modpage(leaf, Below(leaf.ents, k), op')
                            ELSE Addpage(leaf, Below(leaf.ents, k), op'))
                /\ UNCHANGED made

Delete(k) ==
    /\ pc = "idle" /\ depth > 0 /\ Readable(k)
    /\ op' = [key |-> k, size |-> 0]
    /\ LET leaf == Getnode(disk, Getpath(k)[depth])
       IN  Found(leaf.ents, k) /\ Begin(k, Delpage(leaf, Below(leaf.ents, k)))
    /\ UNCHANGED made

(* The climb is past the root: the node is a new root, written first and   *)
(* then named by the header. A tree of MaxDepth levels does not grow:        *)
(* derror(15) ends the process, which is Die.                               *)
Grow ==
    /\ pc = "balance" /\ level = 0 /\ depth < MaxDepth
    /\ disk' = Putnode(disk, node)
    /\ Goto("whead")
    /\ UNCHANGED <<header, update, lists>>

Whead ==
    /\ pc = "whead"
    /\ root' = node.page /\ depth' = depth + 1
    /\ Goto("finish")
    /\ UNCHANGED <<disk, update, lists>>

Emptied == level = 1 /\ Count(node) = 0 /\ ~(KeepRoot /\ depth = 1)
WellFilled == node.end =< PgSize /\ (level = 1 \/ node.end >= HalfPage)

(* A root without entries goes; its only child, if any, is the root.       *)
Collapse ==
    /\ pc = "balance" /\ level > 0 /\ Emptied
    /\ list2' = Append(list2, node.page)
    /\ root' = IF node.leaf THEN 0 ELSE Kid(node, 0)
    /\ depth' = depth - 1
    /\ Goto("finish")
    /\ UNCHANGED <<disk, update, made>>

(* Mutant: an index page that keeps its size is not written. *)
InPlaceLeaf ==
    /\ pc = "balance" /\ level > 0 /\ ~Emptied /\ WellFilled
    /\ disk' = IF node.leaf \/ node.end # PageBytes(disk[node.page])
               THEN Putnode(disk, node) ELSE disk
    /\ Goto("finish")
    /\ UNCHANGED <<header, update, lists>>

InPlace ==
    /\ pc = "balance" /\ level > 0 /\ ~Emptied /\ WellFilled
    /\ disk' = Putnode(disk, node)
    /\ Goto("finish")
    /\ UNCHANGED <<header, update, lists>>

Climbing == pc = "balance" /\ level > 0 /\ ~Emptied /\ ~WellFilled

(* The parent is a new root, or is read and searched again. *)
Work ==
    LET fresh  == Freshnode(Unused(DOMAIN disk \cup made), FALSE)
        parent == IF level = 1 THEN fresh ELSE Getnode(disk, path[level - 1])
    IN  [disk |-> disk, list2 |-> list2, node |-> node, parent |-> parent, done |-> FALSE, bad |-> FALSE,
         made |-> IF level = 1 THEN made \cup {fresh.page} ELSE made,
         idx  |-> IF level = 1 THEN 0 ELSE ChildIndex(parent.ents, op.key)]

(* Work after _spread(), which a node much too large is spared.            *)
Spreading == IF node.end > RecPlus THEN Work ELSE Spread(Work)

(* derror(19) otherwise. *)
ParentMatches == level = 1 \/ Kid(Work.parent, Work.idx) = node.page

Up(w) ==
    /\ 0 \notin w.made
    /\ disk' = w.disk /\ list2' = w.list2 /\ made' = w.made
    /\ node' = w.parent /\ level' = level - 1
    /\ UNCHANGED <<header, op, path>>

UpSpread(w) == ~w.bad /\ w.done /\ Up(w)
UpSplit(w)  == ~w.bad /\ ~w.done /\ w.node.end > PgSize /\ Up(Split(w))
UpStay(w) ==
    /\ ~w.bad /\ ~w.done /\ w.node.end =< PgSize
    /\ Up([w EXCEPT !.disk = Putnode(@, w.node)])

ClimbSpread == Climbing /\ ParentMatches /\ UpSpread(Spreading) /\ UNCHANGED pc
ClimbSplit  == Climbing /\ ParentMatches /\ UpSplit(Spreading) /\ UNCHANGED pc

(* No sibling can take part and the node fits: it is written where it is,  *)
(* its parent is not.                                                      *)
ClimbStay == Climbing /\ ParentMatches /\ UpStay(Spreading) /\ Goto("finish")

(* putchange() and ewake(). *)
Finish == pc = "finish" /\ Forget

(* The process dies, killed or by derror(). *)
Die == pc \in {"balance", "whead"} /\ Forget

Next ==
    \/ \E k \in Key : Delete(k) \/ \E s \in RecSize : Put(k, s)
    \/ Grow \/ Whead \/ Collapse \/ InPlace
    \/ ClimbSpread \/ ClimbSplit \/ ClimbStay
    \/ Finish \/ Die

Spec == Init /\ [][Next]_vars

-----------------------------------------------------------------------------
(* Correctness. *)

(* The records of the tree on disk, at any moment, also that of a crash.   *)
Records(k) == {e \in UNION {ToSet(disk[n].ents) : n \in Leaves} : e.key = k}
Content ==
    [k \in Key |-> IF Records(k) = {} THEN 0 ELSE (CHOOSE e \in Records(k) : TRUE).size]

(* Updates are atomic and touch no other record: on disk, each step of the *)
(* climb leaves the records of the table as they are or puts or deletes    *)
(* one, whenever the process dies.                                         *)
Store == INSTANCE KeyStore WITH recs <- Content
StoreSpec == Store!Spec

(* And when _update() reports success the record it was asked for is there *)
(* (balanc.c: "all ok, put changes to DB").                                *)
Committed == pc = "finish" => Content[op.key] = op.size

(* Searchable: a key is in the leaf that _getpath() finds for it or in no  *)
(* leaf, and the entries of each page ascend, as _scanpg() needs.          *)
Searchable ==
    /\ \A n \in Reach : \A i, j \in DOMAIN disk[n].ents :
          i < j => disk[n].ents[i].key < disk[n].ents[j].key
    /\ \A k \in Key : \A n \in Leaves :
          Found(disk[n].ents, k) => n = Getpath(k)[depth]

(* The pages form a tree of equal depth: no page has two parents.          *)
Shape ==
    /\ \A i \in 1 .. depth : \A n \in Levels[i] :
          /\ n \in DOMAIN disk
          /\ disk[n].leaf <=> i = depth
          /\ ~disk[n].leaf => Len(disk[n].kids) = Len(disk[n].ents) + 1
    /\ \A i, j \in 1 .. depth : i # j => Levels[i] \cap Levels[j] = {}
    /\ \A n, m \in Reach : \A a \in DOMAIN disk[n].kids, b \in DOMAIN disk[m].kids :
          disk[n].kids[a] = disk[m].kids[b] => n = m /\ a = b

(* What putnode() writes fits the page, whatever DataEnd says (chkpag.c:   *)
(* "Check that we don't exceed the page boundary").                        *)
WrittenFits == \A n \in DOMAIN disk : PageBytes(disk[n]) =< PgSize

(* The search of the parent leads back to the node: no derror(19).         *)
NoMismatch == Climbing => ParentMatches

(* PageList2 has room for 13 pages.  An update replaces three pages of a   *)
(* level at most, and one page of the level of the root: five levels fit.  *)
List2Fits == Len(list2) =< IF path = <<>> THEN 0 ELSE 3 * (Len(path) - 1) + 1

(* Whatever is reached by the pointers of the index pages is a search tree *)
(* of equal depth; an update finds its way back, and PageList2 holds what  *)
(* it may put there (balanc.c, split.c, spread.c).                         *)
TreeRight == Searchable /\ Shape /\ NoMismatch /\ List2Fits

(* The lists say exactly which pages the update took into the tree and     *)
(* which it took out: the pages of list2 are in no tree when putchange()   *)
(* puts them by, and none is there twice.                                  *)
Accounted ==
    [][pc # "finish" /\ pc' = "finish" =>
          /\ Reach' = (Reach \cup made') \ ToSet(list2')
          /\ ToSet(list2') \subseteq Reach \cup made'
          /\ \A i, j \in DOMAIN list2' : list2'[i] = list2'[j] => i = j]_vars
=============================================================================
