-------------------------------- MODULE Node --------------------------------
(***************************************************************************)
(* The pages and nodes of a table's B-tree, and what Ccl4src/ does to them *)
(* in memory: getnod.c, freshn.c, putnod.c, addpag.c, delpag.c, modpag.c,  *)
(* moveri.c, movele.c, redist.c, promot.c, scanpg.c.                       *)
(*                                                                         *)
(* The records of a table are in the leaves; an index page has one child   *)
(* more than it has separators.  A key is a number, its first characters   *)
(* the quotient by Width: a quotient alone, Width times a number, is a     *)
(* separator that _diffkey() has cut short, and sorts below every key it   *)
(* is a prefix of.  The bytes of a node are counted as the code counts     *)
(* them, in `end' (DataEnd) with the overhead `ovh' (field_16) of an       *)
(* entry; the data itself is left out.                                     *)
(***************************************************************************)
EXTENDS Integers, SequencesExt

CONSTANTS
    Width,       \* see above
    KeySize,     \* TDKeySize, size of an uncut separator
    CutSize,     \* size of a separator cut short
    CutKeys,     \* TRUE when keys vary in length (TDFlags & 0x80)
    PgSize,      \* DBpgsize
    HalfPage,    \* HalfPageSize
    LeafBase,    \* bytes of an empty leaf, and of a record besides its data
    LeafOvh,
    IndexBase,   \* the same for index pages, as getnode() counts them
    IndexOvh,
    FreshOvh     \* and field_16 of an index node freshnode() made

(* A separator fits an index page (tblglo.c, freshn.c, getnod.c).          *)
ASSUME SizesAssumption ==
    /\ {PgSize, HalfPage, LeafBase, LeafOvh, IndexBase, IndexOvh, FreshOvh} \subseteq Nat
    /\ {KeySize, CutSize, Width} \subseteq Nat \ {0} /\ CutKeys \in BOOLEAN
    /\ LeafBase =< PgSize /\ IndexOvh =< FreshOvh
    /\ \A s \in {KeySize, CutSize} : IndexBase + FreshOvh + s =< PgSize

-----------------------------------------------------------------------------
Bytes(ents) ==
    LET upTo[i \in 0 .. Len(ents)] == IF i = 0 THEN 0 ELSE upTo[i - 1] + ents[i].size
    IN  upTo[Len(ents)]

PageBytes(pg) ==
    IF pg.leaf THEN LeafBase + Len(pg.ents) * LeafOvh + Bytes(pg.ents)
    ELSE IndexBase + Len(pg.ents) * IndexOvh + Bytes(pg.ents)

(* _chkpage(): the page ends where it should, and the first offset of a    *)
(* page with entries of varying length is not the filler after the last.   *)
Chkpage(pg) ==
    /\ PageBytes(pg) =< PgSize
    /\ (IF pg.leaf THEN LeafOvh > 0 ELSE CutKeys) => pg.ents # <<>>

(* The node of page n of disk d.                                           *)
Getnode(d, n) ==
    [page |-> n, leaf |-> d[n].leaf, ents |-> d[n].ents, kids |-> d[n].kids,
     end |-> PageBytes(d[n]), ovh |-> IF d[n].leaf THEN LeafOvh ELSE IndexOvh]

Freshnode(n, leaf) ==
    [page |-> n, leaf |-> leaf, ents |-> <<>>, kids |-> IF leaf THEN <<>> ELSE <<0>>,
     end |-> IF leaf THEN LeafBase ELSE IndexBase,
     ovh |-> IF leaf THEN LeafOvh ELSE FreshOvh]

(* Disk d with the page of a node written.                                 *)
Image(nd) == [leaf |-> nd.leaf, ents |-> nd.ents, kids |-> nd.kids]
Putnode(d, nd) ==
    [n \in DOMAIN d \cup {nd.page} |-> IF n = nd.page THEN Image(nd) ELSE d[n]]

(* _scanpg() for key k: how many entries are below it and whether the next *)
(* one is equal; the child to follow then is the one after.                *)
Below(ents, k) == Cardinality({i \in DOMAIN ents : ents[i].key < k})
Found(ents, k) == \E i \in DOMAIN ents : ents[i].key = k
ChildIndex(ents, k) == Below(ents, k) + IF Found(ents, k) THEN 1 ELSE 0

-----------------------------------------------------------------------------
(* Entries and children are numbered from 0, as in the code.               *)

Count(nd) == Len(nd.ents)
Entry(nd, i) == nd.ents[i + 1]
Kid(nd, i) == nd.kids[i + 1]
SetKid(nd, i, n) == [nd EXCEPT !.kids[i + 1] = n]

Addpage(nd, i, e) ==
    [nd EXCEPT !.ents = InsertAt(@, i + 1, e),
               !.kids = IF nd.leaf THEN @ ELSE InsertAt(@, i + 2, @[i + 1]),
               !.end = @ + e.size + nd.ovh]

Delpage(nd, i) ==
    [nd EXCEPT !.ents = RemoveAt(@, i + 1),
               !.kids = IF nd.leaf THEN @ ELSE RemoveAt(@, i + 2),
               !.end = @ - (nd.ovh + Entry(nd, i).size)]

Modpage(nd, i, e) ==
    [nd EXCEPT !.ents[i + 1] = e, !.end = @ + (e.size - Entry(nd, i).size)]

(* The last n entries of left move to the front of right, or the first n   *)
(* of right to the end of left.  Index nodes have the child between them   *)
(* in common.  Both count the bytes with the overhead of the destination.  *)
Moveright(left, right, n) ==
    LET keep  == Count(left) - n
        moved == SubSeq(left.ents, keep + 1, Count(left))
        bytes == Bytes(moved) + n * right.ovh
    IN  [left  |-> [left EXCEPT
                      !.ents = SubSeq(@, 1, keep),
                      !.kids = IF left.leaf \/ n = 0 THEN @ ELSE SubSeq(@, 1, keep + 1),
                      !.end = @ - bytes],
         right |-> [right EXCEPT
                      !.ents = moved \o @,
                      !.kids = IF left.leaf \/ n = 0 THEN @
                               ELSE SubSeq(left.kids, keep + 1, Count(left) + 1) \o Tail(@),
                      !.end = @ + bytes],
         moved |-> n]

Moveleft(left, right, n) ==
    LET moved == SubSeq(right.ents, 1, n)
        bytes == Bytes(moved) + n * left.ovh
    IN  [left  |-> [left EXCEPT
                      !.ents = @ \o moved,
                      !.kids = IF left.leaf THEN @ ELSE @ \o SubSeq(right.kids, 2, n + 1),
                      !.end = @ + bytes],
         right |-> [right EXCEPT
                      !.ents = SubSeq(@, n + 1, Count(right)),
                      !.kids = IF left.leaf THEN @ ELSE SubSeq(@, n + 1, Count(right) + 1),
                      !.end = @ - bytes],
         moved |-> n]

(* How often a loop that tests Ok(j) after j rounds goes round, at most n. *)
Rounds(n, Ok(_)) == Max({k \in 0 .. n : \A j \in 0 .. k - 1 : Ok(j)})

(* An entry of size s goes from one node to the other when it fits there   *)
(* and the node it leaves stays the larger one.  From a node without       *)
(* entries nothing goes: the size the code reads beside its entries is not *)
(* negative, and that ends the loop.                                       *)
Evens(from, to, s) ==
    /\ to.end + (from.ovh + s) =< PgSize
    /\ from.end - (from.ovh + s) >= to.end + (from.ovh + s)

(* _redistrib(): to the right, then to the left.  A pair m of nodes tells  *)
(* how many entries went right.                                            *)
EvensRight(m) == Evens(m.left, m.right, Last(m.left.ents).size)
EvensLeft(m)  == Evens(m.right, m.left, Head(m.right.ents).size)

RedistribRight(left, right) ==
    LET Ok(j) == EvensRight(Moveright(left, right, j))
    IN  Moveright(left, right, Rounds(Count(left), Ok))
RedistribLeft(m) ==
    LET Ok(j) == EvensLeft(Moveleft(m.left, m.right, j))
    IN  [Moveleft(m.left, m.right, Rounds(Count(m.right), Ok)) EXCEPT !.moved = m.moved - @]
Redistrib(left, right) == RedistribLeft(RedistribRight(left, right))

(* Mutant: the separator is the last key of the left page. *)
DiffkeyLast(a, b) == [key |-> a, size |-> KeySize]

(* _diffkey(): what of key b tells it from the smaller key a.              *)
Diffkey(a, b) ==
    IF CutKeys /\ a \div Width # b \div Width
    THEN [key |-> b - (b % Width), size |-> CutSize]
    ELSE [key |-> b, size |-> KeySize]

(* _promote(): the separator of the neighbours m.left and m.right.  An     *)
(* index node gives its last entry up for it.                              *)
Promote(m) ==
    IF m.left.leaf
    THEN [left |-> m.left, right |-> m.right,
          entry |-> Diffkey(Last(m.left.ents).key, Head(m.right.ents).key)]
    ELSE [left |-> Delpage(m.left, Count(m.left) - 1), right |-> m.right,
          entry |-> Last(m.left.ents)]

(* A round of _split(): as much of the end of a node as fits the new page  *)
(* goes there, until that is half full and the rest fits too.              *)
Splits(m) ==
    /\ Last(m.left.ents).size + m.right.end + m.right.ovh =< PgSize
    /\ m.moved > 0 => m.right.end < HalfPage \/ m.left.end > PgSize
SplitTail(nd, new) ==
    LET Ok(j) == Splits(Moveright(nd, new, j))
    IN  Promote(Moveright(nd, new, Rounds(Count(nd), Ok)))
=============================================================================
