---------------------------- MODULE BalanceProofs ----------------------------
(***************************************************************************)
(* What TLAPS proves of the update of a table, for every size of pages,    *)
(* keys and records and every depth of the tree.                           *)
(*                                                                         *)
(* The inductive invariant: there are labels of the pages on disk, each    *)
(* right for its page, such that the tree of the header is one of equal    *)
(* depth, and while an update climbs, the node it carries is right for the *)
(* label of the page it replaces with the request done.  A round of the    *)
(* climb adds pages and labels and changes none, so the tree on disk stays *)
(* what it was; the one write that ends the climb changes the labels from  *)
(* there to the root.                                                      *)
(***************************************************************************)
EXTENDS Balance, NodeProofs

-----------------------------------------------------------------------------
(* _capture(): a page of the volume that is not taken. *)
LEMMA UnusedIs ==
    ASSUME NEW taken, Unused(taken) # 0
    PROVE  Unused(taken) \in Page /\ Unused(taken) \notin taken /\ Unused(taken) \in Nat \ {0}
<1> DEFINE free == Page \ taken
<1>1. free # {} /\ Unused(taken) = Min(free)
  BY DEF Unused
<1>2. free \subseteq Nat \ {0} /\ free \in SUBSET Nat
  BY GeometryAssumption DEF Page
<1>3. \E n \in free : \A m \in free : n =< m
  BY <1>1, <1>2, LeastNumber
<1>4. Min(free) \in free
  BY <1>3 DEF Min
<1> QED  BY <1>1, <1>2, <1>4

(* The record a round works on. *)
Fields(w) == DOMAIN w = {"disk", "list2", "node", "parent", "done", "bad", "made", "idx"}

(* Pages in the domain of z are right for their labels, and so is the      *)
(* parent for label v but for the children of S.                           *)
Going(w, z, M, v, S) ==
    Fields(w) /\ Trees(w.disk, z) /\ Par(z, w.parent, M, v, S)

(* From w to x pages were added only, captured for it; they are children   *)
(* of the parent.                                                          *)
Later(w, z, x, y, h) ==
    /\ Extends(z, y) /\ Extends(w.disk, x.disk)
    /\ w.made \subseteq x.made /\ x.made \subseteq w.made \cup Page
    /\ \A n \in DOMAIN x.disk : n \in DOMAIN w.disk \/ n \in Page \ w.made
    /\ \A n \in DOMAIN y : n \in DOMAIN z \/ y[n].h = h
    /\ x.parent.page = w.parent.page /\ x.parent.ovh = w.parent.ovh
    /\ x.idx = w.idx /\ x.bad = w.bad

LEMMA LaterThen ==
    ASSUME NEW w, NEW z, NEW x, NEW y, NEW h, Later(w, z, x, y, h),
           NEW w2, NEW z2, Later(x, y, w2, z2, h)
    PROVE  Later(w, z, w2, z2, h)
<1>1. Extends(z, z2) /\ Extends(w.disk, w2.disk)
  BY DEF Later, Extends
<1>2. w.made \subseteq w2.made /\ w2.made \subseteq w.made \cup Page
  BY DEF Later
<1>3. \A n \in DOMAIN w2.disk : n \in DOMAIN w.disk \/ n \in Page \ w.made
  BY DEF Later
<1>4. \A n \in DOMAIN z2 : n \in DOMAIN z \/ z2[n].h = h
  BY DEF Later, Extends
<1> QED  BY <1>1, <1>2, <1>3, <1>4 DEF Later

Reposed(x, w, i, nd) ==
    /\ Fields(x) /\ x.disk = Putnode(w.disk, [nd EXCEPT !.page = Capture(w)])
    /\ x.made = w.made \cup {Capture(w)} /\ x.parent = SetKid(w.parent, i, Capture(w))
    /\ x.node = w.node /\ x.done = w.done /\ x.bad = w.bad /\ x.idx = w.idx
    /\ x.list2 = Append(w.list2, nd.page)
LEMMA ReposIs ==
    ASSUME NEW w, Fields(w), NEW i, NEW nd
    PROVE  Reposed(Repos(w, i, nd), w, i, nd)
BY DEF Repos, Fields, Reposed

(* _repos(): a node takes its place. *)
Placed(x, w, i) ==
    x.node = w.node /\ x.done = w.done /\ ButFor(x.parent, w.parent, i)
LEMMA ReposGood ==
    ASSUME NEW w, NEW z, NEW M, NEW v, NEW S, Going(w, z, M, v, S),
           NEW i \in 0 .. Len(w.parent.ents),
           NEW nd \in NodeType, Sound(z, nd, M[i + 1]),
           NEW x, x = Repos(w, i, nd), 0 \notin x.made
    PROVE  /\ Placed(x, w, i)
           /\ \E y : Going(x, y, M, v, S \ {i + 1}) /\ Later(w, z, x, y, v.h - 1)
<1>1. Fields(w) /\ Trees(w.disk, z) /\ Par(z, w.parent, M, v, S)
  BY DEF Going
<1>2. PICK n, m, u, q, d : n = Capture(w) /\ m = [nd EXCEPT !.page = n] /\ u = M[i + 1]
                           /\ q = w.parent /\ d = w.disk
  OBVIOUS
<1>3. PICK y, pa : y = Add(z, n, u) /\ pa = SetKid(q, i, n)
  OBVIOUS
<1>4. /\ Fields(x) /\ x.disk = Putnode(d, m) /\ x.made = w.made \cup {n}
      /\ x.parent = pa /\ x.node = w.node /\ x.done = w.done /\ x.bad = w.bad /\ x.idx = w.idx
  <2>1. Reposed(x, w, i, nd)
    BY <1>1, ReposIs
  <2> QED  BY <2>1, <1>2, <1>3 DEF Reposed
<1>5. n \in Page /\ n \notin DOMAIN d /\ n \notin w.made /\ n \in Nat
  <2>1. Unused(DOMAIN w.disk \cup w.made) # 0 /\ n = Unused(DOMAIN w.disk \cup w.made)
    BY <1>2, <1>4 DEF Capture
  <2>2. n \in Page /\ n \notin DOMAIN w.disk \cup w.made /\ n \in Nat \ {0}
    BY ONLY <2>1, UnusedIs
  <2> QED  BY <2>2, <1>2
<1>6. n \notin DOMAIN z
  BY <1>1, <1>2, <1>5 DEF Trees
<1>7. m.page = n /\ m.leaf = nd.leaf /\ m.ents = nd.ents /\ m.kids = nd.kids
  BY <1>2 DEF NodeType
<1>8. Sound(z, m, u)
  <2>1. Extends(z, z) /\ Sound(z, nd, u)
    BY <1>2 DEF Extends
  <2> QED  BY ONLY <1>7, <2>1, SoundMore
<1>9. Trees(Putnode(d, m), y) /\ Extends(z, y) /\ DOMAIN y = DOMAIN z \cup {n} /\ y[n] = u
  <2>1. m.page \notin DOMAIN z /\ Trees(d, z) /\ Sound(z, m, u)
    BY <1>1, <1>2, <1>6, <1>7, <1>8
  <2>2. /\ Trees(Putnode(d, m), Add(z, m.page, u)) /\ Extends(z, Add(z, m.page, u))
        /\ DOMAIN Add(z, m.page, u) = DOMAIN z \cup {m.page} /\ Add(z, m.page, u)[m.page] = u
    <3>1. Trees(Putnode(d, m), Add(z, m.page, u)) /\ Extends(z, Add(z, m.page, u))
      BY ONLY <2>1, AddGood
    <3> QED  BY <3>1 DEF Add
  <2> QED  BY <2>2, <1>3, <1>7
<1>10. Par(y, q, M, v, S)
  <2>1. Par(z, q, M, v, S) /\ Extends(z, y) /\ S \subseteq S
    BY <1>1, <1>2, <1>9
  <2> QED  BY ONLY <2>1, ParMore
<1>11. /\ Par(y, pa, M, v, S \ {i + 1}) /\ Same(pa, q)
       /\ ButFor(pa, q, i)
  <2>1. /\ n \in Int /\ n \in DOMAIN y /\ y[n] = M[i + 1] /\ Par(y, q, M, v, S)
        /\ i \in 0 .. Len(q.ents)
    BY <1>2, <1>5, <1>9, <1>10
  <2>2. /\ Par(y, SetKid(q, i, n), M, v, S \ {i + 1}) /\ Same(SetKid(q, i, n), q)
        /\ ButFor(SetKid(q, i, n), q, i)
    BY ONLY <2>1, ParPlace
  <2> QED  BY <2>2, <1>3
<1>12. Going(x, y, M, v, S \ {i + 1})
  BY <1>4, <1>9, <1>11 DEF Going
<1>13. u.h = v.h - 1
  <2>1. \A j \in 1 .. Len(q.ents) + 1 : M[j].h = v.h - 1
    BY <1>1, <1>2, ParIs
  <2>2. Len(q.ents) \in Nat
    BY <1>1, <1>2, ParIs
  <2>3. i + 1 \in 1 .. Len(q.ents) + 1
    BY <1>2, <2>2
  <2> QED  BY <2>1, <2>3, <1>2
<1>14. /\ DOMAIN Putnode(d, m) = DOMAIN d \cup {n} /\ Extends(d, Putnode(d, m))
  BY <1>5, <1>7 DEF Putnode, Extends
<1>15. Later(w, z, x, y, v.h - 1)
  BY <1>2, <1>4, <1>5, <1>9, <1>11, <1>13, <1>14 DEF Later, Same
<1>16. Placed(x, w, i)
  BY <1>2, <1>4, <1>11 DEF Placed
<1> QED  BY <1>12, <1>15, <1>16

LEMMA LaterSame ==
    ASSUME NEW w, NEW z, NEW x, NEW h, x.disk = w.disk, x.made = w.made, x.idx = w.idx, x.bad = w.bad,
           x.parent.page = w.parent.page, x.parent.ovh = w.parent.ovh
    PROVE  Later(w, z, x, z, h)
BY DEF Later, Extends

LEMMA Adopt1Good ==
    ASSUME NEW w, NEW z, NEW M, NEW v, NEW S, Going(w, z, M, v, S),
           NEW i \in 0 .. Len(w.parent.ents), NEW nd \in NodeType, Sound(z, nd, M[i + 1]),
           NEW x, x = Adopt1(w, i, nd), 0 \notin x.made,
           NEW T, T = IF nd.end > PgSize THEN S ELSE S \ {i + 1}
    PROVE  /\ Placed(x, w, i)
           /\ \E y : Going(x, y, M, v, T) /\ Later(w, z, x, y, v.h - 1)
<1>1. CASE nd.end > PgSize
  <2>1. x = w /\ T = S
    BY <1>1 DEF Adopt1
  <2>2. Later(w, z, x, z, v.h - 1)
    BY <2>1, LaterSame
  <2> QED  BY <2>1, <2>2 DEF Placed, ButFor
<1>2. CASE ~(nd.end > PgSize)
  <2>1. x = Repos(w, i, nd) /\ T = S \ {i + 1}
    BY <1>2 DEF Adopt1
  <2>2. /\ Placed(x, w, i)
        /\ \E y : Going(x, y, M, v, S \ {i + 1}) /\ Later(w, z, x, y, v.h - 1)
    BY ONLY <2>1, ReposGood, Going(w, z, M, v, S), i \in 0 .. Len(w.parent.ents),
            nd \in NodeType, Sound(z, nd, M[i + 1]), 0 \notin x.made
  <2> QED  BY <2>1, <2>2
<1> QED  BY <1>1, <1>2

(* adopt(). *)
TooLarge(p, i) ==
    {j \in {i + 1, i + 2} : (j = i + 1 /\ p.left.end > PgSize) \/ (j = i + 2 /\ p.right.end > PgSize)}
Adopts(w, z, v, x, y, N, i, p) ==
    /\ Going(x, y, N, v, TooLarge(p, i)) /\ Later(w, z, x, y, v.h - 1)
    /\ Sound(y, p.left, N[i + 1]) /\ Sound(y, p.right, N[i + 2])
Adopting(w, z, v, x, i, p) ==
    /\ x.node = w.node /\ Len(x.parent.ents) = Len(w.parent.ents) /\ Fields(x)
    /\ x.done \in BOOLEAN /\ (x.done <=> ~(p.left.end > PgSize \/ p.right.end > PgSize))
    /\ \E y, N : Adopts(w, z, v, x, y, N, i, p)
LEMMA AdoptGood ==
    ASSUME NEW w, NEW z, NEW M, NEW v, NEW S, Going(w, z, M, v, S),
           NEW i \in 0 .. Len(w.parent.ents) - 1, S \subseteq {i + 1, i + 2},
           NEW p, NEW leaf, NEW ovh, Divided(z, p, M[i + 1], M[i + 2], leaf, ovh),
           NEW x, x = Adopt(w, i, p), 0 \notin x.made
    PROVE  Adopting(w, z, v, x, i, p)
<1>1. Fields(w) /\ Trees(w.disk, z) /\ Par(z, w.parent, M, v, S)
  BY DEF Going
<1>2. /\ Sep(p.entry) /\ M[i + 1].lo < p.entry.key /\ Before(p.entry.key, M[i + 2].hi)
      /\ p.left \in NodeType /\ p.right \in NodeType
      /\ Sound(z, p.left, Under(Join(M[i + 1], M[i + 2]), p.entry.key))
      /\ Sound(z, p.right, From(Join(M[i + 1], M[i + 2]), p.entry.key))
  BY DEF Divided
<1>3. PICK q, n, e : q = w.parent /\ n = Len(q.ents) /\ e = p.entry
  OBVIOUS
<1>4. PICK m, w0 : m = Modpage(q, i, e) /\ w0 = [w EXCEPT !.parent = m]
  OBVIOUS
<1>5. PICK N : /\ Par(z, m, N, v, {i + 1, i + 2})
               /\ N[i + 1] = Under(Join(M[i + 1], M[i + 2]), e.key)
               /\ N[i + 2] = From(Join(M[i + 1], M[i + 2]), e.key)
               /\ Same(m, q) /\ Len(m.ents) = n
  <2>1. /\ Par(z, q, M, v, S) /\ i \in 0 .. Len(q.ents) - 1 /\ Sep(e)
        /\ M[i + 1].lo < e.key /\ Before(e.key, M[i + 2].hi)
    BY <1>1, <1>2, <1>3
  <2>2. \E N : Shares(z, Modpage(q, i, e), N, q, M, v, i, e)
    BY ONLY <2>1, ParShare, S \subseteq {i + 1, i + 2}
  <2> QED  BY <2>2, <1>3, <1>4 DEF Shares
<1>6. /\ Fields(w0) /\ w0.disk = w.disk /\ w0.made = w.made /\ w0.idx = w.idx /\ w0.bad = w.bad
      /\ w0.parent = m /\ w0.node = w.node
  BY <1>1, <1>4 DEF Fields
<1>7. Going(w0, z, N, v, {i + 1, i + 2})
  BY <1>1, <1>5, <1>6 DEF Going
<1>8. Later(w, z, w0, z, v.h - 1)
  BY <1>3, <1>5, <1>6, LaterSame DEF Same
<1>9. PICK x1, x2 : x1 = Adopt1(w0, i, p.left) /\ x2 = Adopt1(x1, i + 1, p.right)
  OBVIOUS
<1>10. x = [x2 EXCEPT !.done = ~(p.left.end > PgSize \/ p.right.end > PgSize)]
  BY <1>3, <1>4, <1>9 DEF Adopt
<1>11. n \in Nat /\ Len(w0.parent.ents) = n /\ n = Len(w.parent.ents)
  <2>1. Len(q.ents) \in Nat
    BY <1>1, <1>3, ParIs
  <2> QED  BY <2>1, <1>3, <1>5, <1>6
<1>12. i \in 0 .. Len(w0.parent.ents) /\ i + 1 \in 0 .. n /\ i + 1 + 1 = i + 2 /\ i + 1 # i + 2
  BY <1>11
<1>13. p.left.end \in Int /\ p.right.end \in Int /\ PgSize \in Nat
  BY <1>2, SizesAssumption DEF NodeType
<1>14. Fields(x1) /\ x1.made \subseteq x2.made /\ Fields(x2)
  <2>1. Fields(x1)
    BY <1>6, <1>9, ReposIs DEF Adopt1, Reposed
  <2>2. Fields(x2) /\ x1.made \subseteq x2.made
    <3>1. CASE p.right.end > PgSize
      BY <3>1, <2>1, <1>9 DEF Adopt1
    <3>2. CASE ~(p.right.end > PgSize)
      <4>1. x2 = Repos(x1, i + 1, p.right)
        BY <3>2, <1>9 DEF Adopt1
      <4>2. Fields(x2) /\ x2.made = x1.made \cup {Capture(x1)}
        <5>1. Reposed(x2, x1, i + 1, p.right)
          BY <4>1, <2>1, ReposIs
        <5> QED  BY <5>1 DEF Reposed
      <4> QED  BY <4>2
    <3> QED  BY <3>1, <3>2
  <2> QED  BY <2>1, <2>2
<1>15. /\ Fields(x) /\ x.disk = x2.disk /\ x.made = x2.made /\ x.idx = x2.idx /\ x.bad = x2.bad
       /\ x.parent = x2.parent /\ x.node = x2.node
       /\ x.done = (~(p.left.end > PgSize \/ p.right.end > PgSize))
  BY <1>10, <1>14 DEF Fields
<1>16. 0 \notin x2.made /\ 0 \notin x1.made
  BY <1>14, <1>15
<1>17. PICK T1 : T1 = IF p.left.end > PgSize THEN {i + 1, i + 2} ELSE {i + 1, i + 2} \ {i + 1}
  OBVIOUS
<1>18. /\ Placed(x1, w0, i)
       /\ \E y : Going(x1, y, N, v, T1) /\ Later(w0, z, x1, y, v.h - 1)
  <2>1. Sound(z, p.left, N[i + 1])
    BY <1>2, <1>3, <1>5
  <2> QED  BY ONLY <1>2, <1>7, <1>9, <1>12, <1>16, <1>17, <2>1, Adopt1Good
<1>19. PICK y1 : Going(x1, y1, N, v, T1) /\ Later(w0, z, x1, y1, v.h - 1)
  BY <1>18
<1>20. PICK T2 : T2 = IF p.right.end > PgSize THEN T1 ELSE T1 \ {i + 1 + 1}
  OBVIOUS
<1>21. Len(x1.parent.ents) = n /\ x1.node = w.node
  BY <1>18, <1>11, <1>6 DEF Placed, ButFor
<1>22. Extends(z, y1)
  BY <1>19 DEF Later
<1>23. /\ Placed(x2, x1, i + 1)
       /\ \E y : Going(x2, y, N, v, T2) /\ Later(x1, y1, x2, y, v.h - 1)
  <2>1. Sound(z, p.right, N[i + 1 + 1])
    BY <1>2, <1>3, <1>5, <1>12
  <2>2. Sound(y1, p.right, N[i + 1 + 1])
    BY <2>1, <1>22, SoundMore
  <2>3. i + 1 \in 0 .. Len(x1.parent.ents)
    BY <1>12, <1>21
  <2> QED  BY ONLY <1>2, <1>19, <1>9, <2>2, <2>3, <1>16, <1>20, Adopt1Good
<1>24. PICK y2 : Going(x2, y2, N, v, T2) /\ Later(x1, y1, x2, y2, v.h - 1)
  BY <1>23
<1>25. Len(x2.parent.ents) = n /\ x2.node = w.node
  BY <1>23, <1>21 DEF Placed, ButFor
<1>26. Later(w, z, x2, y2, v.h - 1)
  BY <1>8, <1>19, <1>24, LaterThen
<1>27. Later(w, z, x, y2, v.h - 1)
  BY <1>26, <1>15 DEF Later
<1>28. T2 = TooLarge(p, i)
  BY <1>17, <1>20, <1>12 DEF TooLarge
<1>29. Going(x, y2, N, v, TooLarge(p, i))
  BY <1>24, <1>15, <1>28 DEF Going
<1>30. Sound(y2, p.left, N[i + 1]) /\ Sound(y2, p.right, N[i + 2])
  <2>1. Extends(z, y2)
    BY <1>26 DEF Later
  <2>2. Sound(z, p.left, N[i + 1]) /\ Sound(z, p.right, N[i + 2])
    BY <1>2, <1>3, <1>5
  <2> QED  BY <2>1, <2>2, SoundMore
<1>31. Adopts(w, z, v, x, y2, N, i, p)
  BY <1>27, <1>29, <1>30 DEF Adopts
<1>32. x.done \in BOOLEAN /\ (x.done <=> ~(p.left.end > PgSize \/ p.right.end > PgSize))
  BY ONLY <1>15
<1> QED  BY <1>11, <1>15, <1>25, <1>31, <1>32 DEF Adopting

LEMMA AdoptFields ==
    ASSUME NEW w, Fields(w), NEW i, NEW p
    PROVE  Fields(Adopt(w, i, p))
<1>1. ASSUME NEW u, Fields(u), NEW j, NEW nd
      PROVE  Fields(Adopt1(u, j, nd))
  <2>1. Reposed(Repos(u, j, nd), u, j, nd)
    BY <1>1, ReposIs
  <2> QED  BY <1>1, <2>1 DEF Reposed, Adopt1
<1>2. PICK w0, w1, w2 : /\ w0 = [w EXCEPT !.parent = Modpage(@, i, p.entry)]
                        /\ w1 = Adopt1(w0, i, p.left) /\ w2 = Adopt1(w1, i + 1, p.right)
  OBVIOUS
<1>3. Fields(w0)
  BY <1>2 DEF Fields
<1>4. Fields(w1)
  BY <1>1, <1>2, <1>3
<1>5. Fields(w2)
  BY <1>1, <1>2, <1>4
<1>6. Adopt(w, i, p) = [w2 EXCEPT !.done = ~(p.left.end > PgSize \/ p.right.end > PgSize)]
  BY <1>2 DEF Adopt
<1> QED  BY <1>5, <1>6 DEF Fields

(* The round before its node is placed, and what a step of it leaves: all  *)
(* is done, or the node is to be placed still, the same or too large.      *)
Usual(leaf) == IF leaf THEN LeafOvh ELSE IndexOvh
Fit(nd) == nd \in NodeType /\ Exact(nd) /\ nd.ovh = Usual(nd.leaf)
Ready(w, z, M, v) ==
    /\ Going(w, z, M, v, {w.idx + 1}) /\ w.idx \in 0 .. Len(w.parent.ents) /\ ~w.done
    /\ Fit(w.node) /\ Sound(z, w.node, M[w.idx + 1])
Outcome(w, z, x, y, N, v) ==
    /\ Later(w, z, x, y, v.h - 1)
    /\ x.done => Going(x, y, N, v, {})
    /\ ~x.done => Ready(x, y, N, v) /\ (x = w \/ x.node.end > PgSize)

Renamed(x, a, i, nd) ==
    /\ Fields(x) /\ x.disk = a.disk /\ x.made = a.made /\ x.idx = a.idx /\ x.bad = a.bad
    /\ x.parent = a.parent /\ x.done = a.done /\ x.list2 = a.list2
    /\ x.node = [nd EXCEPT !.page = Kid(a.parent, i)]
LEMMA AdoptedIs ==
    ASSUME NEW a, Fields(a), NEW i, NEW nd
    PROVE  Renamed(Adopted(a, i, nd), a, i, nd)
BY DEF Adopted, Fields, Renamed

LEMMA Renumbered ==
    ASSUME NEW nd \in NodeType, NEW n \in Int, NEW m, m = [nd EXCEPT !.page = n]
    PROVE  /\ m \in NodeType /\ m.page = n /\ m.leaf = nd.leaf /\ m.ents = nd.ents
           /\ m.kids = nd.kids /\ m.end = nd.end /\ m.ovh = nd.ovh /\ (Exact(nd) => Exact(m))
<1>1. /\ m \in NodeType /\ m.page = n /\ m.leaf = nd.leaf /\ m.ents = nd.ents
      /\ m.kids = nd.kids /\ m.end = nd.end /\ m.ovh = nd.ovh
  BY DEF NodeType
<1> QED  BY <1>1 DEF Exact

LEMMA AdoptedGood ==
    ASSUME NEW w, NEW z, NEW v, NEW a, NEW y, NEW N, NEW T,
           Going(a, y, N, v, T), Later(w, z, a, y, v.h - 1),
           a.idx \in 0 .. Len(a.parent.ents), a.done \in BOOLEAN,
           a.done => T = {}, ~a.done => T = {a.idx + 1},
           NEW nd \in NodeType, Exact(nd), nd.ovh = Usual(nd.leaf), Sound(y, nd, N[a.idx + 1]),
           ~a.done => nd.end > PgSize,
           NEW x, x = Adopted(a, a.idx, nd)
    PROVE  Outcome(w, z, x, y, N, v)
<1>1. Fields(a) /\ Trees(a.disk, y) /\ Par(y, a.parent, N, v, T)
  BY DEF Going
<1>2. /\ Fields(x) /\ x.disk = a.disk /\ x.made = a.made /\ x.idx = a.idx /\ x.bad = a.bad
      /\ x.parent = a.parent /\ x.done = a.done
      /\ x.node = [nd EXCEPT !.page = Kid(a.parent, a.idx)]
  <2>1. Renamed(x, a, a.idx, nd)
    BY <1>1, AdoptedIs
  <2> QED  BY <2>1 DEF Renamed
<1>3. Kid(a.parent, a.idx) \in Int
  <2>1. /\ a.parent.kids \in Seq(Int) /\ Len(a.parent.kids) = Len(a.parent.ents) + 1
        /\ Len(a.parent.ents) \in Nat
    BY <1>1, ParIs
  <2>2. a.idx + 1 \in 1 .. Len(a.parent.kids)
    BY <2>1
  <2>3. a.parent.kids[a.idx + 1] \in Int
    BY <2>1, <2>2, ElementOfSeq
  <2> QED  BY <2>3 DEF Kid
<1>4. /\ x.node \in NodeType /\ x.node.leaf = nd.leaf /\ x.node.ents = nd.ents
      /\ x.node.kids = nd.kids /\ x.node.end = nd.end /\ x.node.ovh = nd.ovh /\ Exact(x.node)
  BY <1>2, <1>3, Renumbered
<1>5. Sound(y, x.node, N[a.idx + 1])
  <2>1. Extends(y, y)
    BY DEF Extends
  <2> QED  BY <1>4, <2>1, SoundMore
<1>6. Fit(x.node)
  BY <1>4 DEF Fit
<1>7. Going(x, y, N, v, T)
  BY <1>1, <1>2 DEF Going
<1>8. Later(w, z, x, y, v.h - 1)
  BY <1>2 DEF Later
<1>9. x.done => Going(x, y, N, v, {})
  BY <1>2, <1>7
<1>10. ~x.done => Ready(x, y, N, v)
  BY <1>2, <1>5, <1>6, <1>7 DEF Ready
<1>11. ~x.done => x.node.end > PgSize
  BY <1>2, <1>4
<1> QED  BY <1>8, <1>9, <1>10, <1>11 DEF Outcome

LEMMA AdoptLeftGood ==
    ASSUME NEW w, NEW z, NEW M, NEW v, Ready(w, z, M, v), NEW i \in Nat, w.idx = i + 1,
           NEW p, NEW leaf, Divided(z, p, M[i + 1], M[i + 2], leaf, Usual(leaf)),
           p.left.end =< PgSize, NEW x, x = AdoptLeft(w, i, p), 0 \notin x.made
    PROVE  \E y, N : Outcome(w, z, x, y, N, v)
<1>1. PICK a : a = Adopt(w, i, p)
  OBVIOUS
<1>2. x = Adopted(a, i + 1, p.right)
  BY <1>1 DEF AdoptLeft
<1>3. Going(w, z, M, v, {i + 2}) /\ w.idx \in 0 .. Len(w.parent.ents)
  <2>1. Going(w, z, M, v, {w.idx + 1}) /\ w.idx + 1 = i + 2
    BY DEF Ready
  <2> QED  BY <2>1 DEF Ready
<1>4. Len(w.parent.ents) \in Nat /\ Fields(w)
  BY <1>3, ParIs DEF Going
<1>5. i \in 0 .. Len(w.parent.ents) - 1 /\ {i + 2} \subseteq {i + 1, i + 2} /\ i + 1 # i + 2
  BY <1>3, <1>4
<1>6. Fields(a) /\ a.made = x.made
  <2>1. Fields(a)
    BY <1>1, <1>4, AdoptFields
  <2>2. Renamed(x, a, i + 1, p.right)
    BY <2>1, <1>2, AdoptedIs
  <2> QED  BY <2>1, <2>2 DEF Renamed
<1>19. Adopting(w, z, v, a, i, p)
  <2>1. 0 \notin a.made
    BY <1>6
  <2> QED  BY ONLY <1>1, <1>3, <1>5, <2>1, AdoptGood,
                   Divided(z, p, M[i + 1], M[i + 2], leaf, Usual(leaf))
<1>7. /\ a.node = w.node /\ Len(a.parent.ents) = Len(w.parent.ents) /\ Fields(a)
      /\ a.done \in BOOLEAN /\ (a.done <=> ~(p.left.end > PgSize \/ p.right.end > PgSize))
      /\ \E y, N : Adopts(w, z, v, a, y, N, i, p)
  BY <1>19 DEF Adopting
<1>18. PICK y, N : Adopts(w, z, v, a, y, N, i, p)
  BY <1>7
<1>8. /\ Going(a, y, N, v, TooLarge(p, i)) /\ Later(w, z, a, y, v.h - 1)
      /\ Sound(y, p.right, N[i + 2])
  BY <1>18 DEF Adopts
<1>9. p.right \in NodeType /\ Exact(p.right) /\ p.right.ovh = Usual(p.right.leaf) /\ p.left \in NodeType
  BY DEF Divided
<1>10. p.right.end \in Int /\ p.left.end \in Int /\ PgSize \in Nat
  BY <1>9, SizesAssumption DEF NodeType
<1>11. a.idx = i + 1 /\ i + 1 + 1 = i + 2
  BY <1>8 DEF Later
<1>12. /\ a.done \in BOOLEAN
       /\ a.done => TooLarge(p, i) = {}
       /\ ~a.done => TooLarge(p, i) = {a.idx + 1} /\ p.right.end > PgSize
  <2>1. a.done \in BOOLEAN
    BY <1>7
  <2>2. ~(p.left.end > PgSize)
    BY <1>10
  <2>3. a.done => ~(p.right.end > PgSize)
    BY <1>7, <1>10
  <2>4. ~a.done => p.right.end > PgSize
    BY <1>7, <1>10
  <2>5. p.right.end > PgSize => TooLarge(p, i) = {i + 2}
    BY <1>5, <2>2 DEF TooLarge
  <2>6. ~(p.right.end > PgSize) => TooLarge(p, i) = {}
    BY <2>2 DEF TooLarge
  <2> QED  BY <2>1, <2>3, <2>4, <2>5, <2>6, <1>11
<1>13. a.idx \in 0 .. Len(a.parent.ents)
  BY <1>3, <1>7, <1>11
<1>14. x = Adopted(a, a.idx, p.right) /\ Sound(y, p.right, N[a.idx + 1])
  BY <1>2, <1>8, <1>11
<1>15. PICK T : T = TooLarge(p, i)
  OBVIOUS
<1>16. /\ Going(a, y, N, v, T) /\ Later(w, z, a, y, v.h - 1) /\ a.done \in BOOLEAN
       /\ a.done => T = {}
       /\ ~a.done => T = {a.idx + 1}
       /\ ~a.done => p.right.end > PgSize
  BY <1>8, <1>12, <1>15
<1>17. Outcome(w, z, x, y, N, v)
  BY ONLY <1>9, <1>13, <1>14, <1>16, AdoptedGood
<1> QED  BY <1>17

LEMMA AdoptRightGood ==
    ASSUME NEW w, NEW z, NEW M, NEW v, Ready(w, z, M, v), NEW i \in Nat, w.idx = i,
           i # Len(w.parent.ents),
           NEW p, NEW leaf, Divided(z, p, M[i + 1], M[i + 2], leaf, Usual(leaf)),
           p.right.end =< PgSize, NEW x, x = AdoptRight(w, i, p), 0 \notin x.made
    PROVE  \E y, N : Outcome(w, z, x, y, N, v)
<1>1. PICK a : a = Adopt(w, i, p)
  OBVIOUS
<1>2. x = Adopted(a, i, p.left)
  BY <1>1 DEF AdoptRight
<1>3. Going(w, z, M, v, {i + 1}) /\ w.idx \in 0 .. Len(w.parent.ents)
  BY DEF Ready
<1>4. Len(w.parent.ents) \in Nat /\ Fields(w)
  BY <1>3, ParIs DEF Going
<1>5. i \in 0 .. Len(w.parent.ents) - 1 /\ {i + 1} \subseteq {i + 1, i + 2} /\ i + 1 # i + 2
  BY <1>3, <1>4
<1>6. Fields(a) /\ a.made = x.made
  <2>1. Fields(a)
    BY <1>1, <1>4, AdoptFields
  <2>2. Renamed(x, a, i, p.left)
    BY <2>1, <1>2, AdoptedIs
  <2> QED  BY <2>1, <2>2 DEF Renamed
<1>19. Adopting(w, z, v, a, i, p)
  <2>1. 0 \notin a.made
    BY <1>6
  <2> QED  BY ONLY <1>1, <1>3, <1>5, <2>1, AdoptGood,
                   Divided(z, p, M[i + 1], M[i + 2], leaf, Usual(leaf))
<1>7. /\ a.node = w.node /\ Len(a.parent.ents) = Len(w.parent.ents) /\ Fields(a)
      /\ a.done \in BOOLEAN /\ (a.done <=> ~(p.left.end > PgSize \/ p.right.end > PgSize))
      /\ \E y, N : Adopts(w, z, v, a, y, N, i, p)
  BY <1>19 DEF Adopting
<1>18. PICK y, N : Adopts(w, z, v, a, y, N, i, p)
  BY <1>7
<1>8. /\ Going(a, y, N, v, TooLarge(p, i)) /\ Later(w, z, a, y, v.h - 1)
      /\ Sound(y, p.left, N[i + 1])
  BY <1>18 DEF Adopts
<1>9. p.left \in NodeType /\ Exact(p.left) /\ p.left.ovh = Usual(p.left.leaf) /\ p.right \in NodeType
  BY DEF Divided
<1>10. p.right.end \in Int /\ p.left.end \in Int /\ PgSize \in Nat
  BY <1>9, SizesAssumption DEF NodeType
<1>11. a.idx = i
  BY <1>8 DEF Later
<1>12. /\ a.done \in BOOLEAN
       /\ a.done => TooLarge(p, i) = {}
       /\ ~a.done => TooLarge(p, i) = {a.idx + 1} /\ p.left.end > PgSize
  <2>1. a.done \in BOOLEAN
    BY <1>7
  <2>2. ~(p.right.end > PgSize)
    BY <1>10
  <2>3. a.done => ~(p.left.end > PgSize)
    BY <1>7, <1>10
  <2>4. ~a.done => p.left.end > PgSize
    BY <1>7, <1>10
  <2>5. p.left.end > PgSize => TooLarge(p, i) = {i + 1}
    BY <1>5, <2>2 DEF TooLarge
  <2>6. ~(p.left.end > PgSize) => TooLarge(p, i) = {}
    BY <2>2 DEF TooLarge
  <2> QED  BY <2>1, <2>3, <2>4, <2>5, <2>6, <1>11
<1>13. a.idx \in 0 .. Len(a.parent.ents)
  BY <1>3, <1>7, <1>11
<1>14. x = Adopted(a, a.idx, p.left) /\ Sound(y, p.left, N[a.idx + 1])
  BY <1>2, <1>8, <1>11
<1>15. PICK T : T = TooLarge(p, i)
  OBVIOUS
<1>16. /\ Going(a, y, N, v, T) /\ Later(w, z, a, y, v.h - 1) /\ a.done \in BOOLEAN
       /\ a.done => T = {}
       /\ ~a.done => T = {a.idx + 1}
       /\ ~a.done => p.left.end > PgSize
  BY <1>8, <1>12, <1>15
<1>17. Outcome(w, z, x, y, N, v)
  BY ONLY <1>9, <1>13, <1>14, <1>16, AdoptedGood
<1> QED  BY <1>17

(* The siblings are one node. *)
LEMMA MergeGood ==
    ASSUME NEW w, NEW z, NEW M, NEW v, NEW S, Going(w, z, M, v, S),
           NEW i \in 0 .. Len(w.parent.ents) - 1, S \subseteq {i + 1, i + 2},
           NEW nd \in NodeType, Sound(z, nd, Join(M[i + 1], M[i + 2])),
           NEW x, x = Merge(w, i, nd), 0 \notin x.made
    PROVE  \E y, N : Outcome(w, z, x, y, N, v)
<1>1. Fields(w) /\ Trees(w.disk, z) /\ Par(z, w.parent, M, v, S)
  BY DEF Going
<1>2. PICK q, m, w0, a : /\ q = w.parent /\ m = Delpage(q, i) /\ w0 = [w EXCEPT !.parent = m]
                         /\ a = Repos(w0, i, nd)
  OBVIOUS
<1>3. x = [a EXCEPT !.list2 = Append(@, w.node.page), !.done = TRUE]
  BY <1>2 DEF Merge
<1>4. PICK N : Merges(z, m, N, q, M, v, i)
  <2>1. Par(z, q, M, v, S) /\ i \in 0 .. Len(q.ents) - 1
    BY <1>1, <1>2
  <2>2. \E N : Merges(z, Delpage(q, i), N, q, M, v, i)
    BY ONLY <2>1, ParMerge, S \subseteq {i + 1, i + 2}
  <2> QED  BY <2>2, <1>2
<1>5. /\ Fields(w0) /\ w0.disk = w.disk /\ w0.made = w.made /\ w0.idx = w.idx /\ w0.bad = w.bad
      /\ w0.parent = m /\ w0.node = w.node
  BY <1>1, <1>2 DEF Fields
<1>6. /\ Par(z, m, N, v, {i + 1}) /\ Same(m, q) /\ Len(m.ents) = Len(q.ents) - 1
      /\ N[i + 1] = Join(M[i + 1], M[i + 2])
  BY <1>4 DEF Merges
<1>7. Going(w0, z, N, v, {i + 1})
  BY <1>1, <1>5, <1>6 DEF Going
<1>8. Later(w, z, w0, z, v.h - 1)
  BY <1>2, <1>5, <1>6, LaterSame DEF Same
<1>9. i \in 0 .. Len(w0.parent.ents)
  <2>1. Len(q.ents) \in Nat
    BY <1>1, <1>2, ParIs
  <2> QED  BY <2>1, <1>2, <1>5, <1>6
<1>10. Reposed(a, w0, i, nd)
  BY <1>2, <1>5, ReposIs
<1>11. /\ Fields(x) /\ x.disk = a.disk /\ x.made = a.made /\ x.idx = a.idx /\ x.bad = a.bad
       /\ x.parent = a.parent /\ x.done = TRUE
  <2>1. Fields(a)
    BY <1>10 DEF Reposed
  <2> QED  BY <2>1, <1>3 DEF Fields
<1>12. PICK y : Going(a, y, N, v, {i + 1} \ {i + 1}) /\ Later(w0, z, a, y, v.h - 1)
  <2>1. 0 \notin a.made /\ Sound(z, nd, N[i + 1])
    BY <1>6, <1>11
  <2>2. \E y : Going(a, y, N, v, {i + 1} \ {i + 1}) /\ Later(w0, z, a, y, v.h - 1)
    BY ONLY <1>2, <1>7, <1>9, <2>1, ReposGood, nd \in NodeType
  <2> QED  BY <2>2
<1>13. Later(w, z, a, y, v.h - 1)
  BY <1>8, <1>12, LaterThen
<1>14. Later(w, z, x, y, v.h - 1)
  BY <1>11, <1>13 DEF Later
<1>15. {i + 1} \ {i + 1} = {}
  OBVIOUS
<1>16. Going(x, y, N, v, {})
  BY <1>11, <1>12, <1>15 DEF Going
<1>17. Outcome(w, z, x, y, N, v)
  BY <1>11, <1>14, <1>16 DEF Outcome
<1> QED  BY <1>17

(* getnode(). *)
LEMMA GetnodeIs ==
    ASSUME NEW z, NEW d, NEW n \in Int, NEW u, Sound(z, d[n], u), NEW l, l = Getnode(d, n)
    PROVE  Fit(l) /\ Sound(z, l, u) /\ l.page = n /\ (Chkpage(d[n]) => l.end =< PgSize)
<1>1. PICK pg : pg = d[n]
  OBVIOUS
<1>2. /\ l.page = n /\ l.leaf = pg.leaf /\ l.ents = pg.ents /\ l.kids = pg.kids
      /\ l.end = PageBytes(pg) /\ l.ovh = Usual(pg.leaf)
  BY <1>1 DEF Getnode, Usual
<1>3. /\ pg.leaf \in BOOLEAN /\ pg.ents \in Seq(Ent) /\ pg.kids \in Seq(Int) /\ Sound(z, pg, u)
  BY <1>1 DEF Sound
<1>4. Extends(z, z)
  BY DEF Extends
<1>5. Sound(z, l, u)
  BY <1>2, <1>3, <1>4, SoundMore
<1>6. Bytes(pg.ents) \in Nat /\ Len(pg.ents) \in Nat
  BY <1>3, BytesAdd
<1>7. Usual(pg.leaf) \in Nat /\ Base(pg.leaf) \in Nat
  BY SizesAssumption DEF Usual, Base
<1>8. PICK y : y = Len(pg.ents) * Usual(pg.leaf)
  OBVIOUS
<1>9. y \in Nat
  BY <1>6, <1>7, <1>8
<1>10. PageBytes(pg) = Base(pg.leaf) + y + Bytes(pg.ents)
  BY <1>8 DEF PageBytes, Base, Usual
<1>11. PageBytes(pg) = Base(pg.leaf) + Bytes(pg.ents) + y /\ PageBytes(pg) \in Int
  BY <1>6, <1>7, <1>9, <1>10
<1>12. Exact(l)
  BY <1>2, <1>8, <1>11 DEF Exact
<1>13. l \in NodeType
  BY <1>1, <1>2, <1>3, <1>7, <1>11 DEF Getnode, NodeType, Usual
<1>14. Chkpage(pg) => l.end =< PgSize
  BY <1>2 DEF Chkpage
<1> QED  BY <1>1, <1>2, <1>5, <1>12, <1>13, <1>14 DEF Fit

(* The node and a sibling. *)
LEMMA Siblings ==
    ASSUME NEW w, NEW z, NEW M, NEW v, Ready(w, z, M, v),
           NEW i \in 0 .. Len(w.parent.ents) - 1, NEW j \in {i, i + 1}, j # w.idx,
           w.idx \in {i, i + 1},
           NEW s, s = Getnode(w.disk, Kid(w.parent, j)), NEW e, e = Entry(w.parent, i)
    PROVE  /\ Fit(s) /\ (Chkpage(w.disk[Kid(w.parent, j)]) => s.end =< PgSize)
           /\ j = i     => Adjoin(z, s, w.node, M[i + 1], M[i + 2], e)
           /\ j = i + 1 => Adjoin(z, w.node, s, M[i + 1], M[i + 2], e)
<1>1. /\ Going(w, z, M, v, {w.idx + 1}) /\ Fit(w.node) /\ Sound(z, w.node, M[w.idx + 1])
      /\ Trees(w.disk, z) /\ Par(z, w.parent, M, v, {w.idx + 1})
  BY DEF Ready, Going
<1>2. PICK q, n : q = w.parent /\ n = Kid(q, j)
  OBVIOUS
<1>3. /\ Len(q.ents) \in Nat /\ Len(q.kids) = Len(q.ents) + 1 /\ q.kids \in Seq(Int)
      /\ \A k \in 1 .. Len(q.ents) : M[k].hi = q.ents[k].key /\ Meet(M[k], M[k + 1])
      /\ \A k \in 1 .. Len(q.ents) : q.ents[k] \in Ent /\ Sep(q.ents[k])
  <2>1. PICK S : S = {w.idx + 1}
    OBVIOUS
  <2>2. Par(z, q, M, v, S)
    BY <1>1, <1>2, <2>1
  <2>3. Len(q.ents) \in Nat /\ Len(q.kids) = Len(q.ents) + 1 /\ q.kids \in Seq(Int)
    BY ONLY <2>2, ParIs
  <2>4. \A k \in 1 .. Len(q.ents) : M[k].hi = q.ents[k].key /\ Meet(M[k], M[k + 1])
    BY ONLY <2>2, ParIs
  <2>5. \A k \in 1 .. Len(q.ents) : q.ents[k] \in Ent /\ Sep(q.ents[k])
    BY ONLY <2>2, ParIs
  <2> QED  BY <2>3, <2>4, <2>5
<1>4. /\ j + 1 \in 1 .. Len(q.kids) /\ j + 1 # w.idx + 1 /\ i + 1 \in 1 .. Len(q.ents)
      /\ i + 1 + 1 = i + 2
  <2>1. w.idx \in Int
    BY DEF Ready
  <2> QED  BY <1>2, <1>3, <2>1, SMTT(30)
<1>5. n \in DOMAIN z /\ z[n] = M[j + 1] /\ n \in Int
  <2>1. n = q.kids[j + 1]
    BY <1>2 DEF Kid
  <2>2. n \in Int
    BY <1>3, <1>4, <2>1, ElementOfSeq
  <2>3. Linked(z, q, M, {w.idx + 1})
    BY <1>1, <1>2 DEF Par
  <2> QED  BY <1>4, <2>1, <2>2, <2>3 DEF Linked
<1>6. Sound(z, w.disk[n], M[j + 1])
  BY <1>1, <1>5 DEF Trees
<1>7. /\ Fit(s) /\ Sound(z, s, M[j + 1]) /\ (Chkpage(w.disk[n]) => s.end =< PgSize)
  <2>1. PICK d, u : d = w.disk /\ u = M[j + 1]
    OBVIOUS
  <2>2. n \in Int /\ Sound(z, d[n], u) /\ s = Getnode(d, n)
    BY <1>2, <1>5, <1>6, <2>1
  <2>3. Fit(s) /\ Sound(z, s, u) /\ (Chkpage(d[n]) => s.end =< PgSize)
    BY ONLY <2>2, GetnodeIs
  <2> QED  BY <2>1, <2>3
<1>8. Meet(M[i + 1], M[i + 2]) /\ M[i + 1].hi = e.key /\ Sep(e)
  <2>1. e = q.ents[i + 1]
    BY <1>2 DEF Entry
  <2>2. Meet(M[i + 1], M[i + 1 + 1])
    BY <1>3, <1>4
  <2> QED  BY <1>3, <1>4, <2>1, <2>2
<1>9. w.node \in NodeType /\ s \in NodeType
  BY <1>1, <1>7 DEF Fit
<1>10. ASSUME j = i
       PROVE  Adjoin(z, s, w.node, M[i + 1], M[i + 2], e)
  <2>1. w.idx + 1 = i + 2 /\ j + 1 = i + 1
    BY <1>4, <1>10
  <2>2. Sound(z, w.node, M[i + 2]) /\ Sound(z, s, M[i + 1])
    BY <1>1, <1>7, <2>1
  <2> QED  BY <1>8, <1>9, <2>2 DEF Adjoin
<1>11. ASSUME j = i + 1
       PROVE  Adjoin(z, w.node, s, M[i + 1], M[i + 2], e)
  <2>1. w.idx + 1 = i + 1 /\ j + 1 = i + 2
    BY <1>4, <1>11
  <2>2. Sound(z, w.node, M[i + 1]) /\ Sound(z, s, M[i + 2])
    BY <1>1, <1>7, <2>1
  <2> QED  BY <1>8, <1>9, <2>2 DEF Adjoin
<1> QED  BY <1>2, <1>7, <1>10, <1>11

LEMMA OutcomeSame ==
    ASSUME NEW w, NEW z, NEW M, NEW v, Ready(w, z, M, v)
    PROVE  Outcome(w, z, w, z, M, v)
<1>1. Later(w, z, w, z, v.h - 1)
  BY LaterSame
<1> QED  BY <1>1 DEF Outcome, Ready

LEMMA SpreadLeftGood ==
    ASSUME NEW w, NEW z, NEW M, NEW v, Ready(w, z, M, v), w.idx > 0,
           NEW x, x = SpreadLeft(w), ~x.bad, 0 \notin x.made
    PROVE  \E y, N : Outcome(w, z, x, y, N, v)
<1>1. PICK i, nd, s, e : /\ i = w.idx - 1 /\ nd = w.node
                         /\ s = Getnode(w.disk, Kid(w.parent, i)) /\ e = Entry(w.parent, i)
  OBVIOUS
<1>2. /\ Going(w, z, M, v, {w.idx + 1}) /\ Fit(nd) /\ Fields(w) /\ w.idx \in 0 .. Len(w.parent.ents)
      /\ Par(z, w.parent, M, v, {w.idx + 1})
  BY <1>1 DEF Ready, Going
<1>3. Len(w.parent.ents) \in Nat
  BY <1>2, ParIs
<1>4. i \in 0 .. Len(w.parent.ents) - 1 /\ w.idx = i + 1 /\ i # w.idx /\ i \in Nat /\ i + 1 + 1 = i + 2
  BY <1>1, <1>2, <1>3
<1>5. Chkpage(w.disk[Kid(w.parent, i)]) /\ x = JoinLeft(w, i, Lefter(s, nd, e))
  <2>1. x = IF ~Chkpage(w.disk[Kid(w.parent, i)]) THEN [w EXCEPT !.bad = TRUE]
            ELSE JoinLeft(w, i, ReachLeft(nd, s, e))
    BY <1>1 DEF SpreadLeft
  <2>2. Chkpage(w.disk[Kid(w.parent, i)])
    BY <2>1, <1>2 DEF Fields
  <2>3. ReachLeft(nd, s, e) = Lefter(s, nd, e)
    BY DEF ReachLeft, Lefter
  <2> QED  BY <2>1, <2>2, <2>3
<1>6. Fit(s) /\ s.end =< PgSize /\ Adjoin(z, s, nd, M[i + 1], M[i + 2], e)
  <2>1. i \in {i, i + 1} /\ w.idx \in {i, i + 1}
    BY <1>4
  <2> QED  BY <1>1, <1>4, <1>5, <2>1, Siblings
<1>7. Exact(s) /\ Exact(nd) /\ s.ovh = nd.ovh /\ nd.ovh = Usual(nd.leaf) /\ s \in NodeType /\ nd \in NodeType
  <2>1. s.leaf = nd.leaf
    BY <1>6, BothEnts
  <2> QED  BY <1>2, <1>6, <2>1 DEF Fit
<1>8. PICK l2 : l2 = Lefter(s, nd, e)
  OBVIOUS
<1>9. CASE nd.end + l2.end > PgSize
  <2>1. PICK r, p : r = Redistrib(l2, nd) /\ p = Promote(r)
    OBVIOUS
  <2>2. x = IF r.moved = 0 THEN w ELSE AdoptLeft(w, i, p)
    BY <1>1, <1>5, <1>8, <1>9, <2>1 DEF JoinLeft, ShareLeft
  <2>3. CASE r.moved = 0
    BY <2>2, <2>3, OutcomeSame
  <2>4. CASE r.moved # 0
    <3>1. Divided(z, p, M[i + 1], M[i + 2], nd.leaf, Usual(nd.leaf)) /\ p.left.end =< PgSize
      BY <1>6, <1>7, <1>8, <2>1, <2>4, SharedLeft
    <3>2. x = AdoptLeft(w, i, p)
      BY <2>2, <2>4
    <3> QED  BY <1>4, <3>1, <3>2, AdoptLeftGood
  <2> QED  BY <2>3, <2>4
<1>10. CASE ~(nd.end + l2.end > PgSize)
  <2>1. PICK m : m = Moveleft(l2, nd, Count(nd)).left
    OBVIOUS
  <2>2. x = Merge(w, i, m)
    BY <1>1, <1>5, <1>8, <1>10, <2>1 DEF JoinLeft
  <2>3. m \in NodeType /\ Sound(z, m, Join(M[i + 1], M[i + 2]))
    BY <1>6, <1>7, <1>8, <2>1, JoinedLeft
  <2>4. Going(w, z, M, v, {w.idx + 1}) /\ {w.idx + 1} \subseteq {i + 1, i + 2}
    BY <1>2, <1>4
  <2> QED  BY <1>4, <2>2, <2>3, <2>4, MergeGood
<1> QED  BY <1>9, <1>10

LEMMA SpreadRightGood ==
    ASSUME NEW w, NEW z, NEW M, NEW v, Ready(w, z, M, v), Count(w.parent) # w.idx,
           NEW x, x = SpreadRight(w), ~x.bad, 0 \notin x.made
    PROVE  \E y, N : Outcome(w, z, x, y, N, v)
<1>1. PICK i, nd, s, e : /\ i = w.idx /\ nd = w.node
                         /\ s = Getnode(w.disk, Kid(w.parent, i + 1)) /\ e = Entry(w.parent, i)
  OBVIOUS
<1>2. /\ Going(w, z, M, v, {w.idx + 1}) /\ Fit(nd) /\ Fields(w) /\ w.idx \in 0 .. Len(w.parent.ents)
      /\ Par(z, w.parent, M, v, {w.idx + 1})
  BY <1>1 DEF Ready, Going
<1>3. Len(w.parent.ents) \in Nat /\ w.idx # Len(w.parent.ents)
  BY <1>2, ParIs DEF Count
<1>4. i \in 0 .. Len(w.parent.ents) - 1 /\ w.idx = i /\ i + 1 # w.idx /\ i \in Nat
  BY <1>1, <1>2, <1>3
<1>5. Chkpage(w.disk[Kid(w.parent, i + 1)]) /\ x = JoinRight(w, i, Righter(nd, s, e))
  <2>1. x = IF ~Chkpage(w.disk[Kid(w.parent, i + 1)]) THEN [w EXCEPT !.bad = TRUE]
            ELSE JoinRight(w, i, ReachRight(nd, s, e))
    BY <1>1 DEF SpreadRight
  <2>2. Chkpage(w.disk[Kid(w.parent, i + 1)])
    BY <2>1, <1>2 DEF Fields
  <2>3. ReachRight(nd, s, e) = Righter(nd, s, e)
    BY DEF ReachRight, Righter
  <2> QED  BY <2>1, <2>2, <2>3
<1>6. Fit(s) /\ s.end =< PgSize /\ Adjoin(z, nd, s, M[i + 1], M[i + 2], e)
  <2>1. i + 1 \in {i, i + 1} /\ w.idx \in {i, i + 1}
    BY <1>4
  <2> QED  BY <1>1, <1>4, <1>5, <2>1, Siblings
<1>7. Exact(s) /\ Exact(nd) /\ nd.ovh = s.ovh /\ nd.ovh = Usual(nd.leaf) /\ s \in NodeType /\ nd \in NodeType
  <2>1. s.leaf = nd.leaf
    BY <1>6, BothEnts
  <2> QED  BY <1>2, <1>6, <2>1 DEF Fit
<1>8. PICK r2 : r2 = Righter(nd, s, e)
  OBVIOUS
<1>9. CASE nd.end + r2.end > PgSize
  <2>1. PICK r, p : r = Redistrib(nd, r2) /\ p = Promote(r)
    OBVIOUS
  <2>2. x = IF r.moved = 0 THEN w ELSE AdoptRight(w, i, p)
    BY <1>1, <1>5, <1>8, <1>9, <2>1 DEF JoinRight, ShareRight
  <2>3. CASE r.moved = 0
    BY <2>2, <2>3, OutcomeSame
  <2>4. CASE r.moved # 0
    <3>1. Divided(z, p, M[i + 1], M[i + 2], nd.leaf, Usual(nd.leaf)) /\ p.right.end =< PgSize
      BY <1>6, <1>7, <1>8, <2>1, <2>4, SharedRight
    <3>2. x = AdoptRight(w, i, p) /\ i # Len(w.parent.ents)
      BY <2>2, <2>4, <1>3, <1>4
    <3> QED  BY <1>4, <3>1, <3>2, AdoptRightGood
  <2> QED  BY <2>3, <2>4
<1>10. CASE ~(nd.end + r2.end > PgSize)
  <2>1. PICK m : m = Moveright(nd, r2, Count(nd)).right
    OBVIOUS
  <2>2. x = Merge(w, i, m)
    BY <1>1, <1>5, <1>8, <1>10, <2>1 DEF JoinRight
  <2>3. m \in NodeType /\ Sound(z, m, Join(M[i + 1], M[i + 2]))
    BY <1>6, <1>7, <1>8, <2>1, JoinedRight
  <2>4. Going(w, z, M, v, {w.idx + 1}) /\ {w.idx + 1} \subseteq {i + 1, i + 2}
    BY <1>2, <1>4
  <2> QED  BY <1>4, <2>2, <2>3, <2>4, MergeGood
<1> QED  BY <1>9, <1>10

(* Pages once captured stay so. *)
Grows(w, x) == Fields(x) /\ w.made \subseteq x.made
LEMMA GrowsThen ==
    ASSUME NEW w, NEW x, NEW y, Grows(w, x), Grows(x, y)
    PROVE  Grows(w, y)
BY DEF Grows
LEMMA ReposGrows ==
    ASSUME NEW w, Fields(w), NEW i, NEW nd
    PROVE  Grows(w, Repos(w, i, nd)) /\ Grows(w, Adopt1(w, i, nd))
<1>1. Reposed(Repos(w, i, nd), w, i, nd)
  BY ReposIs
<1>2. Grows(w, Repos(w, i, nd))
  BY <1>1 DEF Reposed, Grows
<1> QED  BY <1>2 DEF Adopt1, Grows
LEMMA AdoptGrows ==
    ASSUME NEW w, Fields(w), NEW i, NEW p, NEW j, NEW nd
    PROVE  Grows(w, Adopted(Adopt(w, i, p), j, nd))
<1>1. PICK w0, w1, w2, w3, x : /\ w0 = [w EXCEPT !.parent = Modpage(@, i, p.entry)]
                        /\ w1 = Adopt1(w0, i, p.left) /\ w2 = Adopt1(w1, i + 1, p.right)
                        /\ w3 = Adopt(w, i, p) /\ x = Adopted(w3, j, nd)
  OBVIOUS
<1>2. w3 = [w2 EXCEPT !.done = ~(p.left.end > PgSize \/ p.right.end > PgSize)]
  BY <1>1 DEF Adopt
<1>3. Grows(w, w0)
  BY <1>1 DEF Grows, Fields
<1>4. Grows(w0, w1)
  BY <1>1, <1>3, ReposGrows DEF Grows
<1>5. Grows(w1, w2)
  BY <1>1, <1>4, ReposGrows DEF Grows
<1>6. Grows(w2, w3)
  BY <1>2, <1>5 DEF Grows, Fields
<1>7. Grows(w3, x)
  <2>1. Fields(w3)
    BY ONLY <1>6 DEF Grows
  <2>2. Renamed(x, w3, j, nd)
    BY ONLY <1>1, <2>1, AdoptedIs
  <2> QED  BY ONLY <2>1, <2>2 DEF Renamed, Grows, Fields
<1> QED  BY <1>1, <1>3, <1>4, <1>5, <1>6, <1>7, GrowsThen
LEMMA MergeGrows ==
    ASSUME NEW w, Fields(w), NEW i, NEW nd
    PROVE  Grows(w, Merge(w, i, nd))
<1>1. PICK w0, a, x : /\ w0 = [w EXCEPT !.parent = Delpage(@, i)] /\ a = Repos(w0, i, nd)
                      /\ x = Merge(w, i, nd)
  OBVIOUS
<1>2. x = [a EXCEPT !.list2 = Append(@, w.node.page), !.done = TRUE]
  BY <1>1 DEF Merge
<1>3. Grows(w, w0)
  BY <1>1 DEF Grows, Fields
<1>4. Grows(w0, a)
  BY <1>1, <1>3, ReposGrows DEF Grows
<1>5. Grows(a, x)
  BY <1>2, <1>4 DEF Grows, Fields
<1> QED  BY <1>1, <1>3, <1>4, <1>5, GrowsThen
LEMMA SpreadGrows ==
    ASSUME NEW w, Fields(w)
    PROVE  Grows(w, SpreadRight(w)) /\ Grows(w, SpreadLeft(w))
<1>1. Grows(w, w)
  BY DEF Grows
<1>2. ASSUME NEW i, NEW s
      PROVE  Grows(w, JoinRight(w, i, s)) /\ Grows(w, JoinLeft(w, i, s))
  <2>1. \A r : Grows(w, ShareRight(w, i, r)) /\ Grows(w, ShareLeft(w, i, r))
    BY <1>1, AdoptGrows DEF ShareRight, ShareLeft, AdoptRight, AdoptLeft
  <2>2. \A m : Grows(w, Merge(w, i, m))
    BY MergeGrows
  <2> QED  BY <2>1, <2>2 DEF JoinRight, JoinLeft
<1>3. Grows(w, [w EXCEPT !.bad = TRUE])
  BY DEF Grows, Fields
<1> QED  BY <1>2, <1>3 DEF SpreadRight, SpreadLeft

LEMMA OutcomeThen ==
    ASSUME NEW w, NEW z, NEW M, NEW v, NEW x, NEW y, NEW N, NEW w1, NEW y1, NEW N1,
           Outcome(w, z, w1, y1, N1, v), ~w1.done, Outcome(w1, y1, x, y, N, v)
    PROVE  Outcome(w, z, x, y, N, v)
<1>1. Later(w, z, x, y, v.h - 1)
  BY LaterThen DEF Outcome
<1> QED  BY <1>1 DEF Outcome

(* _spread(). *)
LEMMA SpreadGood ==
    ASSUME NEW w, NEW z, NEW M, NEW v, Ready(w, z, M, v),
           NEW x, x = Spread(w), ~x.bad, 0 \notin x.made
    PROVE  \E y, N : Outcome(w, z, x, y, N, v)
<1>1. PICK w1 : w1 = IF w.idx > 0 THEN SpreadLeft(w) ELSE w
  OBVIOUS
<1>2. x = ThenRight(w1)
  BY <1>1 DEF Spread
<1>3. Fields(w)
  BY DEF Ready, Going
<1>4. Fields(w1)
  BY <1>1, <1>3, SpreadGrows DEF Grows
<1>5. ~w1.bad /\ 0 \notin w1.made
  <2>1. CASE ~w1.done /\ ~w1.bad /\ Count(w1.parent) # w1.idx
    <3>1. x = SpreadRight(w1)
      BY <1>2, <2>1 DEF ThenRight
    <3> QED  BY <2>1, <3>1, <1>4, SpreadGrows DEF Grows
  <2>2. CASE ~(~w1.done /\ ~w1.bad /\ Count(w1.parent) # w1.idx)
    BY <1>2, <2>2 DEF ThenRight
  <2> QED  BY <2>1, <2>2
<1>6. PICK y1, N1 : Outcome(w, z, w1, y1, N1, v)
  <2>1. CASE w.idx > 0
    <3>1. w1 = SpreadLeft(w)
      BY <1>1, <2>1
    <3>2. \E y, N : Outcome(w, z, w1, y, N, v)
      BY <1>5, <2>1, <3>1, SpreadLeftGood
    <3> QED  BY <3>2
  <2>2. CASE ~(w.idx > 0)
    BY <1>1, <2>2, OutcomeSame
  <2> QED  BY <2>1, <2>2
<1>7. CASE ~w1.done /\ Count(w1.parent) # w1.idx
  <2>1. x = SpreadRight(w1)
    BY <1>2, <1>5, <1>7 DEF ThenRight
  <2>2. Ready(w1, y1, N1, v)
    BY <1>6, <1>7 DEF Outcome
  <2>3. PICK y, N : Outcome(w1, y1, x, y, N, v)
    BY <1>7, <2>1, <2>2, SpreadRightGood
  <2> QED  BY <1>6, <1>7, <2>3, OutcomeThen
<1>8. CASE ~(~w1.done /\ Count(w1.parent) # w1.idx)
  <2>1. x = w1
    BY <1>2, <1>8 DEF ThenRight
  <2> QED  BY <1>6, <2>1
<1> QED  BY <1>7, <1>8

(* _split(): a round of its loop. *)
Splitting(w, z, M, v) ==
    /\ Going(w, z, M, v, {w.idx + 1}) /\ w.idx \in 0 .. Len(w.parent.ents)
    /\ w.node \in NodeType /\ Short(w.node) /\ w.node.ovh = Usual(w.node.leaf)
    /\ Sound(z, w.node, M[w.idx + 1])
LEMMA SplitOnceGood ==
    ASSUME NEW w, NEW z, NEW M, NEW v, Splitting(w, z, M, v), w.node.end > PgSize,
           NEW x, x = SplitOnce(w), 0 \notin x.made
    PROVE  \E y, N : Splitting(x, y, N, v) /\ Later(w, z, x, y, v.h - 1)
<1>1. PICK n, nd, q, d, i, u :
         n = Capture(w) /\ nd = w.node /\ q = w.parent /\ d = w.disk /\ i = w.idx /\ u = M[i + 1]
  OBVIOUS
<1>2. PICK p, e, r : p = SplitTail(nd, Freshnode(n, nd.leaf)) /\ e = p.entry /\ r = p.right
  OBVIOUS
<1>3. PICK m, S : m = Addpage(q, i, e) /\ S = {i + 1}
  OBVIOUS
<1>4. /\ Fields(w) /\ Trees(d, z) /\ Par(z, q, M, v, S) /\ i \in 0 .. Len(q.ents)
      /\ nd \in NodeType /\ Short(nd) /\ nd.ovh = Usual(nd.leaf) /\ Sound(z, nd, u)
  BY <1>1, <1>3 DEF Splitting, Going
<1>5. x = SplitOff(w, p)
  BY <1>1, <1>2 DEF SplitOnce
<1>6. /\ Fields(x) /\ x.disk = Putnode(d, r) /\ x.made = w.made \cup {r.page}
      /\ x.parent = SetKid(m, i + 1, r.page) /\ x.node = p.left /\ x.idx = i /\ x.bad = w.bad
  BY <1>1, <1>2, <1>3, <1>4, <1>5 DEF SplitOff, Fields
<1>7. n \in Int
  <2>1. n = Unused(DOMAIN d \cup w.made)
    BY <1>1 DEF Capture
  <2>2. n = 0 \/ n \in Nat \ {0}
    BY <2>1, UnusedIs
  <2> QED  BY <2>2
<1>8. Cut(z, p, u, nd, n)
  <2>1. nd.end > PgSize /\ nd.ovh = (IF nd.leaf THEN LeafOvh ELSE IndexOvh)
    BY <1>1, <1>4 DEF Usual
  <2> QED  BY <1>2, <1>4, <1>7, <2>1, SplitTailIs
<1>9. /\ Sep(e) /\ u.lo < e.key /\ Before(e.key, u.hi)
      /\ p.left \in NodeType /\ Short(p.left) /\ Same(p.left, nd)
      /\ r \in NodeType /\ r.page = n
      /\ Sound(z, p.left, Under(u, e.key)) /\ Sound(z, r, From(u, e.key))
  BY <1>2, <1>8 DEF Cut
<1>10. n \in Page /\ n \notin DOMAIN d /\ n \notin w.made /\ n \in Nat
  <2>1. Unused(DOMAIN d \cup w.made) # 0 /\ n = Unused(DOMAIN d \cup w.made)
    BY <1>1, <1>6, <1>9 DEF Capture
  <2>2. n \in Page /\ n \notin DOMAIN d \cup w.made /\ n \in Nat \ {0}
    BY ONLY <2>1, UnusedIs
  <2> QED  BY <2>2
<1>11. PICK N : Cuts(z, m, N, q, M, v, i, e)
  <2>1. M[i + 1].lo < e.key /\ Before(e.key, M[i + 1].hi) /\ S \subseteq {i + 1}
    BY <1>1, <1>3, <1>9
  <2>2. \E N : Cuts(z, Addpage(q, i, e), N, q, M, v, i, e)
    BY ONLY <1>4, <1>9, <2>1, ParSplit
  <2> QED  BY <2>2, <1>3
<1>12. /\ Par(z, m, N, v, {i + 1, i + 2}) /\ Same(m, q) /\ Len(m.ents) = Len(q.ents) + 1
       /\ N[i + 1] = Under(u, e.key) /\ N[i + 2] = From(u, e.key)
  BY <1>1, <1>11 DEF Cuts
<1>13. PICK y, b, T, c : y = Add(z, r.page, b) /\ b = N[i + 2] /\ T = {i + 1, i + 2} /\ c = i + 1
  OBVIOUS
<1>14. Trees(Putnode(d, r), y) /\ Extends(z, y) /\ DOMAIN y = DOMAIN z \cup {n} /\ y[n] = b
  <2>1. r.page \notin DOMAIN z
    BY <1>4, <1>9, <1>10 DEF Trees
  <2>2. Trees(d, z) /\ Sound(z, r, b)
    BY <1>4, <1>9, <1>12, <1>13
  <2>3. Trees(Putnode(d, r), Add(z, r.page, b)) /\ Extends(z, Add(z, r.page, b))
    BY ONLY <2>1, <2>2, AddGood
  <2> QED  BY <2>3, <1>9, <1>13 DEF Add
<1>15. /\ Par(y, SetKid(m, c, n), N, v, T \ {c + 1}) /\ Same(SetKid(m, c, n), m)
       /\ ButFor(SetKid(m, c, n), m, c)
  <2>1. Par(z, m, N, v, T) /\ T \subseteq T
    BY <1>12, <1>13
  <2>2. Par(y, m, N, v, T)
    BY ONLY <2>1, <1>14, ParMore
  <2>3. Len(q.ents) \in Nat
    BY <1>4, ParIs
  <2>4. c + 1 = i + 2 /\ c \in 0 .. Len(m.ents)
    BY <2>3, <1>4, <1>12, <1>13
  <2>5. n \in Int /\ n \in DOMAIN y /\ y[n] = N[c + 1]
    BY <1>7, <1>13, <1>14, <2>4
  <2> QED  BY ONLY <2>2, <2>4, <2>5, ParPlace
<1>16. x.parent = SetKid(m, c, n) /\ T \ {c + 1} = {x.idx + 1}
  <2>1. i + 1 # i + 2 /\ c + 1 = i + 2
    BY <1>4, <1>13
  <2> QED  BY <2>1, <1>6, <1>9, <1>13
<1>17. Going(x, y, N, v, {x.idx + 1})
  BY <1>6, <1>14, <1>15, <1>16 DEF Going
<1>18. x.idx \in 0 .. Len(x.parent.ents)
  <2>1. Len(q.ents) \in Nat
    BY <1>4, ParIs
  <2>2. Len(x.parent.ents) = Len(q.ents) + 1
    BY <1>12, <1>15, <1>16 DEF ButFor
  <2> QED  BY <2>1, <2>2, <1>4, <1>6
<1>19. Sound(y, x.node, N[x.idx + 1])
  BY <1>6, <1>9, <1>12, <1>14, SoundMore
<1>20. x.node \in NodeType /\ Short(x.node) /\ x.node.ovh = Usual(x.node.leaf)
  BY <1>4, <1>6, <1>9 DEF Same
<1>21. Splitting(x, y, N, v)
  BY <1>17, <1>18, <1>19, <1>20 DEF Splitting
<1>22. b.h = v.h - 1
  <2>1. \A j \in 1 .. Len(m.ents) + 1 : N[j].h = v.h - 1
    BY <1>12, ParIs
  <2>2. Len(q.ents) \in Nat
    BY <1>4, ParIs
  <2>3. i + 2 \in 1 .. Len(m.ents) + 1
    BY <1>4, <1>12, <2>2
  <2> QED  BY <2>1, <2>3, <1>13
<1>23. DOMAIN Putnode(d, r) = DOMAIN d \cup {n} /\ Extends(d, Putnode(d, r))
  BY <1>9, <1>10 DEF Putnode, Extends
<1>24. x.parent.page = q.page /\ x.parent.ovh = q.ovh
  BY <1>12, <1>15, <1>16 DEF Same
<1>25. Later(w, z, x, y, v.h - 1)
  BY <1>1, <1>6, <1>9, <1>10, <1>14, <1>22, <1>23, <1>24 DEF Later
<1> QED  BY <1>21, <1>25

LEMMA SplitGood ==
    ASSUME NEW w, NEW z, NEW M, NEW v, Ready(w, z, M, v), w.node.end > PgSize,
           NEW x, x = Split(w), 0 \notin x.made
    PROVE  \E y, N : Going(x, y, N, v, {}) /\ Later(w, z, x, y, v.h - 1)
<1>1. PICK w1, w2 : w1 = SplitOnce(w) /\ w2 = SplitAgain(w1)
  OBVIOUS
<1>2. x = Repos(w2, w2.idx, w2.node)
  BY <1>1 DEF Split, ReposNode
<1>3. Splitting(w, z, M, v) /\ Fields(w)
  <2>1. w.node.end \in Int
    BY DEF Ready, Fit, NodeType
  <2>2. Short(w.node)
    BY <2>1 DEF Ready, Fit, Exact, Short
  <2> QED  BY <2>2 DEF Splitting, Ready, Fit, Going
<1>4. ASSUME NEW u, Fields(u)
      PROVE  Grows(u, SplitOnce(u))
  <2>1. PICK p : SplitOnce(u) = SplitOff(u, p)
    BY DEF SplitOnce
  <2> QED  BY <1>4, <2>1 DEF SplitOff, Grows, Fields
<1>5. Grows(w, w1)
  BY <1>1, <1>3, <1>4
<1>6. Grows(w1, w2)
  BY <1>1, <1>4, <1>5 DEF SplitAgain, Grows
<1>7. Grows(w2, x)
  BY <1>2, <1>6, ReposGrows DEF Grows
<1>8. 0 \notin w1.made /\ 0 \notin w2.made
  BY <1>6, <1>7 DEF Grows
<1>9. PICK y1, N1 : Splitting(w1, y1, N1, v) /\ Later(w, z, w1, y1, v.h - 1)
  BY <1>1, <1>3, <1>8, SplitOnceGood
<1>10. PICK y2, N2 : Splitting(w2, y2, N2, v) /\ Later(w1, y1, w2, y2, v.h - 1)
  <2>1. CASE w1.node.end > PgSize
    <3>1. w2 = SplitOnce(w1)
      BY <1>1, <2>1 DEF SplitAgain
    <3> QED  BY <1>8, <1>9, <2>1, <3>1, SplitOnceGood
  <2>2. CASE ~(w1.node.end > PgSize)
    <3>1. w2 = w1
      BY <1>1, <2>2 DEF SplitAgain
    <3>2. Later(w1, y1, w2, y1, v.h - 1)
      BY <3>1, LaterSame
    <3> QED  BY <1>9, <3>1, <3>2
  <2> QED  BY <2>1, <2>2
<1>11. PICK i, nd : i = w2.idx /\ nd = w2.node
  OBVIOUS
<1>12. /\ Going(w2, y2, N2, v, {i + 1}) /\ i \in 0 .. Len(w2.parent.ents) /\ nd \in NodeType
       /\ Sound(y2, nd, N2[i + 1])
  BY <1>10, <1>11 DEF Splitting
<1>13. \E y : Going(x, y, N2, v, {i + 1} \ {i + 1}) /\ Later(w2, y2, x, y, v.h - 1)
  <2>1. x = Repos(w2, i, nd) /\ 0 \notin x.made
    BY <1>2, <1>11
  <2> QED  BY ONLY <1>12, <2>1, ReposGood
<1>14. PICK y : Going(x, y, N2, v, {i + 1} \ {i + 1}) /\ Later(w2, y2, x, y, v.h - 1)
  BY <1>13
<1>15. {i + 1} \ {i + 1} = {}
  OBVIOUS
<1>16. Later(w, z, x, y, v.h - 1)
  BY <1>9, <1>10, <1>14, LaterThen
<1> QED  BY <1>14, <1>15, <1>16

-----------------------------------------------------------------------------
(* What a page that is right for label v says of the pages below it.       *)
IsIndex(z, pg, v) ==
    /\ v.h > 1 /\ Len(pg.kids) \in Nat /\ Len(pg.kids) = Len(pg.ents) + 1 /\ pg.kids \in Seq(Int)
    /\ DOMAIN pg.kids = 1 .. Len(pg.kids)
    /\ \A j \in 1 .. Len(pg.kids) : pg.kids[j] \in DOMAIN z /\ z[pg.kids[j]].h = v.h - 1
    /\ \A j \in 1 .. Len(pg.kids) : z[pg.kids[j]] \in Label
    /\ \A e : e \in v.c <=> \E j \in 1 .. Len(pg.kids) : e \in z[pg.kids[j]].c
    /\ \A k \in Nat : \A j \in 1 .. Len(pg.kids) :
          Within(z[pg.kids[j]], k) => Within(v, k) /\ j = ChildIndex(pg.ents, k) + 1
    /\ \A k \in Nat : ChildIndex(pg.ents, k) + 1 \in 1 .. Len(pg.kids)
    /\ \A k \in Nat : Within(v, k) => Within(z[pg.kids[ChildIndex(pg.ents, k) + 1]], k)
IsLeaf(pg, v) == v.h = 1 /\ \A e : e \in v.c <=> \E i \in DOMAIN pg.ents : e = pg.ents[i]

LEMMA IndexIs ==
    ASSUME NEW z, NEW pg, NEW v, Sound(z, pg, v), ~pg.leaf
    PROVE  IsIndex(z, pg, v)
<1>1. PICK s, L, c, n : s = pg.ents /\ L = Kids(z, pg) /\ c = pg.kids /\ n = Len(s)
  OBVIOUS
<1>2. /\ v \in Label /\ s \in Seq(Ent) /\ c \in Seq(Int) /\ Rising(s) /\ Len(c) = n + 1
      /\ (\A j \in 1 .. Len(c) : c[j] \in DOMAIN z) /\ Spans(s, L, v)
  BY <1>1 DEF Sound
<1>3. n \in Nat /\ Len(c) \in Nat /\ DOMAIN c = 1 .. Len(c)
  BY <1>1, <1>2
<1>4. \A j \in 1 .. Len(c) : L[j] = z[c[j]]
  BY <1>1 DEF Kids
<1>5. /\ v.h > 1 /\ (\A j \in 1 .. n + 1 : L[j] \in Label /\ L[j].h = v.h - 1)
      /\ \A e : e \in v.c <=> \E j \in 1 .. n + 1 : e \in L[j].c
  BY <1>1, <1>2 DEF Spans
<1>6. ASSUME NEW k \in Nat
      PROVE  /\ ChildIndex(s, k) \in 0 .. n
             /\ Within(v, k) => Within(L[ChildIndex(s, k) + 1], k)
             /\ \A j \in 1 .. n + 1 : Within(L[j], k) => Within(v, k) /\ j = ChildIndex(s, k) + 1
  <2>1. ChildIndex(s, k) \in 0 .. Len(s)
    BY ONLY <1>2, <1>6, ChildIs
  <2>2. /\ Within(v, k) => Within(L[ChildIndex(s, k) + 1], k)
        /\ \A j \in 1 .. Len(s) + 1 :
              Within(L[j], k) => Within(v, k) /\ j = ChildIndex(s, k) + 1
    BY ONLY <1>2, <1>6, ChildWithin
  <2> QED  BY ONLY <2>1, <2>2, <1>1
<1>7. \A k \in Nat : ChildIndex(s, k) + 1 \in 1 .. Len(c)
  <2> TAKE k \in Nat
  <2>1. ChildIndex(s, k) \in 0 .. n
    BY ONLY <1>6
  <2> QED  BY ONLY <2>1, <1>2, <1>3
<1>8. \A j \in 1 .. Len(c) : z[c[j]] \in Label /\ z[c[j]].h = v.h - 1
  BY <1>2, <1>4, <1>5
<1>9. \A e : e \in v.c <=> \E j \in 1 .. Len(c) : e \in z[c[j]].c
  BY <1>2, <1>4, <1>5
<1>10. \A k \in Nat : \A j \in 1 .. Len(c) :
          Within(z[c[j]], k) => Within(v, k) /\ j = ChildIndex(s, k) + 1
  <2> TAKE k \in Nat
  <2>1. \A j \in 1 .. n + 1 : Within(L[j], k) => Within(v, k) /\ j = ChildIndex(s, k) + 1
    BY ONLY <1>6
  <2> QED  BY <2>1, <1>2, <1>4
<1>11. \A k \in Nat : Within(v, k) => Within(z[c[ChildIndex(s, k) + 1]], k)
  <2> TAKE k \in Nat
  <2>1. Within(v, k) => Within(L[ChildIndex(s, k) + 1], k)
    BY ONLY <1>6
  <2>2. L[ChildIndex(s, k) + 1] = z[c[ChildIndex(s, k) + 1]]
    BY <1>4, <1>7
  <2> QED  BY ONLY <2>1, <2>2
<1> QED  BY ONLY <1>1, <1>2, <1>3, <1>5, <1>7, <1>8, <1>9, <1>10, <1>11 DEF IsIndex

LEMMA LeafPageIs ==
    ASSUME NEW z, NEW pg, NEW v, Sound(z, pg, v), pg.leaf
    PROVE  IsLeaf(pg, v)
<1>1. Holds(pg.ents, v) /\ DOMAIN pg.ents = 1 .. Len(pg.ents)
  BY DEF Sound
<1> QED  BY <1>1 DEF Holds, IsLeaf

-----------------------------------------------------------------------------
(* The levels of a tree and the way to a key, for pages d, root r and n    *)
(* levels.                                                                 *)
LevelsFrom(d, r, n, f) ==
    f = [i \in 1 .. n |-> IF i = 1 THEN {r} ELSE UNION {ToSet(d[m].kids) : m \in f[i - 1]}]
LevelsOf(d, r, n) == CHOOSE f : LevelsFrom(d, r, n, f)
PathFrom(d, r, n, k, f) ==
    f = [i \in 1 .. n |->
           IF i = 1 THEN r
           ELSE LET above == d[f[i - 1]] IN above.kids[ChildIndex(above.ents, k) + 1]]
PathOf(d, r, n, k) == CHOOSE f : PathFrom(d, r, n, k, f)

LEMMA LevelsExist ==
    ASSUME NEW d, NEW r, NEW n \in Nat
    PROVE  \E f : LevelsFrom(d, r, n, f)
<1> DEFINE Bad == {q \in Nat : ~\E f : LevelsFrom(d, r, q, f)}
<1>1. \E f : LevelsFrom(d, r, 0, f)
  <2> DEFINE f == [i \in 1 .. 0 |-> 0]
  <2>1. LevelsFrom(d, r, 0, f)
    BY DEF LevelsFrom
  <2> QED  BY <2>1
<1>2. ASSUME NEW q \in Nat, NEW f, LevelsFrom(d, r, q, f)
      PROVE  \E g : LevelsFrom(d, r, q + 1, g)
  <2> DEFINE g == [i \in 1 .. q + 1 |->
                     IF i = 1 THEN {r} ELSE UNION {ToSet(d[m].kids) : m \in f[i - 1]}]
             h == [i \in 1 .. q + 1 |->
                     IF i = 1 THEN {r} ELSE UNION {ToSet(d[m].kids) : m \in g[i - 1]}]
  <2>1. ASSUME NEW i \in 1 .. q PROVE g[i] = f[i]
    <3>1. i \in 1 .. q + 1
      OBVIOUS
    <3>2. f = [j \in 1 .. q |-> IF j = 1 THEN {r} ELSE UNION {ToSet(d[m].kids) : m \in f[j - 1]}]
      BY <1>2 DEF LevelsFrom
    <3>3. f[i] = IF i = 1 THEN {r} ELSE UNION {ToSet(d[m].kids) : m \in f[i - 1]}
      BY <3>2
    <3>4. g[i] = IF i = 1 THEN {r} ELSE UNION {ToSet(d[m].kids) : m \in f[i - 1]}
      BY <3>1
    <3> QED  BY ONLY <3>3, <3>4
  <2>2. ASSUME NEW i \in 1 .. q + 1 PROVE g[i] = h[i]
    <3>1. i # 1 => i - 1 \in 1 .. q
      OBVIOUS
    <3>2. i # 1 => g[i - 1] = f[i - 1]
      BY <3>1, <2>1
    <3> QED  BY <3>2
  <2>3. g = h
    BY <2>2, ZenonT(60)
  <2> QED  BY <2>3 DEF LevelsFrom
<1>3. Bad = {}
  <2> SUFFICES ASSUME Bad # {} PROVE FALSE
    OBVIOUS
  <2>1. Bad \in SUBSET Nat
    OBVIOUS
  <2>2. PICK q \in Bad : \A m \in Bad : q =< m
    BY <2>1, LeastNumber
  <2>3. q \in Nat /\ q # 0
    BY <1>1, <2>2
  <2>4. q - 1 \in Nat /\ q - 1 \notin Bad /\ (q - 1) + 1 = q
    BY <2>2, <2>3
  <2>5. PICK f : LevelsFrom(d, r, q - 1, f)
    BY <2>4
  <2>6. \E g : LevelsFrom(d, r, (q - 1) + 1, g)
    BY <1>2, <2>4, <2>5
  <2> QED  BY <2>2, <2>4, <2>6
<1> QED  BY <1>3

LEMMA PathExists ==
    ASSUME NEW d, NEW r, NEW k, NEW n \in Nat
    PROVE  \E f : PathFrom(d, r, n, k, f)
<1> DEFINE Bad == {q \in Nat : ~\E f : PathFrom(d, r, q, k, f)}
<1>1. \E f : PathFrom(d, r, 0, k, f)
  <2> DEFINE f == [i \in 1 .. 0 |-> 0]
  <2>1. PathFrom(d, r, 0, k, f)
    BY DEF PathFrom
  <2> QED  BY <2>1
<1>2. ASSUME NEW q \in Nat, NEW f, PathFrom(d, r, q, k, f)
      PROVE  \E g : PathFrom(d, r, q + 1, k, g)
  <2> DEFINE Next1(x) == d[x].kids[ChildIndex(d[x].ents, k) + 1]
             g == [i \in 1 .. q + 1 |-> IF i = 1 THEN r ELSE Next1(f[i - 1])]
             h == [i \in 1 .. q + 1 |-> IF i = 1 THEN r ELSE Next1(g[i - 1])]
  <2>1. ASSUME NEW i \in 1 .. q PROVE g[i] = f[i]
    <3>1. i \in 1 .. q + 1
      OBVIOUS
    <3>2. f = [j \in 1 .. q |-> IF j = 1 THEN r ELSE Next1(f[j - 1])]
      BY <1>2 DEF PathFrom
    <3>3. f[i] = IF i = 1 THEN r ELSE Next1(f[i - 1])
      BY <3>2
    <3>4. g[i] = IF i = 1 THEN r ELSE Next1(f[i - 1])
      BY <3>1
    <3> QED  BY ONLY <3>3, <3>4
  <2>2. ASSUME NEW i \in 1 .. q + 1 PROVE g[i] = h[i]
    <3>1. i # 1 => i - 1 \in 1 .. q
      OBVIOUS
    <3>2. i # 1 => g[i - 1] = f[i - 1]
      BY <3>1, <2>1
    <3> QED  BY <3>2
  <2>3. g = h
    BY <2>2
  <2> QED  BY <2>3 DEF PathFrom
<1>3. Bad = {}
  <2> SUFFICES ASSUME Bad # {} PROVE FALSE
    OBVIOUS
  <2>1. Bad \in SUBSET Nat
    OBVIOUS
  <2>2. PICK q \in Bad : \A m \in Bad : q =< m
    BY <2>1, LeastNumber
  <2>3. q \in Nat /\ q # 0
    BY <1>1, <2>2
  <2>4. q - 1 \in Nat /\ q - 1 \notin Bad /\ (q - 1) + 1 = q
    BY <2>2, <2>3
  <2>5. PICK f : PathFrom(d, r, q - 1, k, f)
    BY <2>4
  <2>6. \E g : PathFrom(d, r, (q - 1) + 1, k, g)
    BY <1>2, <2>4, <2>5
  <2> QED  BY <2>2, <2>4, <2>6
<1> QED  BY <1>3

(* Pages d with root r are a search tree of n levels, as z tells.          *)
Rooted(z, d, r, n) ==
    /\ Trees(d, z) /\ n \in Nat /\ n > 0
    /\ r \in DOMAIN z /\ z[r].h = n /\ z[r].lo = 0 /\ z[r].hi = -1

Child(d, m, q) == \E j \in 1 .. Len(d[m].kids) : q = d[m].kids[j]
LevelAt(z, r, n, L, i) ==
    /\ \A m \in L[i] : m \in DOMAIN z /\ z[m].h = n + 1 - i
    /\ \A e : e \in z[r].c <=> \E m \in L[i] : e \in z[m].c
    /\ \A k \in Nat : \A m, q \in L[i] : Within(z[m], k) /\ Within(z[q], k) => m = q
LevelsRight(z, d, r, n, L) ==
    /\ DOMAIN L = 1 .. n /\ L[1] = {r}
    /\ \A i \in 1 .. n : i + 1 \in 1 .. n =>
          \A q : q \in L[i + 1] <=> \E m \in L[i] : Child(d, m, q)
    /\ \A i \in 1 .. n : LevelAt(z, r, n, L, i)

(* A page above the leaves. *)
LEMMA RootedIndex ==
    ASSUME NEW z, NEW d, Trees(d, z), NEW m \in DOMAIN z, z[m].h # 1
    PROVE  IsIndex(z, d[m], z[m]) /\ ~d[m].leaf
<1>1. Sound(z, d[m], z[m]) /\ d[m].leaf \in BOOLEAN
  BY DEF Trees, Sound
<1>2. ~d[m].leaf
  BY <1>1, LeafPageIs DEF IsLeaf
<1> QED  BY <1>1, <1>2, IndexIs

LEMMA RootedLeaf ==
    ASSUME NEW z, NEW d, Trees(d, z), NEW m \in DOMAIN z, z[m].h = 1
    PROVE  IsLeaf(d[m], z[m]) /\ d[m].leaf
<1>1. Sound(z, d[m], z[m]) /\ d[m].leaf \in BOOLEAN
  BY DEF Trees, Sound
<1>2. ~d[m].leaf => z[m].h > 1
  BY <1>1, IndexIs DEF IsIndex
<1>3. d[m].leaf
  BY <1>1, <1>2
<1> QED  BY <1>1, <1>3, LeafPageIs

LEMMA LevelStep ==
    ASSUME NEW z, NEW d, NEW r, NEW n, Rooted(z, d, r, n), NEW L, NEW i \in 1 .. n, i + 1 \in 1 .. n,
           LevelAt(z, r, n, L, i), \A q : q \in L[i + 1] <=> \E m \in L[i] : Child(d, m, q)
    PROVE  LevelAt(z, r, n, L, i + 1)
<1>1. n \in Nat /\ Trees(d, z)
  BY DEF Rooted
<1>2. \A m \in L[i] : m \in DOMAIN z /\ z[m].h = n + 1 - i /\ n + 1 - i # 1
  BY <1>1 DEF LevelAt
<1>3. \A m \in L[i] : IsIndex(z, d[m], z[m])
  BY ONLY <1>1, <1>2, RootedIndex
<1>4. ASSUME NEW q \in L[i + 1] PROVE q \in DOMAIN z /\ z[q].h = n + 1 - (i + 1)
  <2>1. PICK m \in L[i] : Child(d, m, q)
    BY <1>4
  <2>2. q \in DOMAIN z /\ z[q].h = z[m].h - 1
    BY <1>3, <2>1 DEF IsIndex, Child
  <2> QED  BY <2>2, <1>2, <1>1
<1>5. ASSUME NEW e PROVE e \in z[r].c <=> \E q \in L[i + 1] : e \in z[q].c
  <2>1. ASSUME e \in z[r].c PROVE \E q \in L[i + 1] : e \in z[q].c
    <3>1. PICK m \in L[i] : e \in z[m].c
      BY <2>1 DEF LevelAt
    <3>2. PICK j \in 1 .. Len(d[m].kids) : e \in z[d[m].kids[j]].c
      BY <1>3, <3>1 DEF IsIndex
    <3>3. d[m].kids[j] \in L[i + 1]
      BY <3>1, <3>2 DEF Child
    <3> QED  BY <3>2, <3>3
  <2>2. ASSUME NEW q \in L[i + 1], e \in z[q].c PROVE e \in z[r].c
    <3>1. PICK m \in L[i] : Child(d, m, q)
      BY <2>2
    <3>2. e \in z[m].c
      BY <1>3, <2>2, <3>1 DEF IsIndex, Child
    <3> QED  BY <3>1, <3>2 DEF LevelAt
  <2> QED  BY <2>1, <2>2
<1>6. ASSUME NEW k \in Nat, NEW p \in L[i + 1], NEW q \in L[i + 1], Within(z[p], k), Within(z[q], k)
      PROVE  p = q
  <2>1. PICK m1 \in L[i] : Child(d, m1, p)
    BY <1>6
  <2>2. PICK m2 \in L[i] : Child(d, m2, q)
    BY <1>6
  <2>3. Within(z[m1], k) /\ p = d[m1].kids[ChildIndex(d[m1].ents, k) + 1]
    BY <1>3, <1>6, <2>1 DEF IsIndex, Child
  <2>4. Within(z[m2], k) /\ q = d[m2].kids[ChildIndex(d[m2].ents, k) + 1]
    BY <1>3, <1>6, <2>2 DEF IsIndex, Child
  <2>5. m1 = m2
    BY <2>3, <2>4, <1>6 DEF LevelAt
  <2> QED  BY ONLY <2>3, <2>4, <2>5
<1> QED  BY <1>4, <1>5, <1>6 DEF LevelAt

LEMMA LevelsAre ==
    ASSUME NEW z, NEW d, NEW r, NEW n, Rooted(z, d, r, n), NEW L, L = LevelsOf(d, r, n)
    PROVE  LevelsRight(z, d, r, n, L)
<1>1. n \in Nat /\ n > 0 /\ Trees(d, z) /\ r \in DOMAIN z /\ z[r].h = n
  BY DEF Rooted
<1>2. LevelsFrom(d, r, n, L)
  BY <1>1, LevelsExist DEF LevelsOf
<1>3. L = [i \in 1 .. n |-> IF i = 1 THEN {r} ELSE UNION {ToSet(d[m].kids) : m \in L[i - 1]}]
  BY <1>2 DEF LevelsFrom
<1>4. DOMAIN L = 1 .. n /\ 1 \in 1 .. n /\ L[1] = {r}
  BY <1>1, <1>3
<1>5. ASSUME NEW i \in 1 .. n, i + 1 \in 1 .. n
      PROVE  L[i + 1] = UNION {ToSet(d[m].kids) : m \in L[i]}
  <2>1. i + 1 # 1 /\ (i + 1) - 1 = i
    BY <1>1
  <2>2. L[i + 1] = UNION {ToSet(d[m].kids) : m \in L[(i + 1) - 1]}
    BY <1>3, <1>5, <2>1
  <2> QED  BY <2>1, <2>2
<1>6. ASSUME NEW i \in 1 .. n, i + 1 \in 1 .. n, LevelAt(z, r, n, L, i)
      PROVE  \A q : q \in L[i + 1] <=> \E m \in L[i] : Child(d, m, q)
  <2>1. \A m \in L[i] : m \in DOMAIN z /\ z[m].h = n + 1 - i /\ n + 1 - i # 1
    BY <1>1, <1>6 DEF LevelAt
  <2>2. \A m \in L[i] : IsIndex(z, d[m], z[m])
    BY ONLY <1>1, <2>1, RootedIndex
  <2>3. \A m \in L[i] : \A q : q \in ToSet(d[m].kids) <=> Child(d, m, q)
    BY <2>2 DEF IsIndex, Child, ToSet
  <2> QED  BY <2>3, <1>5, <1>6
<1>7. LevelAt(z, r, n, L, 1)
  <2>1. n + 1 - 1 = n
    BY <1>1
  <2> QED  BY <1>1, <1>4, <2>1 DEF LevelAt
<1>8. \A i \in 1 .. n : LevelAt(z, r, n, L, i)
  <2> DEFINE Bad == {i \in 1 .. n : ~LevelAt(z, r, n, L, i)}
  <2> SUFFICES ASSUME Bad # {} PROVE FALSE
    OBVIOUS
  <2>1. Bad \in SUBSET Nat
    BY <1>1
  <2>2. PICK q \in Bad : \A m \in Bad : q =< m
    BY <2>1, LeastNumber
  <2>3. q \in 1 .. n /\ q # 1
    BY <1>7, <2>2
  <2>4. q - 1 \in 1 .. n /\ q - 1 \notin Bad /\ (q - 1) + 1 = q
    BY <1>1, <2>2, <2>3
  <2>5. LevelAt(z, r, n, L, q - 1)
    BY <2>4
  <2>6. \A p : p \in L[(q - 1) + 1] <=> \E m \in L[q - 1] : Child(d, m, p)
    BY <1>6, <2>3, <2>4, <2>5
  <2>7. LevelAt(z, r, n, L, (q - 1) + 1)
    <3>1. q - 1 \in 1 .. n /\ (q - 1) + 1 \in 1 .. n
      BY <2>3, <2>4
    <3> QED  BY ONLY <2>5, <2>6, <3>1, LevelStep, Rooted(z, d, r, n)
  <2> QED  BY <2>2, <2>4, <2>7
<1> QED  BY <1>4, <1>6, <1>8 DEF LevelsRight

PathAt(z, n, k, L, P, i) ==
    P[i] \in L[i] /\ P[i] \in DOMAIN z /\ z[P[i]].h = n + 1 - i /\ Within(z[P[i]], k)
PathRight(z, d, r, n, k, L, P) ==
    /\ DOMAIN P = 1 .. n /\ P \in Seq(DOMAIN z) /\ Len(P) = n /\ P[1] = r
    /\ \A i \in 1 .. n : PathAt(z, n, k, L, P, i)
LEMMA PathIs ==
    ASSUME NEW z, NEW d, NEW r, NEW n, Rooted(z, d, r, n), NEW L, L = LevelsOf(d, r, n),
           NEW k \in Nat, NEW P, P = PathOf(d, r, n, k)
    PROVE  PathRight(z, d, r, n, k, L, P)
<1>1. n \in Nat /\ n > 0 /\ Trees(d, z) /\ r \in DOMAIN z /\ z[r].h = n
  BY DEF Rooted
<1>2. PathFrom(d, r, n, k, P)
  BY <1>1, PathExists DEF PathOf
<1> DEFINE Nxt(x) == d[x].kids[ChildIndex(d[x].ents, k) + 1]
<1>3. P = [i \in 1 .. n |-> IF i = 1 THEN r ELSE Nxt(P[i - 1])]
  BY <1>2 DEF PathFrom
<1> HIDE DEF Nxt
<1>4. DOMAIN P = 1 .. n /\ 1 \in 1 .. n /\ P[1] = r
  BY <1>1, <1>3
<1>5. ASSUME NEW i \in 1 .. n, i + 1 \in 1 .. n
      PROVE  P[i + 1] = Nxt(P[i])
  <2>1. i + 1 # 1 /\ (i + 1) - 1 = i
    BY <1>1
  <2>2. P[i + 1] = Nxt(P[(i + 1) - 1])
    BY <1>3, <1>5, <2>1
  <2> QED  BY <2>1, <2>2
<1>6. LevelsRight(z, d, r, n, L)
  BY LevelsAre
<1>7. PathAt(z, n, k, L, P, 1)
  <2>1. n + 1 - 1 = n /\ L[1] = {r}
    BY <1>1, <1>6 DEF LevelsRight
  <2>2. Within(z[r], k)
    BY DEF Rooted, Within, Before
  <2> QED  BY <1>1, <1>4, <2>1, <2>2 DEF PathAt
<1>8. ASSUME NEW i \in 1 .. n, i + 1 \in 1 .. n, PathAt(z, n, k, L, P, i)
      PROVE  PathAt(z, n, k, L, P, i + 1)
  <2>1. PICK p, q : p = P[i] /\ q = P[i + 1]
    OBVIOUS
  <2>2. p \in L[i] /\ p \in DOMAIN z /\ z[p].h = n + 1 - i /\ Within(z[p], k) /\ z[p].h # 1
    BY <1>1, <1>8, <2>1 DEF PathAt
  <2>3. IsIndex(z, d[p], z[p])
    BY <1>1, <2>2, RootedIndex
  <2>4. q = d[p].kids[ChildIndex(d[p].ents, k) + 1]
    BY <1>5, <1>8, <2>1 DEF Nxt
  <2>5. ChildIndex(d[p].ents, k) + 1 \in 1 .. Len(d[p].kids)
    BY <2>3 DEF IsIndex
  <2>6. Child(d, p, q)
    BY <2>4, <2>5 DEF Child
  <2>7. q \in L[i + 1]
    BY <1>6, <1>8, <2>2, <2>6 DEF LevelsRight
  <2>8. q \in DOMAIN z /\ z[q].h = z[p].h - 1 /\ Within(z[q], k)
    BY <2>2, <2>3, <2>4, <2>5 DEF IsIndex
  <2>9. z[q].h = n + 1 - (i + 1)
    BY <1>1, <2>2, <2>8
  <2> QED  BY <2>1, <2>7, <2>8, <2>9 DEF PathAt
<1>9. \A i \in 1 .. n : PathAt(z, n, k, L, P, i)
  <2> DEFINE Bad == {i \in 1 .. n : ~PathAt(z, n, k, L, P, i)}
  <2> SUFFICES ASSUME Bad # {} PROVE FALSE
    OBVIOUS
  <2>1. Bad \in SUBSET Nat
    BY <1>1
  <2>2. PICK q \in Bad : \A m \in Bad : q =< m
    BY <2>1, LeastNumber
  <2>3. q \in 1 .. n /\ q # 1
    BY <1>7, <2>2
  <2>4. q - 1 \in 1 .. n /\ q - 1 \notin Bad /\ (q - 1) + 1 = q
    BY <1>1, <2>2, <2>3
  <2>5. PathAt(z, n, k, L, P, (q - 1) + 1)
    BY <1>8, <2>3, <2>4
  <2> QED  BY <2>2, <2>4, <2>5
<1>10. P \in Seq(DOMAIN z) /\ Len(P) = n
  <2>1. \A i \in 1 .. n : P[i] \in DOMAIN z
    BY <1>9 DEF PathAt
  <2>2. P = [i \in 1 .. n |-> P[i]]
    BY <1>3
  <2> QED  BY <1>1, <1>4, <2>1, <2>2
<1> QED  BY <1>4, <1>9, <1>10 DEF PathRight

-----------------------------------------------------------------------------
(* What the tree says of its records and its pages. *)

LEMMA RecordsAre ==
    ASSUME NEW z, NEW d, NEW r, NEW n, Rooted(z, d, r, n), NEW L, L = LevelsOf(d, r, n)
    PROVE  UNION {ToSet(d[m].ents) : m \in L[n]} = z[r].c
<1>1. n \in Nat /\ n > 0 /\ Trees(d, z) /\ n \in 1 .. n
  BY DEF Rooted
<1>2. LevelAt(z, r, n, L, n)
  BY <1>1, LevelsAre DEF LevelsRight
<1>3. \A m \in L[n] : m \in DOMAIN z /\ z[m].h = 1
  BY <1>1, <1>2 DEF LevelAt
<1>4. ASSUME NEW m \in L[n]
      PROVE  IsLeaf(d[m], z[m])
  BY <1>1, <1>3, RootedLeaf
<1>5. \A m \in L[n] : \A e : e \in ToSet(d[m].ents) <=> e \in z[m].c
  BY <1>4 DEF IsLeaf, ToSet
<1>6. \A e : e \in UNION {ToSet(d[m].ents) : m \in L[n]} <=> e \in z[r].c
  BY <1>2, <1>5 DEF LevelAt
<1> QED  BY <1>6

LEMMA SearchIs ==
    ASSUME NEW z, NEW d, NEW r, NEW n, Rooted(z, d, r, n), NEW L, L = LevelsOf(d, r, n),
           NEW k \in Nat, NEW P, P = PathOf(d, r, n, k), NEW m \in L[n], Found(d[m].ents, k)
    PROVE  m = P[n]
<1>1. n \in Nat /\ n > 0 /\ Trees(d, z) /\ n \in 1 .. n
  BY DEF Rooted
<1>2. LevelAt(z, r, n, L, n)
  BY <1>1, LevelsAre DEF LevelsRight
<1>3. m \in DOMAIN z /\ z[m].h = 1
  BY <1>1, <1>2 DEF LevelAt
<1>4. Sound(z, d[m], z[m]) /\ d[m].leaf \in BOOLEAN /\ z[m] \in Label
  BY <1>1, <1>3 DEF Trees, Sound
<1>5. IsLeaf(d[m], z[m])
  BY <1>1, <1>3, RootedLeaf
<1>6. PICK i \in DOMAIN d[m].ents : d[m].ents[i].key = k
  BY DEF Found
<1>7. d[m].ents[i] \in z[m].c
  BY <1>5 DEF IsLeaf
<1>8. Within(z[m], k)
  BY <1>4, <1>6, <1>7, LabelIs DEF Within
<1>9. P[n] \in L[n] /\ Within(z[P[n]], k)
  BY <1>1, PathIs DEF PathRight, PathAt
<1> QED  BY <1>2, <1>8, <1>9 DEF LevelAt

(* No page has two parents.                                                *)
LEMMA ParentIs ==
    ASSUME NEW z, NEW d, NEW r, NEW n, Rooted(z, d, r, n), NEW L, L = LevelsOf(d, r, n),
           NEW i \in 1 .. n, NEW p \in L[i], NEW j \in 1 .. n, NEW q \in L[j],
           NEW a \in DOMAIN d[p].kids, NEW b \in DOMAIN d[q].kids, d[p].kids[a] = d[q].kids[b]
    PROVE  p = q /\ a = b
<1>1. n \in Nat /\ n > 0 /\ Trees(d, z)
  BY DEF Rooted
<1>2. LevelAt(z, r, n, L, i) /\ LevelAt(z, r, n, L, j)
  BY LevelsAre DEF LevelsRight
<1>3. p \in DOMAIN z /\ z[p].h = n + 1 - i /\ q \in DOMAIN z /\ z[q].h = n + 1 - j
  BY <1>2 DEF LevelAt
<1>4. \A m \in DOMAIN z : Sound(z, d[m], z[m]) /\ d[m].leaf \in BOOLEAN /\ (d[m].leaf => d[m].kids = <<>>)
  BY <1>1 DEF Trees, Sound
<1>5. ~d[p].leaf /\ ~d[q].leaf
  BY <1>3, <1>4
<1>6. IsIndex(z, d[p], z[p]) /\ IsIndex(z, d[q], z[q])
  BY <1>3, <1>4, <1>5, IndexIs
<1>7. PICK c, u : c = d[p].kids[a] /\ u = z[c]
  OBVIOUS
<1>8. u \in Label /\ u.h = z[p].h - 1 /\ u.h = z[q].h - 1
  BY <1>6, <1>7 DEF IsIndex
<1>9. u.lo \in Nat /\ Within(u, u.lo)
  BY <1>8, LabelIs DEF Within
<1>10. i = j
  BY <1>1, <1>3, <1>8
<1>11. /\ Within(z[p], u.lo) /\ a = ChildIndex(d[p].ents, u.lo) + 1
       /\ Within(z[q], u.lo) /\ b = ChildIndex(d[q].ents, u.lo) + 1
  BY <1>6, <1>7, <1>9 DEF IsIndex
<1>12. p = q
  BY <1>2, <1>9, <1>10, <1>11 DEF LevelAt
<1> QED  BY <1>11, <1>12

-----------------------------------------------------------------------------
(* One page is written over: the record of key o.key changes on all pages  *)
(* from that one to the root.                                              *)
Published(z, h, o) ==
    [n \in DOMAIN z |-> IF z[n].h >= h /\ Within(z[n], o.key) THEN Upd(z[n], o) ELSE z[n]]
Request(o) == o.key \in Nat /\ (o.size # 0 => o \in Ent)

(* Only the labels of its children matter to a page. *)
LEMMA SoundKids ==
    ASSUME NEW z, NEW pg, NEW v, Sound(z, pg, v),
           NEW y, \A j \in 1 .. Len(pg.kids) : pg.kids[j] \in DOMAIN y /\ y[pg.kids[j]] = z[pg.kids[j]],
           NEW nd, nd.leaf = pg.leaf, nd.ents = pg.ents, nd.kids = pg.kids
    PROVE  Sound(y, nd, v)
<1>1. Kids(y, nd) = Kids(z, pg)
  BY DEF Kids
<1>2. Roomy(nd)
  BY DEF Sound, Roomy
<1> QED  BY <1>1, <1>2 DEF Sound

LEMMA PublishAbove ==
    ASSUME NEW z, NEW pg, NEW v, Sound(z, pg, v), NEW o, Request(o),
           NEW h \in Nat, v.h > h, Within(v, o.key), h > 0,
           NEW y, y = Published(z, h, o)
    PROVE  Sound(y, pg, Upd(v, o))
<1>1. v \in Label /\ pg.leaf \in BOOLEAN /\ pg.ents \in Seq(Ent) /\ Rising(pg.ents) /\ Roomy(pg)
      /\ pg.kids \in Seq(Int)
  BY DEF Sound
<1>2. ~pg.leaf
  <2>1. pg.leaf => v.h = 1
    BY LeafPageIs DEF IsLeaf
  <2> QED  BY <2>1
<1>3. /\ Len(pg.kids) = Len(pg.ents) + 1 /\ Spans(pg.ents, Kids(z, pg), v)
      /\ \A j \in 1 .. Len(pg.kids) : pg.kids[j] \in DOMAIN z
  BY <1>2 DEF Sound
<1>4. IsIndex(z, pg, v)
  BY <1>2, IndexIs
<1>5. PICK L, M, j, n : L = Kids(z, pg) /\ M = Kids(y, pg) /\ j = ChildIndex(pg.ents, o.key) + 1
                        /\ n = Len(pg.ents)
  OBVIOUS
<1>6. n \in Nat /\ Len(pg.kids) = n + 1 /\ o.key \in Nat /\ (o.size # 0 => o \in Ent)
  BY <1>1, <1>3, <1>5 DEF Request
<1>7. j \in 1 .. n + 1
  BY <1>4, <1>5, <1>6 DEF IsIndex
<1>8. \A i \in 1 .. n + 1 : L[i] = z[pg.kids[i]] /\ M[i] = y[pg.kids[i]]
  BY <1>5, <1>6 DEF Kids
<1>9. Within(L[j], o.key) /\ \A i \in 1 .. n + 1 : Within(L[i], o.key) => i = j
  BY <1>4, <1>5, <1>6, <1>7, <1>8 DEF IsIndex
<1>10. \A i \in 1 .. n + 1 : z[pg.kids[i]].h >= h
  <2>1. v.h \in Nat /\ v.h - 1 >= h
    BY <1>1, LabelIs
  <2>2. \A i \in 1 .. n + 1 : z[pg.kids[i]].h = v.h - 1
    BY <1>4, <1>6 DEF IsIndex
  <2> QED  BY <2>1, <2>2
<1>11. \A i \in 1 .. n + 1 : M[i] = IF i = j THEN Upd(L[j], o) ELSE L[i]
  <2> TAKE i \in 1 .. n + 1
  <2>1. M[i] = IF Within(L[i], o.key) THEN Upd(L[i], o) ELSE L[i]
    BY <1>3, <1>6, <1>8, <1>10 DEF Published
  <2> QED  BY <1>9, <2>1
<1>12. Spans(pg.ents, M, Upd(v, o))
  <2>1. Spans(pg.ents, L, v)
    BY <1>3, <1>5
  <2>2. j \in 1 .. Len(pg.ents) + 1
        /\ \A i \in 1 .. Len(pg.ents) + 1 : M[i] = IF i = j THEN Upd(L[j], o) ELSE L[i]
    BY <1>5, <1>7, <1>11
  <2> QED  BY ONLY <1>1, <1>6, <1>9, <2>1, <2>2, Within(v, o.key), UpdSpans
<1>13. Upd(v, o) \in Label
  BY ONLY <1>1, <1>6, Within(v, o.key), UpdLabel
<1>14. \A i \in 1 .. Len(pg.kids) : pg.kids[i] \in DOMAIN y
  BY <1>3 DEF Published
<1> QED  BY <1>1, <1>2, <1>3, <1>5, <1>12, <1>13, <1>14 DEF Sound

Alone(z, h, k, p) == \A n \in DOMAIN z : z[n].h = h /\ Within(z[n], k) => n = p
LEMMA PublishGood ==
    ASSUME NEW z, NEW d, Trees(d, z), NEW o, Request(o),
           NEW nd, nd.page \in DOMAIN z, NEW h, h = z[nd.page].h, Within(z[nd.page], o.key),
           Alone(z, h, o.key, nd.page), Sound(z, nd, Upd(z[nd.page], o)),
           NEW y, y = Published(z, h, o)
    PROVE  Trees(Putnode(d, nd), y)
<1>1. PICK p, e : p = nd.page /\ e = Putnode(d, nd)
  OBVIOUS
<1>2. /\ DOMAIN e = DOMAIN d \cup {p} /\ \A n \in DOMAIN d : n # p => e[n] = d[n]
  BY <1>1 DEF Putnode
<1>3. e[p] = Image(nd)
  BY <1>1 DEF Putnode
<1>4. DOMAIN y = DOMAIN z
  BY DEF Published
<1>5. \A n \in DOMAIN z : n \in DOMAIN d /\ Sound(z, d[n], z[n]) /\ z[n] \in Label
  BY DEF Trees, Sound
<1>6. h \in Nat /\ h > 0 /\ o.key \in Nat
  BY <1>1, <1>5, LabelIs DEF Request
<1>7. \A n \in DOMAIN z : z[n].h \in Nat
  BY <1>5, LabelIs
<1>8. Sound(y, e[p], y[p])
  <2>1. y[p] = Upd(z[p], o)
    BY <1>1, <1>6 DEF Published
  <2>2. \A j \in 1 .. Len(nd.kids) : nd.kids[j] \in DOMAIN y /\ y[nd.kids[j]] = z[nd.kids[j]]
    <3>1. CASE nd.leaf
      <4>1. nd.kids = <<>> /\ Len(<<>>) = 0
        BY <3>1 DEF Sound
      <4> QED  BY <4>1
    <3>2. CASE ~nd.leaf
      <4>1. IsIndex(z, nd, Upd(z[p], o))
        BY <1>1, <3>2, IndexIs
      <4>2. Upd(z[p], o).h = h
        <5>1. z[p] \in Label /\ o.key \in Nat /\ (o.size # 0 => o \in Ent) /\ Within(z[p], o.key)
          BY <1>1, <1>5 DEF Request
        <5>2. Upd(z[p], o).h = z[p].h
          BY ONLY <5>1, UpdLabel
        <5> QED  BY <5>2, <1>1
      <4>3. \A j \in 1 .. Len(nd.kids) : nd.kids[j] \in DOMAIN z /\ z[nd.kids[j]].h = h - 1
        BY <4>1, <4>2 DEF IsIndex
      <4>4. \A j \in 1 .. Len(nd.kids) : ~(z[nd.kids[j]].h >= h)
        BY <4>3, <1>6
      <4> QED  BY <1>4, <4>3, <4>4 DEF Published
    <3> QED  BY <3>1, <3>2
  <2>3. Sound(z, nd, Upd(z[p], o)) /\ e[p].leaf = nd.leaf /\ e[p].ents = nd.ents /\ e[p].kids = nd.kids
    BY <1>1, <1>3 DEF Image
  <2>4. Sound(y, e[p], Upd(z[p], o))
    BY ONLY <2>2, <2>3, SoundKids
  <2> QED  BY <2>1, <2>4
<1>9. ASSUME NEW n \in DOMAIN z, n # p, z[n].h >= h /\ Within(z[n], o.key)
      PROVE  Sound(y, d[n], y[n])
  <2>1. z[n].h > h
    BY <1>1, <1>6, <1>7, <1>9 DEF Alone
  <2>2. y[n] = Upd(z[n], o)
    BY <1>9 DEF Published
  <2>3. Sound(z, d[n], z[n])
    BY <1>5
  <2> QED  BY <1>6, <1>9, <2>1, <2>2, <2>3, PublishAbove
<1>10. ASSUME NEW n \in DOMAIN z, ~(z[n].h >= h /\ Within(z[n], o.key))
       PROVE  Sound(y, d[n], y[n])
  <2>1. y[n] = z[n] /\ Sound(z, d[n], z[n])
    BY <1>5, <1>10 DEF Published
  <2>2. \A j \in 1 .. Len(d[n].kids) : d[n].kids[j] \in DOMAIN y /\ y[d[n].kids[j]] = z[d[n].kids[j]]
    <3>1. CASE d[n].leaf
      <4>1. d[n].kids = <<>> /\ Len(<<>>) = 0
        BY <3>1, <2>1 DEF Sound
      <4> QED  BY <4>1
    <3>2. CASE ~d[n].leaf
      <4>1. IsIndex(z, d[n], z[n])
        BY <2>1, <3>2, IndexIs
      <4>2. ASSUME NEW j \in 1 .. Len(d[n].kids)
            PROVE  ~(z[d[n].kids[j]].h >= h /\ Within(z[d[n].kids[j]], o.key))
        <5>1. z[d[n].kids[j]].h = z[n].h - 1
              /\ (Within(z[d[n].kids[j]], o.key) => Within(z[n], o.key))
          BY <1>6, <4>1 DEF IsIndex
        <5> QED  BY <5>1, <1>6, <1>7, <1>10
      <4>3. \A j \in 1 .. Len(d[n].kids) : d[n].kids[j] \in DOMAIN z
        BY <4>1 DEF IsIndex
      <4> QED  BY <1>4, <4>2, <4>3 DEF Published
    <3> QED  BY <3>1, <3>2
  <2>3. Sound(y, d[n], z[n])
    BY ONLY <2>1, <2>2, SoundKids
  <2> QED  BY <2>1, <2>3
<1>11. ASSUME NEW n \in DOMAIN y PROVE n \in DOMAIN e /\ Sound(y, e[n], y[n])
  <2>1. CASE n = p
    BY <1>2, <1>8, <2>1
  <2>2. CASE n # p
    <3>1. n \in DOMAIN e /\ e[n] = d[n]
      BY <1>2, <1>4, <1>5, <2>2
    <3>2. Sound(y, d[n], y[n])
      BY <1>4, <1>9, <1>10, <2>2
    <3> QED  BY <3>1, <3>2
  <2> QED  BY <2>1, <2>2
<1> QED  BY <1>1, <1>11 DEF Trees

LEMMA PublishRooted ==
    ASSUME NEW z, NEW d, NEW r, NEW n, Rooted(z, d, r, n), NEW o, Request(o),
           NEW nd, nd.page \in DOMAIN z, NEW h, h = z[nd.page].h, Within(z[nd.page], o.key), h =< n,
           Alone(z, h, o.key, nd.page), Sound(z, nd, Upd(z[nd.page], o)),
           NEW y, y = Published(z, h, o)
    PROVE  Rooted(y, Putnode(d, nd), r, n) /\ y[r].c = Upd(z[r], o).c
<1>1. Trees(d, z) /\ n \in Nat /\ n > 0 /\ r \in DOMAIN z /\ z[r].h = n /\ z[r].lo = 0 /\ z[r].hi = -1
  BY DEF Rooted
<1>2. Trees(Putnode(d, nd), y)
  BY <1>1, PublishGood
<1>3. z[nd.page] \in Label /\ z[r] \in Label
  BY <1>1 DEF Trees, Sound
<1>4. h \in Nat /\ o.key \in Nat /\ (o.size # 0 => o \in Ent)
  BY <1>3, LabelIs DEF Request
<1>5. Within(z[r], o.key)
  BY <1>1, <1>4 DEF Within, Before
<1>6. y[r] = Upd(z[r], o) /\ r \in DOMAIN y
  BY <1>1, <1>4, <1>5 DEF Published
<1>7. Upd(z[r], o).h = z[r].h /\ Upd(z[r], o).lo = z[r].lo /\ Upd(z[r], o).hi = z[r].hi
  BY ONLY <1>3, <1>4, <1>5, UpdLabel
<1> QED  BY <1>1, <1>2, <1>6, <1>7 DEF Rooted

-----------------------------------------------------------------------------
(* The pages the header reaches are a tree by themselves. In it, one page  *)
(* of each level can have a key.                                           *)
ReachOf(d, r, n) == UNION {LevelsOf(d, r, n)[i] : i \in 1 .. n}
Within1(f, R) == [m \in R |-> f[m]]
Sole(z, h, k) ==
    \A m, q \in DOMAIN z :
        z[m].h = z[q].h /\ z[m].h >= h /\ Within(z[m], k) /\ Within(z[q], k) => m = q
Way(z, n, k, P, l) ==
    /\ P \in Seq(DOMAIN z) /\ Len(P) = n
    /\ \A i \in 1 .. l : P[i] \in DOMAIN z /\ z[P[i]].h = n + 1 - i /\ Within(z[P[i]], k)

LEMMA ReachIs ==
    ASSUME NEW z, NEW d, NEW r, NEW n, Rooted(z, d, r, n), NEW R, R = ReachOf(d, r, n)
    PROVE  /\ R \subseteq DOMAIN z /\ R \subseteq DOMAIN d /\ r \in R
           /\ \A m \in R : \A j \in 1 .. Len(d[m].kids) : d[m].kids[j] \in R
           /\ \A k \in Nat : \A m, q \in R :
                 z[m].h = z[q].h /\ Within(z[m], k) /\ Within(z[q], k) => m = q
           /\ \A k \in Nat : \A i \in 1 .. n : PathOf(d, r, n, k)[i] \in R
<1>1. n \in Nat /\ n > 0 /\ Trees(d, z) /\ 1 \in 1 .. n
  BY DEF Rooted
<1>2. PICK L : L = LevelsOf(d, r, n)
  OBVIOUS
<1>3. LevelsRight(z, d, r, n, L)
  BY <1>2, LevelsAre
<1>4. \A m : m \in R <=> \E i \in 1 .. n : m \in L[i]
  BY <1>2 DEF ReachOf
<1>5. \A i \in 1 .. n : \A m \in L[i] : m \in DOMAIN z /\ z[m].h = n + 1 - i
  BY <1>3 DEF LevelsRight, LevelAt
<1>6. R \subseteq DOMAIN z /\ r \in R
  BY <1>1, <1>3, <1>4, <1>5 DEF LevelsRight
<1>7. R \subseteq DOMAIN d
  BY <1>1, <1>6 DEF Trees
<1>8. ASSUME NEW m \in R, NEW j \in 1 .. Len(d[m].kids)
      PROVE  d[m].kids[j] \in R
  <2>1. PICK i \in 1 .. n : m \in L[i]
    BY <1>4
  <2>2. z[m].h = n + 1 - i /\ m \in DOMAIN z
    BY <1>5, <2>1
  <2>3. CASE i = n
    <3>1. z[m].h = 1
      BY <1>1, <2>2, <2>3
    <3>2. d[m].leaf /\ Sound(z, d[m], z[m])
      BY <1>1, <2>2, <3>1, RootedLeaf DEF Trees
    <3>3. d[m].kids = <<>> /\ Len(<<>>) = 0
      BY <3>2 DEF Sound
    <3> QED  BY <1>8, <3>3
  <2>4. CASE i # n
    <3>1. i + 1 \in 1 .. n
      BY <1>1, <2>4
    <3>2. Child(d, m, d[m].kids[j])
      BY DEF Child
    <3>3. d[m].kids[j] \in L[i + 1]
      BY <1>3, <2>1, <3>1, <3>2 DEF LevelsRight
    <3> QED  BY <1>4, <3>1, <3>3
  <2> QED  BY <2>3, <2>4
<1>9. ASSUME NEW k \in Nat, NEW m \in R, NEW q \in R, z[m].h = z[q].h, Within(z[m], k), Within(z[q], k)
      PROVE  m = q
  <2>1. PICK i \in 1 .. n : m \in L[i]
    BY <1>4
  <2>2. PICK j \in 1 .. n : q \in L[j]
    BY <1>4
  <2>3. i = j
    <3>1. z[m].h = n + 1 - i /\ z[q].h = n + 1 - j
      BY <1>5, <2>1, <2>2
    <3>2. n + 1 - i = n + 1 - j
      BY <1>9, <3>1
    <3> QED  BY ONLY <1>1, <3>2, i \in 1 .. n, j \in 1 .. n
  <2>4. LevelAt(z, r, n, L, i)
    BY <1>3 DEF LevelsRight
  <2> QED  BY <1>9, <2>1, <2>2, <2>3, <2>4 DEF LevelAt
<1>10. ASSUME NEW k \in Nat, NEW i \in 1 .. n
       PROVE  PathOf(d, r, n, k)[i] \in R
  <2>1. PathRight(z, d, r, n, k, L, PathOf(d, r, n, k))
    BY <1>2, PathIs
  <2>2. PathOf(d, r, n, k)[i] \in L[i]
    BY <2>1 DEF PathRight, PathAt
  <2> QED  BY <1>4, <2>2
<1> QED  BY <1>6, <1>7, <1>8, <1>9, <1>10

LEMMA ReachGood ==
    ASSUME NEW z, NEW d, NEW r, NEW n, Rooted(z, d, r, n), NEW R, R = ReachOf(d, r, n),
           NEW y, y = Within1(z, R), NEW e, e = Within1(d, R)
    PROVE  /\ Rooted(y, d, r, n) /\ Rooted(y, e, r, n) /\ y[r] = z[r]
           /\ \A k \in Nat : Sole(y, 1, k) /\ Way(y, n, k, PathOf(d, r, n, k), n)
<1>1. n \in Nat /\ n > 0 /\ Trees(d, z) /\ r \in DOMAIN z /\ z[r].h = n /\ z[r].lo = 0 /\ z[r].hi = -1
  BY DEF Rooted
<1>2. /\ R \subseteq DOMAIN z /\ R \subseteq DOMAIN d /\ r \in R
      /\ \A m \in R : \A j \in 1 .. Len(d[m].kids) : d[m].kids[j] \in R
  BY ONLY ReachIs, Rooted(z, d, r, n), R = ReachOf(d, r, n)
<1>3. \A k \in Nat : \A m, q \in R : z[m].h = z[q].h /\ Within(z[m], k) /\ Within(z[q], k) => m = q
  BY ONLY ReachIs, Rooted(z, d, r, n), R = ReachOf(d, r, n)
<1>4. DOMAIN y = R /\ DOMAIN e = R /\ \A m \in R : y[m] = z[m] /\ e[m] = d[m]
  BY DEF Within1
<1>5. ASSUME NEW m \in R PROVE Sound(y, d[m], y[m]) /\ Sound(y, e[m], y[m])
  <2>1. Sound(z, d[m], z[m])
    BY <1>1, <1>2 DEF Trees
  <2>2. \A j \in 1 .. Len(d[m].kids) : d[m].kids[j] \in DOMAIN y /\ y[d[m].kids[j]] = z[d[m].kids[j]]
    BY <1>2, <1>4
  <2>3. Sound(y, d[m], z[m])
    BY ONLY <2>1, <2>2, SoundKids
  <2> QED  BY <2>3, <1>4
<1>6. Rooted(y, d, r, n) /\ Rooted(y, e, r, n)
  BY <1>1, <1>2, <1>4, <1>5 DEF Rooted, Trees
<1>7. ASSUME NEW k \in Nat PROVE Sole(y, 1, k)
  BY <1>3, <1>4 DEF Sole
<1>8. ASSUME NEW k \in Nat PROVE Way(y, n, k, PathOf(d, r, n, k), n)
  <2>1. PICK P : P = PathOf(d, r, n, k)
    OBVIOUS
  <2>2. PathRight(y, d, r, n, k, LevelsOf(d, r, n), P)
    BY <1>6, <2>1, PathIs
  <2> QED  BY <2>1, <2>2 DEF PathRight, PathAt, Way
<1> QED  BY <1>2, <1>4, <1>6, <1>7, <1>8

-----------------------------------------------------------------------------
(* The records of the tree the header names, those with request o done,    *)
(* and the label of a root above it.                                       *)
All(z, r, n) == IF n = 0 THEN {} ELSE z[r].c
Changed(c, o) == {e \in c : e.key # o.key} \cup (IF o.size = 0 THEN {} ELSE {o})
Whole(c, n) == [h |-> n + 1, lo |-> 0, hi |-> -1, c |-> c]
Wanted(o) == o.key \in Nat /\ (o.size # 0 => o \in Ent /\ LeafBase + LeafOvh + o.size =< PgSize)

Holding(z, d, r, n) ==
    /\ Trees(d, z) /\ DOMAIN d \subseteq Page /\ n \in Nat
    /\ n > 0 => Rooted(z, d, r, n)

(* The climb is at level l of the tree with node nd.                       *)
AtLevel(z, o, P, l, nd) ==
    Fit(nd) /\ nd.page = P[l] /\ Sound(z, nd, Upd(z[P[l]], o))
Above(z, d, r, n, o, nd, mk) ==
    nd \in NodeType /\ nd.page \in mk \ DOMAIN d /\ Sound(z, nd, Whole(Changed(All(z, r, n), o), n))
Climbs(z, d, r, n, o, P, l, nd, mk) ==
    /\ Holding(z, d, r, n) /\ Wanted(o) /\ mk \subseteq Page
    /\ l \in 0 .. n /\ Sole(z, n + 1 - l, o.key) /\ Way(z, n, o.key, P, l)
    /\ l > 0 => AtLevel(z, o, P, l, nd)
    /\ l = 0 => Above(z, d, r, n, o, nd, mk)

LEMMA UpdWhole ==
    ASSUME NEW c, NEW n, NEW o
    PROVE  Upd(Whole(c, n), o) = Whole(Changed(c, o), n)
<1>1. PICK x : x = Changed(c, o)
  OBVIOUS
<1>2. Whole(c, n).c = c
  BY DEF Whole
<1>3. Upd(Whole(c, n), o) = [Whole(c, n) EXCEPT !.c = x]
  BY ONLY <1>1, <1>2 DEF Upd, Changed
<1>4. [Whole(c, n) EXCEPT !.c = x] = Whole(x, n)
  BY DEF Whole
<1> QED  BY ONLY <1>1, <1>3, <1>4

LEMMA WantedIs ==
    ASSUME NEW o \in [key : Key, size : RecSize \cup {0}]
    PROVE  Wanted(o)
<1>1. o.key \in Key /\ o.size \in RecSize \cup {0} /\ o = [key |-> o.key, size |-> o.size]
  OBVIOUS
<1>2. o.key \in Nat
  BY <1>1, GeometryAssumption
<1>3. o.size # 0 => o.size \in Nat \ {0} /\ LeafBase + LeafOvh + o.size =< PgSize
  BY <1>1, GeometryAssumption
<1>4. o.size # 0 => o \in Ent
  BY <1>1, <1>2, <1>3 DEF Ent
<1> QED  BY <1>2, <1>3, <1>4 DEF Wanted

-----------------------------------------------------------------------------
(* _update() in the leaf.                                                  *)

LEMMA LeafFound ==
    ASSUME NEW z, NEW d, NEW r, NEW n, Holding(z, d, r, n), n > 0, NEW o, Wanted(o),
           NEW P, Way(z, n, o.key, P, n), NEW l, l = Getnode(d, P[n])
    PROVE  Fit(l) /\ l.page = P[n] /\ LeafFor(z, l, z[P[n]], o)
<1>1. n \in Nat /\ Trees(d, z) /\ n \in 1 .. n /\ DOMAIN d \subseteq Page
  BY DEF Holding
<1>2. PICK p : p = P[n]
  OBVIOUS
<1>3. p \in DOMAIN z /\ z[p].h = 1 /\ Within(z[p], o.key)
  <2>1. P[n] \in DOMAIN z /\ z[P[n]].h = n + 1 - n /\ Within(z[P[n]], o.key)
    BY <1>1 DEF Way
  <2> QED  BY <1>1, <1>2, <2>1
<1>4. Sound(z, d[p], z[p]) /\ p \in DOMAIN d
  BY <1>1, <1>3 DEF Trees
<1>5. p \in Int
  BY <1>1, <1>4 DEF Page
<1>6. d[p].leaf
  BY <1>1, <1>3, RootedLeaf
<1>7. Fit(l) /\ Sound(z, l, z[p]) /\ l.page = p
  <2>1. l = Getnode(d, p)
    BY <1>2
  <2> QED  BY ONLY <1>4, <1>5, <2>1, GetnodeIs
<1>8. l.leaf
  BY <1>2, <1>6 DEF Getnode
<1>9. LeafFor(z, l, z[p], o)
  BY <1>3, <1>7, <1>8 DEF LeafFor, Fit, Wanted
<1> QED  BY <1>2, <1>7, <1>9

LEMMA BegunIs ==
    ASSUME NEW z, NEW d, NEW r, NEW n, Holding(z, d, r, n), n > 0, NEW o, Wanted(o),
           Sole(z, 1, o.key), NEW P, Way(z, n, o.key, P, n),
           NEW l, Fit(l), l.page = P[n], NEW nd, Updated(z, nd, l, z[P[n]], o),
           NEW mk \in SUBSET Page
    PROVE  Climbs(z, d, r, n, o, P, n, nd, mk)
<1>1. n \in Nat /\ n \in 0 .. n /\ n + 1 - n = 1
  BY DEF Holding
<1>2. Fit(nd) /\ nd.page = P[n]
  BY DEF Updated, Fit, Same
<1>3. Sound(z, nd, Upd(z[P[n]], o))
  BY DEF Updated
<1> QED  BY <1>1, <1>2, <1>3 DEF Climbs, AtLevel

LEMMA FirstLeaf ==
    ASSUME NEW z, DOMAIN z = {}, NEW d, NEW r, DOMAIN d \subseteq Page, NEW o, Wanted(o), o.size # 0,
           NEW new, new = Freshnode(Unused(DOMAIN d), TRUE), new.page # 0,
           NEW P, P = PathOf(d, r, 0, o.key), NEW nd, nd = Addpage(new, 0, o)
    PROVE  Climbs(z, d, r, 0, o, P, 0, nd, {new.page}) /\ new.page \in Page
<1>1. PICK p : p = Unused(DOMAIN d)
  OBVIOUS
<1>2. new.page = p
  BY <1>1 DEF Freshnode
<1>3. p \in Page /\ p \notin DOMAIN d /\ p \in Int
  <2>1. Unused(DOMAIN d) # 0
    BY <1>1, <1>2
  <2>2. /\ Unused(DOMAIN d) \in Page /\ Unused(DOMAIN d) \notin DOMAIN d
        /\ Unused(DOMAIN d) \in Nat \ {0}
    BY ONLY <2>1, UnusedIs
  <2> QED  BY ONLY <1>1, <2>2
<1>4. /\ new \in NodeType /\ Exact(new) /\ new.leaf /\ new.ents = <<>> /\ new.kids = <<>>
  <2>1. TRUE \in BOOLEAN /\ new = Freshnode(p, TRUE)
    BY <1>1
  <2> QED  BY ONLY <1>3, <2>1, FreshIs
<1>5. PICK v : v = Whole({}, 0)
  OBVIOUS
<1>6. v \in Label /\ Within(v, o.key) /\ v.h = 1 /\ v.c = {}
  BY <1>5 DEF Whole, Label, Within, Before, Wanted
<1>7. Sound(z, new, v)
  <2>1. Len(<<>>) = 0 /\ <<>> \in Seq(Ent) /\ <<>> \in Seq(Int)
    BY EmptySeq
  <2>4. PICK s : s = new.ents
    OBVIOUS
  <2>5. Len(s) = 0 /\ \A i : i \notin 1 .. Len(s)
    <3>1. Len(s) = 0
      BY ONLY <1>4, <2>1, <2>4
    <3> QED  BY ONLY <3>1
  <2>2. Rising(new.ents) /\ Roomy(new)
    BY ONLY <2>4, <2>5 DEF Rising, Roomy
  <2>3. Holds(new.ents, v)
    BY ONLY <1>6, <2>4, <2>5 DEF Holds
  <2> QED  BY <1>4, <1>6, <2>1, <2>2, <2>3 DEF Sound
<1>8. LeafFor(z, new, v, o)
  BY <1>4, <1>6, <1>7 DEF LeafFor, Wanted
<1>9. Below(new.ents, o.key) = 0 /\ ~Found(new.ents, o.key)
  <2>1. new.ents \in Seq(Ent) /\ Rising(new.ents) /\ Len(new.ents) = 0 /\ o.key \in Nat
    <3>1. Len(<<>>) = 0
      BY EmptySeq
    <3> QED  BY ONLY <1>4, <1>7, <3>1, Wanted(o) DEF Sound, Wanted
  <2>2. Below(new.ents, o.key) \in 0 .. Len(new.ents)
    BY ONLY <2>1, BelowIs
  <2>3. Below(new.ents, o.key) = 0
    BY ONLY <2>1, <2>2
  <2>4. DOMAIN new.ents = 1 .. 0
    BY ONLY <2>1, LenProperties
  <2>5. ~Found(new.ents, o.key)
    BY ONLY <2>4 DEF Found
  <2> QED  BY ONLY <2>3, <2>5
<1>10. Updated(z, nd, new, v, o)
  <2>1. Updated(z, Addpage(new, Below(new.ents, o.key), o), new, v, o)
    BY ONLY <1>8, <1>9, o.size # 0, LeafAdd
  <2> QED  BY <1>9, <2>1
<1>11. Upd(v, o) = Whole(Changed(All(z, r, 0), o), 0)
  <2>1. All(z, r, 0) = {}
    BY DEF All
  <2> QED  BY ONLY <1>5, <2>1, UpdWhole
<1>12. Above(z, d, r, 0, o, nd, {new.page})
  BY <1>2, <1>3, <1>10, <1>11 DEF Above, Updated, Same
<1>13. Way(z, 0, o.key, P, 0) /\ Sole(z, 0 + 1 - 0, o.key)
  <2>1. PathFrom(d, r, 0, o.key, P)
    BY PathExists DEF PathOf
  <2>2. DOMAIN P = 1 .. 0 /\ P = [i \in 1 .. 0 |-> P[i]]
    BY <2>1 DEF PathFrom
  <2>3. P \in Seq(DOMAIN z) /\ Len(P) = 0
    BY ONLY <2>2
  <2>5. Sole(z, 0 + 1 - 0, o.key)
    BY DEF Sole
  <2>4. Way(z, 0, o.key, P, 0)
    BY <2>3 DEF Way
  <2> QED  BY <2>4, <2>5
<1>14. Holding(z, d, r, 0)
  BY DEF Holding, Trees
<1>15. 0 \in 0 .. 0 /\ ~(0 > 0) /\ {new.page} \subseteq Page
  <2>1. new.page \in Page
    BY ONLY <1>2, <1>3
  <2> QED  BY ONLY <2>1
<1>16. Climbs(z, d, r, 0, o, P, 0, nd, {new.page})
  BY ONLY <1>12, <1>13, <1>14, <1>15, Wanted(o) DEF Climbs
<1> QED  BY <1>15, <1>16

-----------------------------------------------------------------------------
(* A round of the climb.                                                   *)
Fresh1 == Freshnode(Unused(DOMAIN disk \cup made), FALSE)
IsWork(w) ==
    /\ Fields(w) /\ w.disk = disk /\ w.list2 = list2 /\ w.node = node /\ ~w.done /\ ~w.bad
    /\ level = 1 => w.parent = Fresh1 /\ w.made = made \cup {Fresh1.page} /\ w.idx = 0
    /\ level # 1 => /\ w.parent = Getnode(disk, path[level - 1]) /\ w.made = made
                    /\ w.idx = ChildIndex(w.parent.ents, op.key)
LEMMA WorkIs ==
    ASSUME NEW w, w = Work
    PROVE  IsWork(w)
<1>1. CASE level = 1
  BY <1>1 DEF Work, IsWork, Fields, Fresh1
<1>2. CASE level # 1
  BY <1>2 DEF Work, IsWork, Fields, Fresh1
<1> QED  BY <1>1, <1>2


Here(z) == Climbs(z, disk, root, depth, op, path, level, node, made)
(* The parent is to be right for label v.                                  *)
Aim(z, w, v) ==
    /\ v.h = depth + 2 - level
    /\ w.made \subseteq made \cup Page /\ made \subseteq w.made
    /\ level > 1 => /\ v = Upd(z[path[level - 1]], op) /\ w.parent.page = path[level - 1]
                    /\ w.parent.ovh = IndexOvh
    /\ level = 1 => /\ v = Whole(Changed(All(z, root, depth), op), depth)
                    /\ w.parent.page \in w.made \ DOMAIN disk

LEMMA WorkGood ==
    ASSUME NEW z, Here(z), level > 0, NEW w, w = Work, 0 \notin w.made
    PROVE  \E M, v : Ready(w, z, M, v) /\ Aim(z, w, v)
<1>1. PICK l, n, k, o, p : l = level /\ n = depth /\ k = op.key /\ o = op /\ p = path[level]
  OBVIOUS
<1>2. IsWork(w)
  BY WorkIs
<1>3. /\ Trees(disk, z) /\ DOMAIN disk \subseteq Page /\ n \in Nat /\ (n > 0 => Rooted(z, disk, root, n))
      /\ Wanted(o) /\ made \subseteq Page /\ l \in 0 .. n /\ Sole(z, n + 1 - l, k)
      /\ Way(z, n, k, path, l) /\ AtLevel(z, o, path, l, node)
  BY <1>1 DEF Here, Climbs, Holding
<1>4. l \in 1 .. n /\ l \in Nat /\ n > 0
  BY <1>1, <1>3
<1>5. p \in DOMAIN z /\ z[p].h = n + 1 - l /\ Within(z[p], k)
  BY <1>1, <1>3, <1>4 DEF Way
<1>6. Fit(node) /\ node.page = p /\ Sound(z, node, Upd(z[p], o))
  BY <1>1, <1>3 DEF AtLevel
<1>7. k \in Nat /\ (o.size # 0 => o \in Ent) /\ o.key \in Nat
  BY <1>1, <1>3 DEF Wanted
<1>8. \A m \in DOMAIN z : z[m] \in Label
  BY <1>3 DEF Trees, Sound
<1>9. PICK u : u = Upd(z[p], o)
  OBVIOUS
<1>10. u \in Label /\ u.h = n + 1 - l
  <2>1. Within(z[p], o.key)
    BY <1>1, <1>5
  <2>2. z[p] \in Label
    BY <1>5, <1>8
  <2>3. Upd(z[p], o) \in Label /\ Upd(z[p], o).h = z[p].h
    BY ONLY <1>7, <2>1, <2>2, UpdLabel
  <2> QED  BY <1>5, <1>9, <2>3
<1>11. CASE l = 1
  <2>1. PICK f : f = Unused(DOMAIN disk \cup made)
    OBVIOUS
  <2>2. w.parent = Freshnode(f, FALSE) /\ w.made = made \cup {w.parent.page} /\ w.idx = 0
    BY <1>1, <1>2, <1>11, <2>1 DEF IsWork, Fresh1
  <2>3. w.parent.page = f
    BY <2>2 DEF Freshnode
  <2>4. f \in Page /\ f \notin DOMAIN disk \cup made /\ f \in Int
    <3>1. Unused(DOMAIN disk \cup made) # 0
      BY <2>1, <2>2, <2>3
    <3>2. /\ Unused(DOMAIN disk \cup made) \in Page
          /\ Unused(DOMAIN disk \cup made) \notin DOMAIN disk \cup made
          /\ Unused(DOMAIN disk \cup made) \in Nat \ {0}
      BY ONLY <3>1, UnusedIs
    <3> QED  BY ONLY <2>1, <3>2
  <2>5. PICK M, v : M = <<u>> /\ v = [u EXCEPT !.h = u.h + 1]
    OBVIOUS
  <2>6. Par(z, w.parent, M, v, {1})
    <3>1. Par(z, Freshnode(f, FALSE), <<u>>, [u EXCEPT !.h = u.h + 1], {1})
      BY ONLY <1>10, <2>4, ParFresh
    <3> QED  BY ONLY <2>2, <2>5, <3>1
  <2>7. w.idx + 1 = 1 /\ M[w.idx + 1] = u /\ w.idx \in 0 .. Len(w.parent.ents)
    <3>1. Len(w.parent.ents) \in Nat
      BY ONLY <2>6, ParIs
    <3>2. w.idx + 1 = 1 /\ M[1] = u
      BY ONLY <2>2, <2>5
    <3>3. w.idx \in 0 .. Len(w.parent.ents)
      <4>1. w.idx = 0
        BY ONLY <2>2
      <4> QED  BY ONLY <3>1, <4>1
    <3> QED  BY ONLY <3>2, <3>3
  <2>8. Going(w, z, M, v, {w.idx + 1})
    <3>1. Par(z, w.parent, M, v, {w.idx + 1})
      BY ONLY <2>6, <2>7
    <3>2. Fields(w) /\ Trees(w.disk, z)
      BY <1>2, <1>3 DEF IsWork
    <3> QED  BY ONLY <3>1, <3>2 DEF Going
  <2>9. Ready(w, z, M, v)
    <3>1. Fit(w.node) /\ Sound(z, w.node, M[w.idx + 1]) /\ ~w.done
      BY <1>2, <1>6, <1>9, <2>7 DEF IsWork
    <3> QED  BY ONLY <2>7, <2>8, <3>1 DEF Ready
  <2>10. p = root
    <3>1. Rooted(z, disk, root, n)
      BY <1>3, <1>4
    <3>2. root \in DOMAIN z /\ z[root].h = n /\ Within(z[root], k)
      BY <1>7, <3>1 DEF Rooted, Within, Before
    <3>3. n + 1 - l = n
      BY <1>3, <1>11
    <3>4. z[p].h = z[root].h /\ z[p].h >= n + 1 - l
      BY <1>3, <1>5, <3>2, <3>3
    <3> QED  BY ONLY <1>3, <1>5, <3>2, <3>4 DEF Sole
  <2>11. v = Whole(Changed(All(z, root, depth), op), depth)
    <3>1. Rooted(z, disk, root, n)
      BY <1>3, <1>4
    <3>2. z[root] \in Label /\ z[root].h = n /\ z[root].lo = 0 /\ z[root].hi = -1
      BY <1>8, <3>1 DEF Rooted
    <3>3. PICK c : c = z[root].c
      OBVIOUS
    <3>4. z[root] = [h |-> n, lo |-> 0, hi |-> -1, c |-> c]
      BY ONLY <3>2, <3>3 DEF Label
    <3>5. PICK b : b = Changed(c, o)
      OBVIOUS
    <3>6. u = [h |-> n, lo |-> 0, hi |-> -1, c |-> b]
      <4>1. u = [z[root] EXCEPT !.c = b]
        BY ONLY <1>9, <2>10, <3>3, <3>5 DEF Upd, Changed
      <4> QED  BY ONLY <3>4, <4>1
    <3>7. v = [h |-> n + 1, lo |-> 0, hi |-> -1, c |-> b]
      BY ONLY <2>5, <3>6
    <3>8. All(z, root, depth) = c
      BY <1>1, <1>4, <3>3 DEF All
    <3> QED  BY ONLY <1>1, <3>5, <3>7, <3>8 DEF Whole
  <2>12. v.h = depth + 2 - level
    BY <1>1, <1>3, <1>11, <2>11 DEF Whole
  <2>13. Aim(z, w, v)
    <3>1. w.made \subseteq made \cup Page /\ made \subseteq w.made
      BY ONLY <2>2, <2>3, <2>4
    <3>2. w.parent.page \in w.made \ DOMAIN disk
      BY ONLY <2>2, <2>3, <2>4
    <3>3. ~(level > 1)
      BY ONLY <1>1, <1>11
    <3> QED  BY ONLY <2>11, <2>12, <3>1, <3>2, <3>3 DEF Aim
  <2> QED  BY <2>9, <2>13
<1>12. CASE l # 1
  <2>1. PICK q, g : q = path[level - 1] /\ g = w.parent
    OBVIOUS
  <2>2. g = Getnode(disk, q) /\ w.made = made /\ w.idx = ChildIndex(g.ents, k)
    BY <1>1, <1>2, <1>12, <2>1 DEF IsWork
  <2>3. l - 1 \in 1 .. l /\ n + 1 - (l - 1) = n + 2 - l
    BY <1>3, <1>4, <1>12
  <2>4. q \in DOMAIN z /\ z[q].h = n + 2 - l /\ Within(z[q], k)
    BY <1>1, <1>3, <2>1, <2>3 DEF Way
  <2>5. q \in Int /\ Sound(z, disk[q], z[q])
    BY <1>3, <2>4 DEF Trees, Page
  <2>6. Fit(g) /\ Sound(z, g, z[q]) /\ g.page = q
    <3>1. PICK d, t : d = disk /\ t = z[q]
      OBVIOUS
    <3>2. q \in Int /\ Sound(z, d[q], t) /\ g = Getnode(d, q)
      BY ONLY <2>2, <2>5, <3>1
    <3>3. Fit(g) /\ Sound(z, g, t) /\ g.page = q /\ (Chkpage(d[q]) => g.end =< PgSize)
      BY ONLY <3>2, GetnodeIs
    <3> QED  BY ONLY <3>1, <3>3
  <2>7. z[q].h # 1
    BY <1>3, <2>4
  <2>8. ~disk[q].leaf /\ ~g.leaf
    <3>1. ~disk[q].leaf
      BY ONLY <1>3, <2>4, <2>7, RootedIndex
    <3> QED  BY <3>1, <2>2 DEF Getnode
  <2>9. g \in NodeType /\ Exact(g) /\ g.ovh = IndexOvh
    BY <2>6, <2>8 DEF Fit, Usual
  <2>10. PICK i, s : i = ChildIndex(g.ents, k) /\ s = Kid(g, i)
    OBVIOUS
  <2>11. Within(z[q], o.key)
    BY <1>1, <2>4
  <2>12. /\ i \in 0 .. Len(g.ents) /\ s \in DOMAIN z /\ Within(z[s], k) /\ z[s].h = z[q].h - 1
         /\ \E M : Par(z, g, M, Upd(z[q], o), {i + 1}) /\ M[i + 1] = Upd(z[s], o)
    <3>1. ChildIndex(g.ents, o.key) = i /\ Kid(g, i) = s
      BY <1>1, <2>10
    <3>2. /\ ChildIndex(g.ents, o.key) \in 0 .. Len(g.ents)
          /\ Kid(g, ChildIndex(g.ents, o.key)) \in DOMAIN z
          /\ Within(z[Kid(g, ChildIndex(g.ents, o.key))], o.key)
          /\ z[Kid(g, ChildIndex(g.ents, o.key))].h = z[q].h - 1
          /\ \E M : /\ Par(z, g, M, Upd(z[q], o), {ChildIndex(g.ents, o.key) + 1})
                    /\ M[ChildIndex(g.ents, o.key) + 1] = Upd(z[Kid(g, ChildIndex(g.ents, o.key))], o)
      <4>1. PICK t : t = z[q]
        OBVIOUS
      <4>2. Sound(z, g, t) /\ Within(t, o.key)
        BY ONLY <2>6, <2>11, <4>1
      <4>3. Goes(z, g, t, o, ChildIndex(g.ents, o.key))
        BY ONLY <1>7, <2>8, <2>9, <4>2, ParUpd
      <4> QED  BY ONLY <4>1, <4>3 DEF Goes
    <3> QED  BY ONLY <1>1, <3>1, <3>2
  <2>13. s = p
    <3>1. z[s].h = n + 1 - l
      BY <1>3, <2>4, <2>12
    <3>2. z[s].h = z[p].h /\ z[s].h >= n + 1 - l
      BY <1>3, <1>5, <3>1
    <3> QED  BY ONLY <1>3, <1>5, <2>12, <3>2 DEF Sole
  <2>14. PICK M, v : v = Upd(z[q], o) /\ Par(z, g, M, v, {i + 1}) /\ M[i + 1] = u
    BY <1>9, <2>12, <2>13
  <2>15. Going(w, z, M, v, {w.idx + 1})
    <3>1. Par(z, w.parent, M, v, {w.idx + 1})
      BY ONLY <2>1, <2>2, <2>10, <2>14
    <3>2. Fields(w) /\ Trees(w.disk, z)
      BY <1>2, <1>3 DEF IsWork
    <3> QED  BY ONLY <3>1, <3>2 DEF Going
  <2>16. Ready(w, z, M, v)
    <3>1. Fit(w.node) /\ Sound(z, w.node, M[w.idx + 1]) /\ ~w.done
      BY <1>2, <1>6, <1>9, <2>2, <2>10, <2>14 DEF IsWork
    <3>2. w.idx \in 0 .. Len(w.parent.ents)
      BY <2>1, <2>2, <2>10, <2>12
    <3> QED  BY ONLY <2>15, <3>1, <3>2 DEF Ready
  <2>17. v.h = depth + 2 - level
    <3>1. z[q] \in Label
      BY <1>8, <2>4
    <3>2. Upd(z[q], o).h = z[q].h
      BY ONLY <1>7, <2>11, <3>1, UpdLabel
    <3> QED  BY <1>1, <2>4, <2>14, <3>2
  <2>18. Aim(z, w, v)
    BY <1>1, <1>12, <2>1, <2>2, <2>6, <2>9, <2>14, <2>17 DEF Aim
  <2> QED  BY <2>16, <2>18
<1> QED  BY <1>11, <1>12

LEMMA UpGood ==
    ASSUME NEW z, Here(z), level > 0, NEW w, IsWork(w), NEW v, Aim(z, w, v),
           NEW x, NEW y, NEW N, Going(x, y, N, v, {}), Later(w, z, x, y, v.h - 1)
    PROVE  Climbs(y, x.disk, root, depth, op, path, level - 1, x.parent, x.made)
<1>1. PICK l, n, k, o, d, r, nd : /\ l = level /\ n = depth /\ k = op.key /\ o = op /\ d = disk
                                  /\ r = root /\ nd = x.parent
  OBVIOUS
<1>2. /\ Trees(d, z) /\ DOMAIN d \subseteq Page /\ n \in Nat /\ (n > 0 => Rooted(z, d, r, n))
      /\ Wanted(o) /\ made \subseteq Page /\ l \in 0 .. n /\ Sole(z, n + 1 - l, k)
      /\ Way(z, n, k, path, l)
  BY <1>1 DEF Here, Climbs, Holding
<1>3. l \in 1 .. n /\ l \in Nat /\ n > 0 /\ l - 1 \in 0 .. n
  BY <1>1, <1>2
<1>4. Rooted(z, d, r, n)
  BY <1>2, <1>3
<1>5. /\ Trees(x.disk, y) /\ Par(y, nd, N, v, {})
  BY <1>1 DEF Going
<1>6. /\ Extends(z, y) /\ w.disk = d /\ w.made \subseteq x.made /\ x.made \subseteq w.made \cup Page
      /\ \A m \in DOMAIN x.disk : m \in DOMAIN d \/ m \in Page \ w.made
      /\ \A m \in DOMAIN y : m \in DOMAIN z \/ y[m].h = v.h - 1
      /\ nd.page = w.parent.page /\ nd.ovh = w.parent.ovh
  BY <1>1 DEF Later, IsWork
<1>7. /\ v.h = n + 2 - l /\ w.made \subseteq made \cup Page
      /\ l > 1 => v = Upd(z[path[l - 1]], o) /\ w.parent.page = path[l - 1] /\ w.parent.ovh = IndexOvh
      /\ l = 1 => v = Whole(Changed(All(z, r, n), o), n) /\ w.parent.page \in w.made \ DOMAIN d
  BY <1>1 DEF Aim
<1>8. DOMAIN x.disk \subseteq Page /\ x.made \subseteq Page
  BY <1>2, <1>6, <1>7
<1>9. y[r] = z[r] /\ r \in DOMAIN y
  BY <1>4, <1>6 DEF Rooted, Extends
<1>10. Holding(y, x.disk, r, n)
  BY <1>2, <1>4, <1>5, <1>8, <1>9 DEF Rooted, Holding
<1>11. Sole(y, n + 1 - (l - 1), k)
  <2>1. ASSUME NEW m \in DOMAIN y, y[m].h >= n + 1 - (l - 1)
        PROVE  m \in DOMAIN z /\ y[m] = z[m] /\ z[m].h >= n + 1 - l
    <3>1. v.h - 1 = n + 1 - l /\ n + 1 - (l - 1) = (n + 1 - l) + 1 /\ n + 1 - l \in Int
      BY ONLY <1>2, <1>3, <1>7
    <3>2. y[m].h # v.h - 1
      BY ONLY <2>1, <3>1
    <3>3. m \in DOMAIN z
      BY ONLY <1>6, <2>1, <3>2
    <3>4. y[m] = z[m]
      BY ONLY <1>6, <3>3 DEF Extends
    <3>6. z[m].h \in Int
      <4>1. z[m] \in Label
        BY ONLY <1>2, <3>3 DEF Trees, Sound
      <4>2. z[m].h \in Nat
        BY ONLY <4>1, LabelIs
      <4> QED  BY ONLY <4>2
    <3>5. z[m].h >= n + 1 - l
      <4>1. z[m].h >= (n + 1 - l) + 1
        BY ONLY <2>1, <3>1, <3>4
      <4> QED  BY ONLY <3>1, <3>6, <4>1
    <3> QED  BY ONLY <3>3, <3>4, <3>5
  <2> QED  BY ONLY <1>2, <2>1 DEF Sole
<1>12. Way(y, n, k, path, l - 1)
  <2>1. path \in Seq(DOMAIN z) /\ Len(path) = n
    BY <1>2 DEF Way
  <2>2. DOMAIN z \subseteq DOMAIN y
    BY <1>6 DEF Extends
  <2>3. path \in Seq(DOMAIN y)
    BY ONLY <2>1, <2>2
  <2>4. ASSUME NEW i \in 1 .. l - 1
        PROVE  path[i] \in DOMAIN y /\ y[path[i]].h = n + 1 - i /\ Within(y[path[i]], k)
    <3>1. i \in 1 .. l
      BY <1>3
    <3>2. path[i] \in DOMAIN z /\ z[path[i]].h = n + 1 - i /\ Within(z[path[i]], k)
      BY <1>2, <3>1 DEF Way
    <3> QED  BY <1>6, <3>2 DEF Extends
  <2> QED  BY ONLY <2>1, <2>3, <2>4 DEF Way
<1>13. Sound(y, nd, v) /\ nd \in NodeType /\ ~nd.leaf /\ Exact(nd)
  <2>1. Sound(y, nd, v)
    BY ONLY <1>5, ParSound
  <2> QED  BY <1>5, <2>1 DEF Par
<1>14. l - 1 > 0 => AtLevel(y, o, path, l - 1, nd)
  <2> SUFFICES ASSUME l - 1 > 0 PROVE AtLevel(y, o, path, l - 1, nd)
    OBVIOUS
  <2>1. l > 1 /\ l - 1 \in 1 .. l
    BY <1>3
  <2>2. path[l - 1] \in DOMAIN z
    BY <1>2, <2>1 DEF Way
  <2>3. y[path[l - 1]] = z[path[l - 1]]
    BY <1>6, <2>2 DEF Extends
  <2>4. Fit(nd)
    BY <1>6, <1>7, <1>13, <2>1 DEF Fit, Usual
  <2> QED  BY <1>6, <1>7, <1>13, <2>1, <2>3, <2>4 DEF AtLevel
<1>15. l - 1 = 0 => Above(y, x.disk, r, n, o, nd, x.made)
  <2> SUFFICES ASSUME l - 1 = 0 PROVE Above(y, x.disk, r, n, o, nd, x.made)
    OBVIOUS
  <2>1. l = 1
    BY <1>3
  <2>2. All(y, r, n) = All(z, r, n)
    BY <1>9 DEF All
  <2>3. nd.page \in x.made /\ nd.page \notin DOMAIN x.disk
    BY <1>6, <1>7, <2>1
  <2> QED  BY <1>7, <1>13, <2>1, <2>2, <2>3 DEF Above
<1>16. Climbs(y, x.disk, r, n, o, path, l - 1, nd, x.made)
  <2>1. o.key = k
    BY <1>1
  <2> QED  BY ONLY <1>2, <1>3, <1>8, <1>10, <1>11, <1>12, <1>14, <1>15, <2>1 DEF Climbs
<1> QED  BY ONLY <1>1, <1>16

LEMMA SpreadMade ==
    ASSUME NEW w, Fields(w)
    PROVE  Grows(w, Spread(w))
<1>1. PICK a, b : a = (IF w.idx > 0 THEN SpreadLeft(w) ELSE w) /\ b = ThenRight(a)
  OBVIOUS
<1>2. Spread(w) = b
  BY <1>1 DEF Spread
<1>3. Grows(w, a)
  BY <1>1, SpreadGrows DEF Grows
<1>4. Grows(a, a) /\ Fields(a)
  BY <1>3 DEF Grows
<1>5. Grows(a, b)
  BY <1>1, <1>4, SpreadGrows DEF ThenRight
<1> QED  BY <1>2, <1>3, <1>5, GrowsThen

LEMMA SplitMade ==
    ASSUME NEW w, Fields(w)
    PROVE  w.made \subseteq Split(w).made
<1>1. \A u, p : Fields(u) => Grows(u, SplitOff(u, p))
  BY DEF SplitOff, Grows, Fields
<1>2. \A u : Fields(u) => Grows(u, SplitOnce(u))
  BY <1>1 DEF SplitOnce
<1>3. PICK a, b, c : a = SplitOnce(w) /\ b = SplitAgain(a) /\ c = ReposNode(b)
  OBVIOUS
<1>4. Grows(w, a)
  BY <1>2, <1>3
<1>5. Fields(a)
  BY <1>4 DEF Grows
<1>6. Grows(a, b)
  BY <1>2, <1>3, <1>5 DEF SplitAgain, Grows
<1>7. Fields(b)
  BY <1>6 DEF Grows
<1>8. Grows(b, c)
  BY <1>3, <1>7, ReposGrows DEF ReposNode
<1> QED  BY <1>3, <1>4, <1>6, <1>8, GrowsThen DEF Split, Grows

Rounded(z, w, x) ==
    \E M, v, y, N : Ready(w, z, M, v) /\ Aim(z, w, v) /\ Outcome(w, z, x, y, N, v)
LEMMA SpreadingGood ==
    ASSUME NEW z, Here(z), level > 0, NEW w, w = Work, NEW x, x = Spreading, ~x.bad, 0 \notin x.made
    PROVE  Rounded(z, w, x)
<1>1. IsWork(w)
  BY WorkIs
<1>2. Grows(w, w) /\ Fields(w)
  BY <1>1 DEF IsWork, Grows
<1>3. x = w \/ x = Spread(w)
  BY DEF Spreading
<1>4. 0 \notin w.made
  BY <1>2, <1>3, SpreadMade DEF Grows
<1>5. PICK M, v : Ready(w, z, M, v) /\ Aim(z, w, v)
  BY <1>4, WorkGood
<1>6. \E y, N : Outcome(w, z, x, y, N, v)
  <2>1. CASE x = w
    BY ONLY <1>5, <2>1, OutcomeSame
  <2>2. CASE x = Spread(w)
    BY ONLY <1>5, <2>2, ~x.bad, 0 \notin x.made, SpreadGood
  <2> QED  BY <1>3, <2>1, <2>2
<1> QED  BY <1>5, <1>6 DEF Rounded

-----------------------------------------------------------------------------
(* The inductive invariant: labels z tell of pages of the disk what they   *)
(* hold; the tree of the header, and while an update climbs its node, the  *)
(* pages captured for it, and the way to its key, are right for them.      *)
Right(z) ==
    /\ Holding(z, disk, root, depth)
    /\ pc = "balance" => Here(z)
    /\ pc = "whead" => /\ node.page \in DOMAIN z
                       /\ z[node.page] = Whole(Changed(All(z, root, depth), op), depth)
    /\ pc = "finish" => \E c : All(z, root, depth) = Changed(c, op)
Kinds ==
    /\ DOMAIN disk \subseteq Page /\ made \subseteq Page
    /\ pc \in {"idle", "balance", "whead", "finish"}
    /\ depth = 0 => root = 0
    /\ pc # "idle" => op \in [key : Key, size : RecSize \cup {0}]
IInv == Kinds /\ \E z : Right(z)

(* A step keeps it, and the records are what they were or have the request *)
(* done.                                                                   *)
Kept(z, y) == Right(y)' /\ All(y, root', depth') = All(z, root, depth)
Made(z, y) == Right(y)' /\ op' = op /\ All(y, root', depth') = Changed(All(z, root, depth), op)

LEMMA OfIs ==
    /\ Levels = LevelsOf(disk, root, depth)
    /\ Reach = ReachOf(disk, root, depth)
    /\ \A k : Getpath(k) = PathOf(disk, root, depth, k)
<1>1. Levels = LevelsOf(disk, root, depth)
  BY DEF Levels, LevelsOf, LevelsFrom
<1>2. Reach = ReachOf(disk, root, depth)
  BY <1>1 DEF Reach, ReachOf
<1>3. ASSUME NEW k PROVE Getpath(k) = PathOf(disk, root, depth, k)
  BY DEF Getpath, PathOf, PathFrom
<1> QED  BY <1>1, <1>2, <1>3

LEMMA HoldingIs ==
    ASSUME NEW z, NEW d, NEW r, NEW n, Holding(z, d, r, n)
    PROVE  /\ n \in Nat /\ Trees(d, z) /\ DOMAIN d \subseteq Page /\ DOMAIN z \subseteq Page
           /\ n > 0 => Rooted(z, d, r, n) /\ r \in Page /\ r # 0 /\ All(z, r, n) = z[r].c
           /\ n = 0 => All(z, r, n) = {}
<1>1. n \in Nat /\ Trees(d, z) /\ DOMAIN d \subseteq Page /\ (n > 0 => Rooted(z, d, r, n))
  BY DEF Holding
<1>2. DOMAIN z \subseteq Page
  BY <1>1 DEF Trees
<1>3. n > 0 => r \in Page
  BY <1>1, <1>2 DEF Rooted
<1>4. r \in Page => r # 0
  BY DEF Page
<1> QED  BY <1>1, <1>2, <1>3, <1>4 DEF All

LEMMA UpdIs ==
    ASSUME NEW v \in Label, NEW o
    PROVE  Upd(v, o).c = Changed(v.c, o) /\ Upd(v, o).h = v.h /\ Upd(v, o).lo = v.lo /\ Upd(v, o).hi = v.hi
<1>1. PICK x : x = Changed(v.c, o)
  OBVIOUS
<1>2. Upd(v, o) = [v EXCEPT !.c = x]
  BY ONLY <1>1 DEF Upd, Changed
<1> QED  BY <1>1, <1>2 DEF Label

LEMMA ForgetGood ==
    ASSUME Kinds, NEW z, Right(z), Forget
    PROVE  Kinds' /\ \E y : Kept(z, y)
<1>1. PICK d, r, n, R : d = disk /\ r = root /\ n = depth /\ R = Reach
  OBVIOUS
<1>2. Holding(z, d, r, n) /\ R = ReachOf(d, r, n)
  BY <1>1, OfIs DEF Right
<1>3. PICK y, e : y = Within1(z, R) /\ e = Within1(d, R)
  OBVIOUS
<1>4. disk' = e /\ root' = r /\ depth' = n /\ pc' = "idle" /\ made' = {}
  BY <1>1, <1>3 DEF Forget, Within1, Goto, header
<1>5. Holding(y, e, r, n) /\ All(y, r, n) = All(z, r, n)
  <2>1. CASE n = 0
    <3>1. R = {}
      BY <1>2, <2>1 DEF ReachOf
    <3>2. DOMAIN y = {} /\ DOMAIN e = {}
      BY <1>3, <3>1 DEF Within1
    <3> QED  BY <2>1, <3>2 DEF Holding, Trees, All
  <2>2. CASE n # 0
    <3>1. Rooted(z, d, r, n) /\ n > 0 /\ n \in Nat /\ DOMAIN d \subseteq Page
      BY <1>2, <2>2, HoldingIs
    <3>2. Rooted(y, d, r, n) /\ Rooted(y, e, r, n) /\ y[r] = z[r]
      BY ONLY <1>2, <1>3, <3>1, ReachGood
    <3>3. R \subseteq DOMAIN d
      BY ONLY <1>2, <3>1, ReachIs
    <3>4. DOMAIN e \subseteq Page
      BY <1>3, <3>1, <3>3 DEF Within1
    <3> QED  BY <2>2, <3>1, <3>2, <3>4 DEF Holding, Rooted, All
  <2> QED  BY <2>1, <2>2
<1>6. Right(y)'
  BY <1>4, <1>5 DEF Right
<1>7. Kinds'
  <2>1. DOMAIN e \subseteq Page
    BY <1>5 DEF Holding
  <2>2. n = 0 => r = 0
    BY <1>1 DEF Kinds
  <2> QED  BY <1>4, <2>1, <2>2 DEF Kinds
<1> QED  BY <1>1, <1>4, <1>5, <1>6, <1>7 DEF Kept

(* The steps of _update() before the climb.                                *)
LEMMA BegunGood ==
    ASSUME Kinds, NEW z, Right(z), pc' = "balance", NEW k \in Key, NEW s \in RecSize \cup {0},
           op' = [key |-> k, size |-> s], path' = PathOf(disk, root, depth, k), level' = depth,
           UNCHANGED <<disk, root, depth>>, made' \in SUBSET Page,
           NEW y, All(y, root, depth) = All(z, root, depth),
           Climbs(y, disk, root, depth, op', path', level', node', made')
    PROVE  Kinds' /\ \E x : Kept(z, x)
<1>1. Holding(y, disk, root, depth)
  BY DEF Climbs
<1>2. Here(y)' /\ pc' # "whead" /\ pc' # "finish" /\ Holding(y, disk, root, depth)'
  BY <1>1 DEF Here
<1>3. Right(y)'
  BY ONLY <1>2 DEF Right
<1>4. Kinds'
  <2>1. op' \in [key : Key, size : RecSize \cup {0}]
    OBVIOUS
  <2> QED  BY <2>1 DEF Kinds
<1> QED  BY <1>3, <1>4 DEF Kept

LEMMA FirstGood ==
    ASSUME Kinds, NEW z, Right(z), NEW k \in Key, NEW s \in RecSize, Put(k, s), depth = 0
    PROVE  Kinds' /\ \E x : Kept(z, x)
<1>1. PICK o, new, nd, y, P, R : /\ o = [key |-> k, size |-> s] /\ new = Freshnode(Unused(DOMAIN disk), TRUE)
                           /\ nd = Addpage(new, 0, o) /\ R = {} /\ y = Within1(z, R)
                           /\ P = PathOf(disk, root, 0, o.key)
  OBVIOUS
<1>2. o \in [key : Key, size : RecSize \cup {0}] /\ o.key = k /\ o.size = s
  BY <1>1
<1>3. /\ op' = o /\ pc' = "balance" /\ path' = Getpath(k) /\ level' = depth /\ node' = nd
      /\ disk' = disk /\ root' = root /\ depth' = depth /\ new.page # 0 /\ made' = {new.page}
  BY <1>1 DEF Put, Begin, Goto, header
<1>4. Getpath(k) = PathOf(disk, root, depth, k)
  BY OfIs
<1>5. s # 0
  BY GeometryAssumption
<1>6. DOMAIN disk \subseteq Page
  BY DEF Kinds
<1>7. DOMAIN y = {}
  BY <1>1 DEF Within1
<1>8. Wanted(o)
  BY <1>2, WantedIs
<1>9. Climbs(y, disk, root, 0, o, P, 0, nd, {new.page}) /\ new.page \in Page
  <2>1. PICK d, r : d = disk /\ r = root
    OBVIOUS
  <2>2. DOMAIN d \subseteq Page /\ new = Freshnode(Unused(DOMAIN d), TRUE) /\ P = PathOf(d, r, 0, o.key)
        /\ o.size # 0
    BY ONLY <1>1, <1>2, <1>5, <1>6, <2>1
  <2>3. new.page # 0 /\ nd = Addpage(new, 0, o)
    BY <1>1, <1>3
  <2>4. Climbs(y, d, r, 0, o, P, 0, nd, {new.page}) /\ new.page \in Page
    BY ONLY <1>7, <1>8, <2>2, <2>3, FirstLeaf
  <2> QED  BY ONLY <2>1, <2>4
<1>10. All(y, root, depth) = All(z, root, depth)
  BY DEF All
<1>11. path' = P
  BY <1>1, <1>2, <1>3, <1>4
<1>12. Climbs(y, disk, root, depth, op', path', level', node', made')
  BY ONLY <1>3, <1>9, <1>11, depth = 0
<1>13. made' \in SUBSET Page /\ op' = [key |-> k, size |-> s] /\ path' = PathOf(disk, root, depth, k)
       /\ UNCHANGED <<disk, root, depth>> /\ s \in RecSize \cup {0} /\ level' = depth
  BY <1>1, <1>3, <1>4, <1>9
<1> QED  BY ONLY <1>3, <1>10, <1>12, <1>13, BegunGood, Kinds, Right(z), k \in Key

LEMMA LeafGood ==
    ASSUME Kinds, NEW z, Right(z), NEW k \in Key, NEW s \in RecSize \cup {0}, depth # 0,
           op' = [key |-> k, size |-> s], UNCHANGED made,
           NEW leaf, leaf = Getnode(disk, Getpath(k)[depth]), NEW b, b = Below(leaf.ents, k),
           NEW nd, Begin(k, nd),
           nd = IF s = 0 THEN Delpage(leaf, b)
                ELSE IF Found(leaf.ents, k) THEN Modpage(leaf, b, op') ELSE Addpage(leaf, b, op'),
           s = 0 => Found(leaf.ents, k)
    PROVE  Kinds' /\ \E x : Kept(z, x)
<1>1. PICK o, d, r, n, R, P : /\ o = [key |-> k, size |-> s] /\ d = disk /\ r = root /\ n = depth
                              /\ R = ReachOf(d, r, n) /\ P = PathOf(d, r, n, k)
  OBVIOUS
<1>2. PICK y, e : y = Within1(z, R) /\ e = Within1(d, R)
  OBVIOUS
<1>3. o \in [key : Key, size : RecSize \cup {0}] /\ o.key = k /\ o.size = s /\ op' = o
  BY <1>1
<1>4. /\ pc' = "balance" /\ path' = P /\ level' = n /\ node' = nd
      /\ disk' = disk /\ root' = root /\ depth' = depth
  <2>1. Getpath(k) = P
    BY <1>1, OfIs
  <2> QED  BY <1>1, <2>1 DEF Begin, Goto, header
<1>5. Rooted(z, d, r, n) /\ n > 0 /\ n \in Nat /\ DOMAIN d \subseteq Page
  BY <1>1, HoldingIs DEF Right
<1>6. Wanted(o) /\ k \in Nat
  BY <1>3, WantedIs DEF Wanted
<1>7. Rooted(y, d, r, n) /\ y[r] = z[r] /\ Sole(y, 1, k) /\ Way(y, n, k, P, n)
  <2>1. /\ Rooted(y, d, r, n) /\ Rooted(y, e, r, n) /\ y[r] = z[r]
        /\ \A j \in Nat : Sole(y, 1, j) /\ Way(y, n, j, PathOf(d, r, n, j), n)
    BY ONLY <1>1, <1>2, <1>5, ReachGood
  <2> QED  BY <1>1, <1>6, <2>1
<1>8. Holding(y, d, r, n)
  BY <1>5, <1>7 DEF Holding, Rooted
<1>9. leaf = Getnode(d, P[n])
  BY <1>1, OfIs
<1>10. Fit(leaf) /\ leaf.page = P[n] /\ LeafFor(y, leaf, y[P[n]], o)
  <2>1. Way(y, n, o.key, P, n)
    BY <1>3, <1>7
  <2> QED  BY ONLY <1>5, <1>6, <1>8, <1>9, <2>1, LeafFound
<1>11. PICK v : v = y[P[n]]
  OBVIOUS
<1>12. Updated(y, nd, leaf, v, o)
  <2>1. LeafFor(y, leaf, v, o) /\ Below(leaf.ents, o.key) = b
    BY <1>3, <1>10, <1>11
  <2>2. CASE s = 0
    <3>1. Found(leaf.ents, o.key) /\ o.size = 0 /\ nd = Delpage(leaf, b)
      BY <1>3, <2>2
    <3>2. Updated(y, Delpage(leaf, Below(leaf.ents, o.key)), leaf, v, o)
      BY ONLY <2>1, <3>1, LeafDel
    <3> QED  BY ONLY <2>1, <3>1, <3>2
  <2>3. CASE s # 0 /\ Found(leaf.ents, k)
    <3>1. Found(leaf.ents, o.key) /\ o.size # 0 /\ nd = Modpage(leaf, b, o)
      BY <1>3, <2>3
    <3>2. Updated(y, Modpage(leaf, Below(leaf.ents, o.key), o), leaf, v, o)
      BY ONLY <2>1, <3>1, LeafMod
    <3> QED  BY ONLY <2>1, <3>1, <3>2
  <2>4. CASE s # 0 /\ ~Found(leaf.ents, k)
    <3>1. ~Found(leaf.ents, o.key) /\ o.size # 0 /\ nd = Addpage(leaf, b, o)
      BY <1>3, <2>4
    <3>2. Updated(y, Addpage(leaf, Below(leaf.ents, o.key), o), leaf, v, o)
      BY ONLY <2>1, <3>1, LeafAdd
    <3> QED  BY ONLY <2>1, <3>1, <3>2
  <2> QED  BY <2>2, <2>3, <2>4
<1>13. PICK mk : mk = made
  OBVIOUS
<1>14. mk \in SUBSET Page
  BY <1>13 DEF Kinds
<1>15. Climbs(y, d, r, n, o, P, n, nd, mk)
  <2>1. Sole(y, 1, o.key) /\ Way(y, n, o.key, P, n) /\ Updated(y, nd, leaf, y[P[n]], o)
    BY <1>3, <1>7, <1>11, <1>12
  <2> QED  BY ONLY <1>5, <1>6, <1>8, <1>10, <1>14, <2>1, BegunIs
<1>16. Climbs(y, disk, root, depth, op', path', level', node', made')
  BY ONLY <1>1, <1>3, <1>4, <1>13, <1>15, UNCHANGED made
<1>17. All(y, root, depth) = All(z, root, depth)
  BY <1>1, <1>7 DEF All
<1>18. made' \in SUBSET Page /\ path' = PathOf(disk, root, depth, k)
       /\ UNCHANGED <<disk, root, depth>> /\ level' = depth
  BY <1>1, <1>4, <1>13, <1>14
<1> QED  BY ONLY <1>4, <1>16, <1>17, <1>18, BegunGood, Kinds, Right(z), k \in Key,
                 s \in RecSize \cup {0}, op' = [key |-> k, size |-> s]

LEMMA PutGood ==
    ASSUME Kinds, NEW z, Right(z), NEW k \in Key, NEW s \in RecSize, Put(k, s)
    PROVE  Kinds' /\ \E x : Kept(z, x)
<1>1. CASE depth = 0
  BY <1>1, FirstGood
<1>2. CASE depth # 0
  <2>1. PICK leaf, b : leaf = Getnode(disk, Getpath(k)[depth]) /\ b = Below(leaf.ents, k)
    OBVIOUS
  <2>2. PICK nd : nd = IF Found(leaf.ents, k) THEN Modpage(leaf, b, op') ELSE Addpage(leaf, b, op')
    OBVIOUS
  <2>3. op' = [key |-> k, size |-> s] /\ UNCHANGED made
    BY <1>2 DEF Put
  <2>4. Begin(k, IF Found(leaf.ents, k) THEN Modpage(leaf, Below(leaf.ents, k), op')
                 ELSE Addpage(leaf, Below(leaf.ents, k), op'))
    BY <1>2, <2>1 DEF Put
  <2>5. Begin(k, nd)
    BY ONLY <2>1, <2>2, <2>4
  <2>6. s # 0 /\ s \in RecSize \cup {0}
    BY GeometryAssumption
  <2>7. nd = IF s = 0 THEN Delpage(leaf, b)
             ELSE IF Found(leaf.ents, k) THEN Modpage(leaf, b, op') ELSE Addpage(leaf, b, op')
    BY ONLY <2>2, <2>6
  <2> QED  BY ONLY <1>2, <2>1, <2>3, <2>5, <2>6, <2>7, LeafGood, Kinds, Right(z), k \in Key
<1> QED  BY <1>1, <1>2

LEMMA DeleteGood ==
    ASSUME Kinds, NEW z, Right(z), NEW k \in Key, Delete(k)
    PROVE  Kinds' /\ \E x : Kept(z, x)
<1>1. PICK leaf, b, nd, s : /\ leaf = Getnode(disk, Getpath(k)[depth]) /\ b = Below(leaf.ents, k)
                            /\ nd = Delpage(leaf, b) /\ s = 0
  OBVIOUS
<1>2. op' = [key |-> k, size |-> s] /\ UNCHANGED made /\ depth # 0 /\ Found(leaf.ents, k)
  BY <1>1 DEF Delete
<1>3. Begin(k, nd)
  BY <1>1 DEF Delete
<1>4. nd = IF s = 0 THEN Delpage(leaf, b)
           ELSE IF Found(leaf.ents, k) THEN Modpage(leaf, b, op') ELSE Addpage(leaf, b, op')
  BY ONLY <1>1
<1>5. s \in RecSize \cup {0}
  BY <1>1
<1> QED  BY ONLY <1>1, <1>2, <1>3, <1>4, <1>5, LeafGood, Kinds, Right(z), k \in Key

(* The steps that publish the new tree.                                    *)
LEMMA GrowGood ==
    ASSUME Kinds, NEW z, Right(z), Grow
    PROVE  Kinds' /\ \E x : Kept(z, x)
<1>1. PICK d, r, n, o, nd, p, v, y : /\ d = disk /\ r = root /\ n = depth /\ o = op /\ nd = node
                                     /\ p = nd.page /\ v = Whole(Changed(All(z, r, n), o), n)
                                     /\ y = Add(z, p, v)
  OBVIOUS
<1>2. /\ pc = "balance" /\ level = 0 /\ disk' = Putnode(d, nd) /\ pc' = "whead"
      /\ root' = r /\ depth' = n /\ op' = o /\ node' = nd /\ made' = made
  BY <1>1 DEF Grow, Goto, header, update, lists
<1>3. Holding(z, d, r, n) /\ Above(z, d, r, n, o, nd, made) /\ made \subseteq Page
  BY <1>1, <1>2 DEF Right, Here, Climbs
<1>4. p \in Page /\ p \notin DOMAIN d /\ Sound(z, nd, v)
  BY <1>1, <1>3 DEF Above
<1>5. n \in Nat /\ Trees(d, z) /\ DOMAIN d \subseteq Page /\ (n > 0 => Rooted(z, d, r, n))
  BY <1>3 DEF Holding
<1>6. p \notin DOMAIN z
  BY <1>4, <1>5 DEF Trees
<1>7. Trees(Putnode(d, nd), y) /\ Extends(z, y) /\ p \in DOMAIN y /\ y[p] = v
  <2>1. nd.page \notin DOMAIN z /\ Sound(z, nd, v) /\ Trees(d, z) /\ y = Add(z, nd.page, v)
    BY <1>1, <1>4, <1>5, <1>6
  <2>2. Trees(Putnode(d, nd), Add(z, nd.page, v)) /\ Extends(z, Add(z, nd.page, v))
    BY ONLY <2>1, AddGood
  <2>3. p \in DOMAIN y /\ y[p] = v
    BY <1>1 DEF Add
  <2> QED  BY ONLY <2>1, <2>2, <2>3
<1>8. DOMAIN Putnode(d, nd) \subseteq Page
  BY <1>1, <1>4, <1>5 DEF Putnode
<1>9. n > 0 => r \in DOMAIN y /\ y[r] = z[r]
  BY <1>5, <1>7 DEF Rooted, Extends
<1>10. Holding(y, Putnode(d, nd), r, n) /\ All(y, r, n) = All(z, r, n)
  BY <1>5, <1>7, <1>8, <1>9 DEF Holding, Rooted, All
<1>11. Right(y)'
  <2>1. Holding(y, disk, root, depth)'
    BY <1>2, <1>10
  <2>2. (node.page \in DOMAIN y /\ y[node.page] = Whole(Changed(All(y, root, depth), op), depth))'
    BY <1>1, <1>2, <1>7, <1>10
  <2> QED  BY <1>2, <2>1, <2>2 DEF Right
<1>12. Kinds'
  BY <1>1, <1>2, <1>8 DEF Kinds
<1> QED  BY <1>1, <1>2, <1>10, <1>11, <1>12 DEF Kept

LEMMA WheadGood ==
    ASSUME Kinds, NEW z, Right(z), Whead
    PROVE  Kinds' /\ \E x : Made(z, x)
<1>1. PICK d, r, n, o, p, c : /\ d = disk /\ r = root /\ n = depth /\ o = op /\ p = node.page
                              /\ c = Changed(All(z, r, n), o)
  OBVIOUS
<1>2. /\ pc = "whead" /\ disk' = d /\ pc' = "finish" /\ root' = p /\ depth' = n + 1 /\ op' = o
      /\ made' = made
  BY <1>1 DEF Whead, Goto, update, lists
<1>3. Holding(z, d, r, n) /\ p \in DOMAIN z /\ z[p] = Whole(c, n)
  BY <1>1, <1>2 DEF Right
<1>4. n \in Nat /\ Trees(d, z) /\ DOMAIN d \subseteq Page
  BY <1>3 DEF Holding
<1>5. n + 1 \in Nat /\ n + 1 > 0 /\ n + 1 # 0
  BY <1>4
<1>6. Holding(z, d, p, n + 1) /\ All(z, p, n + 1) = c
  BY <1>3, <1>4, <1>5 DEF Holding, Rooted, Whole, All
<1>7. Right(z)'
  BY <1>1, <1>2, <1>6 DEF Right
<1>8. Kinds'
  BY <1>1, <1>2, <1>5 DEF Kinds
<1> QED  BY <1>1, <1>2, <1>6, <1>7, <1>8 DEF Made

(* The node of the first level is the root. *)
LEMMA RootFirst ==
    ASSUME NEW z, NEW d, NEW r, NEW n, NEW o, NEW P, NEW l, NEW nd, NEW mk,
           Climbs(z, d, r, n, o, P, l, nd, mk), l > 0
    PROVE  /\ n > 0 /\ Rooted(z, d, r, n) /\ P[1] = r /\ P[l] \in DOMAIN z
           /\ z[P[l]].h = n + 1 - l /\ n + 1 - l \in Nat /\ n + 1 - l =< n
           /\ Within(z[P[l]], o.key) /\ Alone(z, n + 1 - l, o.key, P[l])
           /\ Wanted(o) /\ Request(o) /\ AtLevel(z, o, P, l, nd)
<1>1. /\ Trees(d, z) /\ n \in Nat /\ (n > 0 => Rooted(z, d, r, n)) /\ Wanted(o)
      /\ l \in 0 .. n /\ Sole(z, n + 1 - l, o.key) /\ Way(z, n, o.key, P, l) /\ AtLevel(z, o, P, l, nd)
  BY DEF Climbs, Holding
<1>2. l \in 1 .. n /\ 1 \in 1 .. l /\ n > 0 /\ n + 1 - l \in Nat /\ n + 1 - l =< n /\ n + 1 - 1 = n
      /\ n >= n + 1 - l /\ n + 1 - l >= n + 1 - l /\ l \in 1 .. l
  BY <1>1
<1>3. /\ P[l] \in DOMAIN z /\ z[P[l]].h = n + 1 - l /\ Within(z[P[l]], o.key)
      /\ P[1] \in DOMAIN z /\ z[P[1]].h = n /\ Within(z[P[1]], o.key)
  BY <1>1, <1>2 DEF Way
<1>4. Rooted(z, d, r, n) /\ o.key \in Nat
  BY <1>1, <1>2 DEF Wanted
<1>5. r \in DOMAIN z /\ z[r].h = n /\ Within(z[r], o.key)
  BY <1>4 DEF Rooted, Within, Before
<1>6. P[1] = r
  BY ONLY <1>1, <1>2, <1>3, <1>5 DEF Sole
<1>7. Alone(z, n + 1 - l, o.key, P[l])
  BY ONLY <1>1, <1>2, <1>3 DEF Sole, Alone
<1>8. Request(o)
  BY <1>1 DEF Wanted, Request
<1> QED  BY ONLY <1>1, <1>2, <1>3, <1>4, <1>6, <1>7, <1>8

(* The node is written over its old page.                                  *)
LEMMA OverGood ==
    ASSUME NEW z, NEW d, NEW r, NEW n, NEW o, NEW P, NEW l, NEW nd, NEW mk,
           Climbs(z, d, r, n, o, P, l, nd, mk), l > 0
    PROVE  \E y : /\ Holding(y, Putnode(d, nd), r, n)
                  /\ All(y, r, n) = Changed(All(z, r, n), o)
<1>1. PICK h, y, p : h = n + 1 - l /\ y = Published(z, h, o) /\ p = P[l]
  OBVIOUS
<1>2. /\ n > 0 /\ Rooted(z, d, r, n) /\ p \in DOMAIN z /\ z[p].h = h /\ h \in Nat /\ h =< n
      /\ Within(z[p], o.key) /\ Alone(z, h, o.key, p) /\ Request(o) /\ AtLevel(z, o, P, l, nd)
  BY ONLY <1>1, RootFirst, Climbs(z, d, r, n, o, P, l, nd, mk), l > 0
<1>3. nd.page = p /\ Sound(z, nd, Upd(z[p], o))
  BY <1>1, <1>2 DEF AtLevel
<1>4. DOMAIN d \subseteq Page /\ n \in Nat /\ Trees(d, z)
  BY DEF Climbs, Holding
<1>5. Rooted(y, Putnode(d, nd), r, n) /\ y[r].c = Upd(z[r], o).c
  <2>1. /\ nd.page \in DOMAIN z /\ h = z[nd.page].h /\ Within(z[nd.page], o.key)
        /\ Alone(z, h, o.key, nd.page) /\ Sound(z, nd, Upd(z[nd.page], o))
    BY <1>2, <1>3
  <2> QED  BY ONLY <1>1, <1>2, <2>1, PublishRooted
<1>6. z[r] \in Label
  BY <1>2, <1>4 DEF Rooted, Trees, Sound
<1>7. Upd(z[r], o).c = Changed(z[r].c, o)
  BY <1>6, UpdIs
<1>8. DOMAIN Putnode(d, nd) \subseteq Page
  BY <1>2, <1>3, <1>4 DEF Putnode, Trees
<1>9. All(y, r, n) = y[r].c /\ All(z, r, n) = z[r].c
  BY <1>2 DEF All
<1>10. Holding(y, Putnode(d, nd), r, n)
  BY <1>4, <1>5, <1>8 DEF Holding, Rooted
<1> QED  BY <1>5, <1>7, <1>9, <1>10

LEMMA WrittenGood ==
    ASSUME Kinds, NEW z, Right(z), pc = "balance", level > 0, disk' = Putnode(disk, node),
           UNCHANGED <<root, depth, op>>, pc' = "finish", made' \in SUBSET Page
    PROVE  Kinds' /\ \E x : Made(z, x)
<1>1. PICK d, r, n, o, nd : d = disk /\ r = root /\ n = depth /\ o = op /\ nd = node
  OBVIOUS
<1>2. Climbs(z, d, r, n, o, path, level, nd, made)
  BY <1>1 DEF Right, Here
<1>3. PICK y : Holding(y, Putnode(d, nd), r, n) /\ All(y, r, n) = Changed(All(z, r, n), o)
  <2>1. PICK P, l, mk : P = path /\ l = level /\ mk = made
    OBVIOUS
  <2>2. Climbs(z, d, r, n, o, P, l, nd, mk) /\ l > 0
    BY ONLY <1>2, <2>1, level > 0
  <2> QED  BY ONLY <2>2, OverGood
<1>4. /\ disk' = Putnode(d, nd) /\ root' = r /\ depth' = n /\ op' = o
  BY <1>1
<1>5. Right(y)'
  BY <1>3, <1>4 DEF Right
<1>6. Kinds'
  <2>1. DOMAIN Putnode(d, nd) \subseteq Page
    BY <1>3 DEF Holding
  <2> QED  BY <1>1, <1>4, <2>1 DEF Kinds
<1> QED  BY <1>1, <1>3, <1>4, <1>5, <1>6 DEF Made

LEMMA InPlaceGood ==
    ASSUME Kinds, NEW z, Right(z), InPlace
    PROVE  Kinds' /\ \E x : Made(z, x)
<1>1. /\ pc = "balance" /\ level > 0 /\ disk' = Putnode(disk, node) /\ UNCHANGED <<root, depth, op>>
      /\ pc' = "finish" /\ made' = made
  BY DEF InPlace, Goto, header, update, lists
<1>2. made' \in SUBSET Page
  BY <1>1 DEF Kinds
<1> QED  BY <1>1, <1>2, WrittenGood

(* The round of a climb that goes on. *)
LEMMA SpreadingFields ==
    ASSUME NEW x, x = Spreading
    PROVE  Fields(x) /\ IsWork(Work) /\ Work.made \subseteq x.made
<1>1. IsWork(Work)
  BY WorkIs
<1>2. Fields(Work)
  BY <1>1 DEF IsWork
<1>3. Grows(Work, Spread(Work)) /\ Grows(Work, Work)
  BY <1>2, SpreadMade DEF Grows
<1> QED  BY <1>1, <1>3 DEF Spreading, Grows

LEMMA ClimbStayGood ==
    ASSUME Kinds, NEW z, Right(z), ClimbStay
    PROVE  Kinds' /\ \E x : Made(z, x)
<1>1. PICK w, x, u : w = Work /\ x = Spreading /\ u = [x EXCEPT !.disk = Putnode(@, x.node)]
  OBVIOUS
<1>2. /\ pc = "balance" /\ level > 0 /\ pc' = "finish" /\ ~x.bad /\ ~x.done /\ x.node.end =< PgSize /\ Up(u)
  BY <1>1 DEF ClimbStay, Climbing, UpStay, Goto
<1>3. Fields(x) /\ IsWork(w)
  BY <1>1, SpreadingFields
<1>4. u.disk = Putnode(x.disk, x.node) /\ u.made = x.made
  BY <1>1, <1>3 DEF Fields
<1>5. 0 \notin u.made /\ disk' = u.disk /\ made' = u.made /\ UNCHANGED <<root, depth, op>>
  BY <1>2 DEF Up, header
<1>6. Here(z)
  BY <1>2 DEF Right
<1>7. Rounded(z, w, x)
  BY ONLY <1>1, <1>2, <1>4, <1>5, <1>6, SpreadingGood
<1>8. PICK M, v, y, N : Ready(w, z, M, v) /\ Aim(z, w, v) /\ Outcome(w, z, x, y, N, v)
  BY <1>7 DEF Rounded
<1>9. Ready(x, y, N, v) /\ (x = w \/ x.node.end > PgSize)
  BY <1>2, <1>8 DEF Outcome
<1>10. x.node.end \in Int /\ PgSize \in Nat
  BY <1>9, SizesAssumption DEF Ready, Fit, NodeType
<1>11. x = w
  BY <1>2, <1>9, <1>10
<1>12. disk' = Putnode(disk, node)
  BY <1>3, <1>4, <1>5, <1>11 DEF IsWork
<1>13. made' \in SUBSET Page
  BY <1>4, <1>5, <1>8, <1>11 DEF Aim, Kinds
<1> QED  BY <1>2, <1>5, <1>12, <1>13, WrittenGood

LEMMA ClimbedGood ==
    ASSUME Kinds, NEW z, Right(z), pc = "balance", level > 0, pc' = pc,
           NEW w, IsWork(w), NEW v, Aim(z, w, v),
           NEW x, NEW y, NEW N, Going(x, y, N, v, {}), Later(w, z, x, y, v.h - 1), Up(x)
    PROVE  Kinds' /\ \E u : Kept(z, u)
<1>1. PICK d, r, n, o, P, l : d = x.disk /\ r = root /\ n = depth /\ o = op /\ P = path /\ l = level
  OBVIOUS
<1>2. Here(z)
  BY DEF Right
<1>3. Climbs(y, x.disk, root, depth, op, path, level - 1, x.parent, x.made)
  BY ONLY <1>2, UpGood, level > 0, IsWork(w), Aim(z, w, v), Going(x, y, N, v, {}), Later(w, z, x, y, v.h - 1)
<1>4. /\ disk' = d /\ made' = x.made /\ node' = x.parent /\ level' = l - 1 /\ root' = r /\ depth' = n
      /\ op' = o /\ path' = P
  BY <1>1 DEF Up, header
<1>5. Climbs(y, d, r, n, o, P, l - 1, x.parent, x.made)
  BY ONLY <1>1, <1>3
<1>6. Here(y)'
  BY <1>4, <1>5 DEF Here
<1>7. Holding(y, d, r, n) /\ x.made \subseteq Page
  BY <1>5 DEF Climbs
<1>8. Right(y)'
  BY <1>4, <1>6, <1>7 DEF Right
<1>9. DOMAIN d \subseteq Page
  BY <1>7 DEF Holding
<1>10. Kinds'
  BY <1>1, <1>4, <1>7, <1>9 DEF Kinds
<1>11. All(y, r, n) = All(z, r, n)
  <2>1. Holding(z, d, r, n) \/ Holding(z, disk, r, n)
    BY <1>1, <1>2 DEF Here, Climbs
  <2>2. n > 0 => r \in DOMAIN z
    BY <2>1 DEF Holding, Rooted
  <2>3. n \in Nat
    BY <2>1 DEF Holding
  <2>4. Extends(z, y)
    BY DEF Later
  <2> QED  BY <2>2, <2>3, <2>4 DEF All, Extends
<1> QED  BY <1>1, <1>4, <1>8, <1>10, <1>11 DEF Kept

LEMMA ClimbSpreadGood ==
    ASSUME Kinds, NEW z, Right(z), ClimbSpread
    PROVE  Kinds' /\ \E x : Kept(z, x)
<1>1. PICK w, x : w = Work /\ x = Spreading
  OBVIOUS
<1>2. pc = "balance" /\ level > 0 /\ pc' = pc /\ ~x.bad /\ x.done /\ Up(x)
  BY <1>1 DEF ClimbSpread, Climbing, UpSpread
<1>3. Fields(x) /\ IsWork(w)
  BY <1>1, SpreadingFields
<1>4. 0 \notin x.made
  BY <1>2 DEF Up
<1>5. Here(z)
  BY <1>2 DEF Right
<1>6. Rounded(z, w, x)
  BY ONLY <1>1, <1>2, <1>4, <1>5, SpreadingGood
<1>7. PICK M, v, y, N : Ready(w, z, M, v) /\ Aim(z, w, v) /\ Outcome(w, z, x, y, N, v)
  BY <1>6 DEF Rounded
<1>8. Going(x, y, N, v, {}) /\ Later(w, z, x, y, v.h - 1)
  BY <1>2, <1>7 DEF Outcome
<1> QED  BY ONLY <1>2, <1>3, <1>7, <1>8, Kinds, Right(z), ClimbedGood

LEMMA ClimbSplitGood ==
    ASSUME Kinds, NEW z, Right(z), ClimbSplit
    PROVE  Kinds' /\ \E x : Kept(z, x)
<1>1. PICK w, x, u : w = Work /\ x = Spreading /\ u = Split(x)
  OBVIOUS
<1>2. pc = "balance" /\ level > 0 /\ pc' = pc /\ ~x.bad /\ ~x.done /\ x.node.end > PgSize /\ Up(u)
  BY <1>1 DEF ClimbSplit, Climbing, UpSplit
<1>3. Fields(x) /\ IsWork(w)
  BY <1>1, SpreadingFields
<1>4. 0 \notin u.made /\ 0 \notin x.made
  BY <1>1, <1>2, <1>3, SplitMade DEF Up
<1>5. Here(z)
  BY <1>2 DEF Right
<1>6. Rounded(z, w, x)
  BY ONLY <1>1, <1>2, <1>4, <1>5, SpreadingGood
<1>7. PICK M, v, y, N : Ready(w, z, M, v) /\ Aim(z, w, v) /\ Outcome(w, z, x, y, N, v)
  BY <1>6 DEF Rounded
<1>8. Ready(x, y, N, v) /\ Later(w, z, x, y, v.h - 1)
  BY <1>2, <1>7 DEF Outcome
<1>9. PICK y2, N2 : Going(u, y2, N2, v, {}) /\ Later(x, y, u, y2, v.h - 1)
  BY ONLY <1>1, <1>2, <1>4, <1>8, SplitGood
<1>10. Later(w, z, u, y2, v.h - 1)
  BY ONLY <1>8, <1>9, LaterThen
<1> QED  BY ONLY <1>2, <1>3, <1>7, <1>9, <1>10, Kinds, Right(z), ClimbedGood

(* A root without entries goes. *)
LEMMA EmptyLeaf ==
    ASSUME NEW z, NEW nd, NEW v, Sound(z, nd, v), nd.leaf, Len(nd.ents) = 0
    PROVE  v.h = 1 /\ v.c = {}
<1>1. Holds(nd.ents, v)
  BY DEF Sound
<1>2. \A i \in 1 .. 0 : FALSE
  OBVIOUS
<1>3. v.h = 1 /\ \A e : e \notin v.c
  BY <1>1, <1>2 DEF Holds
<1> QED  BY <1>3

LEMMA OnlyChild ==
    ASSUME NEW z, NEW nd, NEW v, Sound(z, nd, v), ~nd.leaf, Len(nd.ents) = 0
    PROVE  /\ nd.kids[1] \in DOMAIN z /\ v.h > 1 /\ v.h \in Nat /\ z[nd.kids[1]].h = v.h - 1
           /\ z[nd.kids[1]].lo = v.lo /\ z[nd.kids[1]].hi = v.hi /\ z[nd.kids[1]].c = v.c
<1>1. /\ Len(nd.kids) = Len(nd.ents) + 1 /\ v \in Label
      /\ (\A i \in 1 .. Len(nd.kids) : nd.kids[i] \in DOMAIN z) /\ Spans(nd.ents, Kids(z, nd), v)
  BY DEF Sound
<1>2. PICK L, q : L = Kids(z, nd) /\ q = nd.kids[1]
  OBVIOUS
<1>3. Len(nd.kids) = 1 /\ 0 + 1 = 1 /\ 1 .. 1 = {1}
  BY <1>1
<1>4. L[1] = z[q] /\ q \in DOMAIN z
  BY <1>1, <1>2, <1>3 DEF Kids
<1>5. v.h > 1 /\ L[1].h = v.h - 1 /\ L[1].lo = v.lo /\ L[1].hi = v.hi /\ \A e : e \in v.c <=> e \in L[1].c
  BY <1>1, <1>2, <1>3 DEF Spans
<1>6. L[1] \in Label
  BY <1>1, <1>2, <1>3 DEF Spans
<1>7. L[1].c = v.c
  BY <1>1, <1>5, <1>6 DEF Label
<1>8. v.h \in Nat
  BY <1>1 DEF Label
<1> QED  BY <1>2, <1>4, <1>5, <1>7, <1>8

LEMMA RootGone ==
    ASSUME NEW z, NEW d, NEW r, NEW n, NEW o, NEW P, NEW nd, NEW mk,
           Climbs(z, d, r, n, o, P, 1, nd, mk), Len(nd.ents) = 0,
           NEW q, q = IF nd.leaf THEN 0 ELSE nd.kids[1]
    PROVE  Holding(z, d, q, n - 1) /\ All(z, q, n - 1) = Changed(All(z, r, n), o) /\ (n - 1 = 0 => q = 0)
<1>1. /\ n > 0 /\ Rooted(z, d, r, n) /\ P[1] = r /\ AtLevel(z, o, P, 1, nd)
  <2>1. PICK l : l = 1
    OBVIOUS
  <2>2. Climbs(z, d, r, n, o, P, l, nd, mk) /\ l > 0
    BY <2>1
  <2>3. /\ n > 0 /\ Rooted(z, d, r, n) /\ P[1] = r /\ AtLevel(z, o, P, l, nd)
    BY ONLY <2>2, RootFirst
  <2> QED  BY <2>1, <2>3
<1>2. Trees(d, z) /\ DOMAIN d \subseteq Page /\ n \in Nat
  BY DEF Climbs, Holding
<1>3. PICK v : v = Upd(z[r], o)
  OBVIOUS
<1>4. Sound(z, nd, v)
  BY <1>1, <1>3 DEF AtLevel
<1>5. r \in DOMAIN z /\ z[r].h = n /\ z[r].lo = 0 /\ z[r].hi = -1 /\ z[r] \in Label
  BY <1>1, <1>2 DEF Rooted, Trees, Sound
<1>6. v.c = Changed(All(z, r, n), o) /\ v.h = n /\ v.lo = 0 /\ v.hi = -1
  <2>1. Upd(z[r], o).c = Changed(z[r].c, o) /\ Upd(z[r], o).h = z[r].h /\ Upd(z[r], o).lo = z[r].lo
        /\ Upd(z[r], o).hi = z[r].hi
    BY <1>5, UpdIs
  <2>2. All(z, r, n) = z[r].c
    BY <1>1, <1>2 DEF All
  <2> QED  BY <2>1, <2>2, <1>3, <1>5
<1>7. CASE nd.leaf
  <2>1. v.h = 1 /\ v.c = {}
    BY <1>4, <1>7, EmptyLeaf
  <2>2. n - 1 = 0 /\ q = 0
    BY <1>6, <1>7, <2>1
  <2> QED  BY <1>2, <1>6, <2>1, <2>2 DEF Holding, All
<1>8. CASE ~nd.leaf
  <2>1. q \in DOMAIN z /\ n > 1 /\ z[q].h = n - 1 /\ z[q].lo = 0 /\ z[q].hi = -1 /\ z[q].c = v.c
    BY <1>4, <1>6, <1>8, OnlyChild
  <2>2. n - 1 \in Nat /\ n - 1 > 0 /\ n - 1 # 0
    BY <1>2, <2>1
  <2> QED  BY <1>2, <1>6, <2>1, <2>2 DEF Holding, Rooted, All
<1> QED  BY <1>7, <1>8

LEMMA CollapseGood ==
    ASSUME Kinds, NEW z, Right(z), Collapse
    PROVE  Kinds' /\ \E x : Made(z, x)
<1>1. PICK d, r, n, o, q, nd, P, mk :
          /\ d = disk /\ r = root /\ n = depth /\ o = op /\ nd = node /\ P = path /\ mk = made
          /\ q = IF node.leaf THEN 0 ELSE node.kids[1]
  OBVIOUS
<1>2. /\ pc = "balance" /\ level > 0 /\ level = 1 /\ Len(node.ents) = 0 /\ pc' = "finish"
      /\ disk' = disk /\ op' = op /\ made' = made /\ depth' = depth - 1
  BY DEF Collapse, Emptied, Count, Goto, update
<1>3. root' = q
  BY <1>1 DEF Collapse, Kid
<1>4. Climbs(z, d, r, n, o, P, 1, nd, mk)
  BY <1>1, <1>2 DEF Right, Here
<1>5. Holding(z, d, q, n - 1) /\ All(z, q, n - 1) = Changed(All(z, r, n), o) /\ (n - 1 = 0 => q = 0)
  <2>1. Len(nd.ents) = 0 /\ q = IF nd.leaf THEN 0 ELSE nd.kids[1]
    BY <1>1, <1>2
  <2> QED  BY ONLY <1>4, <2>1, RootGone
<1>6. Right(z)'
  BY <1>1, <1>2, <1>3, <1>5 DEF Right
<1>7. Kinds'
  BY <1>1, <1>2, <1>3, <1>5 DEF Kinds
<1> QED  BY <1>1, <1>2, <1>3, <1>5, <1>6, <1>7 DEF Made

-----------------------------------------------------------------------------
(* The invariant. *)
LEMMA InitGood ==
    ASSUME Init
    PROVE  IInv
<1>1. PICK z : z = [n \in {} |-> 0]
  OBVIOUS
<1>2. DOMAIN z = {} /\ DOMAIN disk = {}
  <2>1. 1 .. 0 = {}
    OBVIOUS
  <2>2. disk = <<>>
    BY DEF Init
  <2>3. PICK s \in Seq({}) : s = disk /\ Len(s) = 0
    <3>1. <<>> \in Seq({})
      OBVIOUS
    <3>2. Len(<<>>) = 0
      OBVIOUS
    <3> QED  BY <2>2, <3>1, <3>2
  <2>4. DOMAIN s = 1 .. Len(s)
    OBVIOUS
  <2> QED  BY <1>1, <2>1, <2>3, <2>4
<1>3. /\ root = 0 /\ depth = 0 /\ pc = "idle" /\ made = {}
  BY DEF Init
<1>4. Holding(z, disk, root, depth)
  BY <1>2, <1>3 DEF Holding, Trees
<1>5. Right(z)
  BY <1>3, <1>4 DEF Right
<1>6. Kinds
  BY <1>2, <1>3 DEF Kinds
<1> QED  BY <1>5, <1>6 DEF IInv

LEMMA StepGood ==
    ASSUME Kinds, NEW z, Right(z), Next
    PROVE  Kinds' /\ ((\E y : Kept(z, y)) \/ (pc # "idle" /\ \E y : Made(z, y)))
<1>1. CASE \E k \in Key : Delete(k)
  BY <1>1, DeleteGood
<1>2. CASE \E k \in Key : \E s \in RecSize : Put(k, s)
  BY <1>2, PutGood
<1>3. CASE Grow
  BY <1>3, GrowGood
<1>4. CASE Whead
  BY <1>4, WheadGood DEF Whead
<1>5. CASE Collapse
  BY <1>5, CollapseGood DEF Collapse
<1>6. CASE InPlace
  BY <1>6, InPlaceGood DEF InPlace
<1>7. CASE ClimbSpread
  BY <1>7, ClimbSpreadGood
<1>8. CASE ClimbSplit
  BY <1>8, ClimbSplitGood
<1>9. CASE ClimbStay
  BY <1>9, ClimbStayGood DEF ClimbStay, Climbing
<1>10. CASE Finish \/ Die
  BY <1>10, ForgetGood DEF Finish, Die
<1> QED  BY <1>1, <1>2, <1>3, <1>4, <1>5, <1>6, <1>7, <1>8, <1>9, <1>10 DEF Next

LEMMA StutterGood ==
    ASSUME Kinds, NEW z, Right(z), UNCHANGED vars
    PROVE  Kinds' /\ Kept(z, z)
<1>1. UNCHANGED <<disk, root, depth, pc, op, path, level, node, list2, made>>
  BY DEF vars, header, update, lists
<1>2. Here(z)' = Here(z)
  BY <1>1 DEF Here
<1>3. Right(z)'
  BY <1>1, <1>2 DEF Right
<1>4. Kinds'
  BY <1>1 DEF Kinds
<1> QED  BY <1>1, <1>3, <1>4 DEF Kept

THEOREM Invariance == Spec => []IInv
<1>1. Init => IInv
  BY InitGood
<1>2. IInv /\ [Next]_vars => IInv'
  <2> SUFFICES ASSUME IInv, [Next]_vars
               PROVE  IInv'
    OBVIOUS
  <2>1. PICK z : Kinds /\ Right(z)
    BY DEF IInv
  <2>2. CASE Next
    <3>1. Kinds' /\ ((\E y : Kept(z, y)) \/ (\E y : Made(z, y)))
      BY <2>1, <2>2, StepGood
    <3>2. \E y : Right(y)'
      BY <3>1 DEF Kept, Made
    <3> QED  BY <3>1, <3>2 DEF IInv
  <2>3. CASE UNCHANGED vars
    <3>1. Kinds' /\ Kept(z, z)
      BY <2>1, <2>3, StutterGood
    <3>2. \E y : Right(y)'
      BY <3>1 DEF Kept
    <3> QED  BY <3>1, <3>2 DEF IInv
  <2> QED  BY <2>2, <2>3
<1> QED  BY <1>1, <1>2, PTL DEF Spec

-----------------------------------------------------------------------------
(* What the records of a tree are to a program. *)
Matches(c, k) == {e \in c : e.key = k}
SizeOf(c) == IF c = {} THEN 0 ELSE (CHOOSE e \in c : TRUE).size
ContentOf(c) == [k \in Key |-> SizeOf(Matches(c, k))]

LEMMA ContentIs ==
    \A z : Holding(z, disk, root, depth) => Content = ContentOf(All(z, root, depth))
<1> SUFFICES ASSUME NEW z, Holding(z, disk, root, depth)
             PROVE  Content = ContentOf(All(z, root, depth))
  OBVIOUS
<1>1. PICK d, r, n, L, c : d = disk /\ r = root /\ n = depth /\ L = LevelsOf(d, r, n) /\ c = All(z, r, n)
  OBVIOUS
<1>2. Holding(z, d, r, n)
  BY <1>1
<1>3. UNION {ToSet(d[m].ents) : m \in Leaves} = c
  <2>1. CASE n = 0
    <3>1. Leaves = {}
      BY <1>1, <2>1 DEF Leaves
    <3>2. c = {}
      BY <1>1, <2>1 DEF All
    <3> QED  BY <3>1, <3>2
  <2>2. CASE n # 0
    <3>1. Rooted(z, d, r, n)
      BY <1>2, <2>2 DEF Holding
    <3>2. UNION {ToSet(d[m].ents) : m \in L[n]} = z[r].c
      BY ONLY <1>1, <3>1, RecordsAre
    <3>3. Leaves = L[n]
      BY <1>1, <2>2, OfIs DEF Leaves
    <3>4. c = z[r].c
      BY <1>1, <2>2 DEF All
    <3> QED  BY <3>2, <3>3, <3>4
  <2> QED  BY <2>1, <2>2
<1>4. ASSUME NEW k PROVE Records(k) = Matches(c, k)
  <2>1. Records(k) = {e \in UNION {ToSet(d[m].ents) : m \in Leaves} : e.key = k}
    BY <1>1 DEF Records
  <2> QED  BY <2>1, <1>3 DEF Matches
<1>5. Content = ContentOf(c)
  <2>1. Content = [k \in Key |-> SizeOf(Records(k))]
    BY DEF Content, SizeOf
  <2> QED  BY ONLY <1>4, <2>1 DEF ContentOf
<1> QED  BY <1>1, <1>5

LEMMA ContentChanged ==
    ASSUME NEW c, NEW o \in [key : Key, size : RecSize \cup {0}]
    PROVE  /\ ContentOf(Changed(c, o)) = [ContentOf(c) EXCEPT ![o.key] = o.size]
           /\ ContentOf(Changed(c, o))[o.key] = o.size
<1>1. PICK x : x = Changed(c, o)
  OBVIOUS
<1>2. \A e : e \in x <=> (e \in c /\ e.key # o.key) \/ (o.size # 0 /\ e = o)
  BY <1>1 DEF Changed
<1>3. ASSUME NEW k, k # o.key PROVE Matches(x, k) = Matches(c, k)
  BY <1>2, <1>3 DEF Matches
<1>4. Matches(x, o.key) = IF o.size = 0 THEN {} ELSE {o}
  BY <1>2 DEF Matches
<1>5. o.key \in Key
  OBVIOUS
<1>6. ContentOf(x)[o.key] = o.size
  <2>1. CASE o.size = 0
    BY <1>4, <1>5, <2>1 DEF ContentOf, SizeOf
  <2>2. CASE o.size # 0
    <3>1. Matches(x, o.key) = {o}
      BY <1>4, <2>2
    <3>2. (CHOOSE e \in {o} : TRUE) = o
      OBVIOUS
    <3>3. {o} # {}
      OBVIOUS
    <3>4. SizeOf({o}) = o.size
      BY <3>2, <3>3 DEF SizeOf
    <3> QED  BY <1>5, <3>1, <3>4 DEF ContentOf
  <2> QED  BY <2>1, <2>2
<1>7. \A k \in Key : k # o.key => ContentOf(x)[k] = ContentOf(c)[k]
  BY <1>3 DEF ContentOf
<1>8. ContentOf(x) = [k \in Key |-> ContentOf(x)[k]] /\ DOMAIN ContentOf(c) = Key
  BY DEF ContentOf
<1>9. ContentOf(x) = [ContentOf(c) EXCEPT ![o.key] = o.size]
  <2>1. PICK f, g : f = ContentOf(x) /\ g = ContentOf(c)
    OBVIOUS
  <2>2. /\ f = [k \in Key |-> f[k]] /\ DOMAIN f = Key /\ DOMAIN g = Key /\ f[o.key] = o.size
        /\ \A k \in Key : k # o.key => f[k] = g[k]
    BY <1>6, <1>7, <1>8, <2>1 DEF ContentOf
  <2>3. g = [k \in Key |-> g[k]]
    BY <2>1 DEF ContentOf
  <2>4. f = [g EXCEPT ![o.key] = o.size]
    BY ONLY <2>2, <2>3
  <2> QED  BY <2>1, <2>4
<1> QED  BY <1>1, <1>6, <1>9

(* balanc.c, "all ok, put changes to DB": when _update() reports success,  *)
(* the record it was asked to put is in the tree on disk, the record it    *)
(* was asked to delete is in no leaf.                                      *)
THEOREM CommittedAlways == Spec => []Committed
<1>1. IInv => Committed
  <2> SUFFICES ASSUME IInv, pc = "finish" PROVE Content[op.key] = op.size
    BY DEF Committed
  <2>1. PICK z : Kinds /\ Right(z)
    BY DEF IInv
  <2>2. PICK c : All(z, root, depth) = Changed(c, op)
    BY <2>1 DEF Right
  <2>3. Content = ContentOf(All(z, root, depth))
    BY <2>1, ContentIs DEF Right
  <2>4. op \in [key : Key, size : RecSize \cup {0}]
    BY <2>1 DEF Kinds
  <2>5. PICK o : o = op
    OBVIOUS
  <2>6. ContentOf(Changed(c, o))[o.key] = o.size
    BY <2>4, <2>5, ContentChanged
  <2> QED  BY <2>2, <2>3, <2>5, <2>6
<1> QED  BY <1>1, Invariance, PTL

(* update.c, balanc.c, split.c, spread.c: every step of an update, and     *)
(* every death of the process, leaves the records of the table on disk as  *)
(* they are, or puts or deletes one of them.                               *)
THEOREM StoreImplemented == Spec => StoreSpec
<1> DEFINE CInv == \A z : Holding(z, disk, root, depth) => Content = ContentOf(All(z, root, depth))
<1>1. CInv
  BY ContentIs
<1>2. Init /\ CInv => Store!Init
  <2> SUFFICES ASSUME Init, CInv PROVE Content = [k \in Key |-> 0]
    BY DEF Store!Init
  <2>1. IInv
    BY InitGood
  <2>2. PICK z : Right(z)
    BY <2>1 DEF IInv
  <2>3. Content = ContentOf(All(z, root, depth))
    BY <2>2 DEF Right
  <2>4. All(z, root, depth) = {}
    BY DEF Init, All
  <2>5. \A k : Matches({}, k) = {}
    BY DEF Matches
  <2> QED  BY <2>3, <2>4, <2>5 DEF ContentOf, SizeOf
<1>3. IInv /\ CInv /\ CInv' /\ [Next]_vars => [Store!Next]_Content
  <2> SUFFICES ASSUME IInv, CInv, CInv', [Next]_vars PROVE Store!Next \/ Content' = Content
    OBVIOUS
  <2>1. PICK z : Kinds /\ Right(z)
    BY DEF IInv
  <2>2. (\E y : Kept(z, y)) \/ (pc # "idle" /\ \E y : Made(z, y))
    <3>1. CASE Next
      BY <2>1, <3>1, StepGood
    <3>2. CASE UNCHANGED vars
      BY <2>1, <3>2, StutterGood
    <3> QED  BY <3>1, <3>2
  <2>3. Content = ContentOf(All(z, root, depth))
    BY <2>1 DEF Right
  <2>4. ASSUME NEW y, Right(y)' PROVE Content' = ContentOf(All(y, root', depth'))
    BY <2>4 DEF Right
  <2>5. CASE \E y : Kept(z, y)
    BY <2>3, <2>4, <2>5 DEF Kept
  <2>6. CASE pc # "idle" /\ \E y : Made(z, y)
    <3>1. PICK y : Made(z, y)
      BY <2>6
    <3>2. PICK o, c, f : o = op /\ c = All(z, root, depth) /\ f = Content
      OBVIOUS
    <3>3. o \in [key : Key, size : RecSize \cup {0}]
      BY <2>1, <2>6, <3>2 DEF Kinds
    <3>4. Content' = ContentOf(Changed(c, o))
      BY <2>4, <3>1, <3>2 DEF Made
    <3>5. Content' = [f EXCEPT ![o.key] = o.size]
      BY <2>3, <3>2, <3>3, <3>4, ContentChanged
    <3>6. o.key \in Key /\ (o.size = 0 \/ o.size \in RecSize)
      BY <3>3
    <3> QED  BY <3>2, <3>5, <3>6 DEF Store!Next, Store!Put, Store!Delete
  <2> QED  BY <2>2, <2>5, <2>6
<1> QED  BY <1>1, <1>2, <1>3, Invariance, PTL DEF Spec, StoreSpec, Store!Spec

(* scanpg.c: the entries of every page ascend, and _getpath() finds the    *)
(* only leaf that may hold a key, whatever an update has written so far.   *)
THEOREM SearchableAlways == Spec => []Searchable
<1>1. IInv => Searchable
  <2> SUFFICES ASSUME IInv PROVE Searchable
    OBVIOUS
  <2>1. PICK z : Right(z)
    BY DEF IInv
  <2>2. PICK d, r, n, L, R : /\ d = disk /\ r = root /\ n = depth /\ L = LevelsOf(d, r, n)
                             /\ R = ReachOf(d, r, n)
    OBVIOUS
  <2>3. Holding(z, d, r, n) /\ R = Reach /\ L = Levels
    BY <2>1, <2>2, OfIs DEF Right
  <2>4. n \in Nat /\ Trees(d, z) /\ (n > 0 => Rooted(z, d, r, n))
    BY <2>3 DEF Holding
  <2>5. CASE n = 0
    <3>1. 1 .. n = {}
      BY <2>5
    <3>2. Reach = {} /\ Leaves = {}
      BY <2>2, <2>5, <3>1 DEF Reach, Leaves
    <3> QED  BY <3>2 DEF Searchable
  <2>6. CASE n # 0
    <3>1. Rooted(z, d, r, n)
      BY <2>4, <2>6
    <3>2. R \subseteq DOMAIN z
      BY ONLY <2>2, <3>1, ReachIs
    <3>3. ASSUME NEW m \in Reach, NEW i \in DOMAIN disk[m].ents, NEW j \in DOMAIN disk[m].ents, i < j
          PROVE  disk[m].ents[i].key < disk[m].ents[j].key
      <4>1. PICK s : s = d[m].ents
        OBVIOUS
      <4>2. s \in Seq(Ent) /\ Rising(s)
        BY <2>3, <2>4, <3>2, <4>1 DEF Trees, Sound
      <4>3. i \in 1 .. Len(s) /\ j \in 1 .. Len(s)
        BY <2>2, <4>1, <4>2
      <4> QED  BY <2>2, <3>3, <4>1, <4>2, <4>3 DEF Rising
    <3>4. ASSUME NEW k \in Key, NEW m \in Leaves, Found(disk[m].ents, k)
          PROVE  m = Getpath(k)[depth]
      <4>1. k \in Nat
        BY GeometryAssumption
      <4>2. m \in L[n] /\ Found(d[m].ents, k)
        BY <2>2, <2>3, <2>6, <3>4 DEF Leaves
      <4>3. PICK P : P = PathOf(d, r, n, k)
        OBVIOUS
      <4>4. m = P[n]
        BY ONLY <2>2, <3>1, <4>1, <4>2, <4>3, SearchIs
      <4> QED  BY <2>2, <4>3, <4>4, OfIs
    <3> QED  BY <3>3, <3>4 DEF Searchable
  <2> QED  BY <2>5, <2>6
<1> QED  BY <1>1, Invariance, PTL

(* putnod.c, balanc.c: the pages the header reaches are a tree of equal    *)
(* depth, each on one level and with one parent, an index page with one    *)
(* child more than separators, whatever an update has written so far.      *)
THEOREM ShapeAlways == Spec => []Shape
<1>1. IInv => Shape
  <2> SUFFICES ASSUME IInv PROVE Shape
    OBVIOUS
  <2>1. PICK z : Right(z)
    BY DEF IInv
  <2>2. PICK d, r, n, L : d = disk /\ r = root /\ n = depth /\ L = LevelsOf(d, r, n)
    OBVIOUS
  <2>3. Holding(z, d, r, n) /\ L = Levels
    BY <2>1, <2>2, OfIs DEF Right
  <2>4. n \in Nat /\ Trees(d, z) /\ (n > 0 => Rooted(z, d, r, n))
    BY <2>3 DEF Holding
  <2>5. ASSUME NEW i \in 1 .. n PROVE Rooted(z, d, r, n)
    BY <2>4, <2>5
  <2>6. ASSUME NEW i \in 1 .. n, NEW m \in L[i]
        PROVE  m \in DOMAIN z /\ z[m].h = n + 1 - i
    <3>1. LevelsRight(z, d, r, n, L)
      BY ONLY <2>2, <2>5, LevelsAre, i \in 1 .. n
    <3> QED  BY <3>1, <2>6 DEF LevelsRight, LevelAt
  <2>7. ASSUME NEW i \in 1 .. depth, NEW m \in Levels[i]
        PROVE  /\ m \in DOMAIN disk
               /\ disk[m].leaf <=> i = depth
               /\ ~disk[m].leaf => Len(disk[m].kids) = Len(disk[m].ents) + 1
    <3>1. i \in 1 .. n /\ m \in DOMAIN z /\ z[m].h = n + 1 - i
      BY <2>2, <2>3, <2>6, <2>7
    <3>2. m \in DOMAIN d /\ Sound(z, d[m], z[m])
      BY <2>4, <3>1 DEF Trees
    <3>3. z[m].h = 1 <=> i = n
      BY <2>4, <3>1
    <3>4. z[m].h = 1 => d[m].leaf
      BY <2>4, <3>1, RootedLeaf
    <3>5. z[m].h # 1 => ~d[m].leaf
      BY <2>4, <3>1, RootedIndex
    <3>6. ~d[m].leaf => Len(d[m].kids) = Len(d[m].ents) + 1
      BY <3>2 DEF Sound
    <3> QED  BY <2>2, <3>2, <3>3, <3>4, <3>5, <3>6
  <2>8. ASSUME NEW i \in 1 .. depth, NEW j \in 1 .. depth, i # j
        PROVE  Levels[i] \cap Levels[j] = {}
    <3> SUFFICES ASSUME NEW m \in L[i], m \in L[j] PROVE FALSE
      BY <2>3
    <3>1. i \in 1 .. n /\ j \in 1 .. n
      BY <2>2
    <3>2. z[m].h = n + 1 - i /\ z[m].h = n + 1 - j
      BY <2>6, <3>1
    <3> QED  BY <2>4, <2>8, <3>1, <3>2
  <2>9. ASSUME NEW m \in Reach, NEW q \in Reach, NEW a \in DOMAIN disk[m].kids, NEW b \in DOMAIN disk[q].kids,
               disk[m].kids[a] = disk[q].kids[b]
        PROVE  m = q /\ a = b
    <3>1. PICK i \in 1 .. n : m \in L[i]
      BY <2>2, <2>3 DEF Reach
    <3>2. PICK j \in 1 .. n : q \in L[j]
      BY <2>2, <2>3 DEF Reach
    <3>3. a \in DOMAIN d[m].kids /\ b \in DOMAIN d[q].kids /\ d[m].kids[a] = d[q].kids[b]
      BY <2>2, <2>9
    <3>4. Rooted(z, d, r, n)
      BY <2>5, <3>1
    <3> QED  BY ONLY <2>2, <3>1, <3>2, <3>3, <3>4, ParentIs
  <2> QED  BY <2>7, <2>8, <2>9 DEF Shape
<1> QED  BY <1>1, Invariance, PTL

(* spread.c, derror(19): the parent is searched for the key again, and     *)
(* the child found is the node the climb comes from.                       *)
THEOREM NoMismatchAlways == Spec => []NoMismatch
<1>1. IInv => NoMismatch
  <2> SUFFICES ASSUME IInv, Climbing, level # 1 PROVE Kid(Work.parent, Work.idx) = node.page
    BY DEF NoMismatch, ParentMatches
  <2>1. PICK z : Right(z)
    BY DEF IInv
  <2>2. pc = "balance" /\ level > 0 /\ Here(z)
    BY <2>1 DEF Climbing, Right
  <2>3. PICK d, n, o, P, l, p, q, w :
            /\ d = disk /\ n = depth /\ o = op /\ P = path /\ l = level /\ p = path[level]
            /\ q = path[level - 1] /\ w = Work
    OBVIOUS
  <2>4. /\ Trees(d, z) /\ n \in Nat /\ Wanted(o) /\ l \in 0 .. n /\ Sole(z, n + 1 - l, o.key)
        /\ Way(z, n, o.key, P, l) /\ node.page = p
    BY <2>2, <2>3 DEF Here, Climbs, Holding, AtLevel
  <2>5. l \in 1 .. l /\ l - 1 \in 1 .. l /\ l \in 1 .. n /\ n + 1 - (l - 1) = n + 2 - l
    BY <2>2, <2>3, <2>4
  <2>6. /\ p \in DOMAIN z /\ z[p].h = n + 1 - l /\ Within(z[p], o.key)
        /\ q \in DOMAIN z /\ z[q].h = n + 2 - l /\ Within(z[q], o.key)
    BY <2>3, <2>4, <2>5 DEF Way
  <2>7. IsWork(w)
    BY <2>3, WorkIs
  <2>8. PICK pg, i : pg = d[q] /\ i = ChildIndex(pg.ents, o.key)
    OBVIOUS
  <2>9. w.parent.kids = pg.kids /\ w.parent.ents = pg.ents /\ w.idx = i
    <3>1. w.parent = Getnode(disk, q) /\ w.idx = ChildIndex(w.parent.ents, op.key)
      BY <2>3, <2>7 DEF IsWork
    <3>2. w.parent.kids = pg.kids /\ w.parent.ents = pg.ents
      BY <2>3, <2>8, <3>1 DEF Getnode
    <3> QED  BY <2>3, <2>8, <3>1, <3>2
  <2>10. IsIndex(z, pg, z[q])
    <3>1. z[q].h # 1
      BY <2>4, <2>5, <2>6
    <3> QED  BY <2>4, <2>6, <2>8, <3>1, RootedIndex
  <2>11. PICK s : s = pg.kids[i + 1]
    OBVIOUS
  <2>12. s \in DOMAIN z /\ z[s].h = z[q].h - 1 /\ Within(z[s], o.key)
    BY <2>4, <2>6, <2>8, <2>10, <2>11 DEF IsIndex, Wanted
  <2>13. z[s].h = z[p].h /\ z[s].h >= n + 1 - l
    BY <2>4, <2>6, <2>12
  <2>14. s = p
    BY ONLY <2>4, <2>6, <2>12, <2>13 DEF Sole
  <2> QED  BY <2>3, <2>4, <2>9, <2>11, <2>14 DEF Kid
<1> QED  BY <1>1, Invariance, PTL

-----------------------------------------------------------------------------
(* PageList2. A step of a round appends at most n pages to it.             *)
Listed(s) == \E S : s \in Seq(S)
Appends(s, t, n) == Listed(t) /\ Len(t) \in Nat /\ Len(t) =< Len(s) + n

LEMMA AppendIs ==
    ASSUME NEW s, Listed(s), NEW e
    PROVE  /\ Listed(Append(s, e)) /\ Len(s) \in Nat /\ Len(Append(s, e)) = Len(s) + 1
           /\ Appends(s, Append(s, e), 1) /\ \A n \in Nat : Appends(s, s, n)
<1>1. PICK S : s \in Seq(S)
  BY DEF Listed
<1>2. PICK T : T = S \cup {e}
  OBVIOUS
<1>3. s \in Seq(T) /\ e \in T
  <2>1. Len(s) \in Nat /\ DOMAIN s = 1 .. Len(s) /\ \A i \in 1 .. Len(s) : s[i] \in T
    BY <1>1, <1>2
  <2>2. s = [i \in 1 .. Len(s) |-> s[i]]
    BY <1>1
  <2> QED  BY <1>2, <2>1, <2>2
<1>4. Append(s, e) \in Seq(T) /\ Len(Append(s, e)) = Len(s) + 1 /\ Len(s) \in Nat
  BY <1>3
<1>5. Listed(Append(s, e))
  BY <1>4 DEF Listed
<1> QED  BY <1>4, <1>5 DEF Appends

LEMMA AppendsThen ==
    ASSUME NEW s, Len(s) \in Nat, NEW t, NEW u, NEW i \in Nat, NEW j \in Nat,
           Appends(s, t, i), Appends(t, u, j)
    PROVE  \A n \in Nat : i + j =< n => Appends(s, u, n)
BY DEF Appends

(* Half of a round, before it is done. *)
Half(s, x) == (x.done => Appends(s, x.list2, 2)) /\ (~x.done => Appends(s, x.list2, 1))

LEMMA ReposList ==
    ASSUME NEW w, Fields(w), NEW i, NEW nd
    PROVE  Fields(Repos(w, i, nd)) /\ Repos(w, i, nd).list2 = Append(w.list2, nd.page)
<1>1. Reposed(Repos(w, i, nd), w, i, nd)
  BY ReposIs
<1> QED  BY <1>1 DEF Reposed

LEMMA Adopt1List ==
    ASSUME NEW w, Fields(w), NEW i, NEW nd, NEW x, x = Adopt1(w, i, nd)
    PROVE  /\ Fields(x)
           /\ nd.end > PgSize => x.list2 = w.list2
           /\ ~(nd.end > PgSize) => x.list2 = Append(w.list2, nd.page)
<1>1. Fields(Repos(w, i, nd)) /\ Repos(w, i, nd).list2 = Append(w.list2, nd.page)
  BY ReposList
<1> QED  BY <1>1 DEF Adopt1

LEMMA AdoptHalf ==
    ASSUME NEW w, Fields(w), Listed(w.list2), NEW i, NEW p, NEW j, NEW nd
    PROVE  Half(w.list2, Adopted(Adopt(w, i, p), j, nd))
<1>1. PICK s, w0, w1, w2, w3, x :
          /\ s = w.list2 /\ w0 = [w EXCEPT !.parent = Modpage(@, i, p.entry)]
          /\ w1 = Adopt1(w0, i, p.left) /\ w2 = Adopt1(w1, i + 1, p.right)
          /\ w3 = Adopt(w, i, p) /\ x = Adopted(w3, j, nd)
  OBVIOUS
<1>2. w3 = [w2 EXCEPT !.done = ~(p.left.end > PgSize \/ p.right.end > PgSize)]
  BY <1>1 DEF Adopt
<1>3. Fields(w0) /\ w0.list2 = s
  BY <1>1 DEF Fields
<1>4. /\ Fields(w1)
      /\ p.left.end > PgSize => w1.list2 = s
      /\ ~(p.left.end > PgSize) => w1.list2 = Append(s, p.left.page)
  <2>1. /\ Fields(w1)
        /\ p.left.end > PgSize => w1.list2 = w0.list2
        /\ ~(p.left.end > PgSize) => w1.list2 = Append(w0.list2, p.left.page)
    <3>1. w1 = Adopt1(w0, i, p.left) /\ Fields(w0)
      BY <1>1, <1>3
    <3> QED  BY ONLY <3>1, Adopt1List
  <2> QED  BY <1>3, <2>1
<1>5. /\ Fields(w2)
      /\ p.right.end > PgSize => w2.list2 = w1.list2
      /\ ~(p.right.end > PgSize) => w2.list2 = Append(w1.list2, p.right.page)
  <2>1. w2 = Adopt1(w1, i + 1, p.right) /\ Fields(w1)
    BY <1>1, <1>4
  <2> QED  BY ONLY <2>1, Adopt1List
<1>6. Fields(w3) /\ w3.list2 = w2.list2 /\ w3.done = (~(p.left.end > PgSize \/ p.right.end > PgSize))
  BY <1>2, <1>5 DEF Fields
<1>7. x.list2 = w2.list2 /\ x.done = w3.done
  <2>1. Renamed(x, w3, j, nd)
    BY ONLY <1>1, <1>6, AdoptedIs
  <2> QED  BY <1>6, <2>1 DEF Renamed
<1>8. x.done <=> ~(p.left.end > PgSize \/ p.right.end > PgSize)
  BY ONLY <1>6, <1>7
<1>9. Len(s) \in Nat /\ \A e, f : /\ Appends(s, s, 1) /\ Appends(s, Append(s, e), 1)
                                   /\ Appends(s, Append(Append(s, e), f), 2)
  <2>1. ASSUME NEW e, NEW f
        PROVE  /\ Appends(s, s, 1) /\ Appends(s, Append(s, e), 1)
               /\ Appends(s, Append(Append(s, e), f), 2)
    <3>1. PICK t : t = Append(s, e)
      OBVIOUS
    <3>2. Listed(s)
      BY <1>1
    <3>3. Appends(s, t, 1) /\ Appends(s, s, 1) /\ Listed(t) /\ Len(s) \in Nat
      BY ONLY <3>1, <3>2, AppendIs
    <3>4. Appends(t, Append(t, f), 1)
      BY ONLY <3>3, AppendIs
    <3>5. Appends(s, Append(t, f), 2)
      BY ONLY <3>3, <3>4, AppendsThen
    <3> QED  BY ONLY <3>1, <3>3, <3>5
  <2>2. Len(s) \in Nat
    BY <1>1, AppendIs
  <2> QED  BY <2>1, <2>2
<1>10. Half(s, x)
  <2>1. \A t : Appends(s, t, 1) => Appends(s, t, 2)
    BY <1>9 DEF Appends
  <2> QED  BY ONLY <1>4, <1>5, <1>7, <1>8, <1>9, <2>1 DEF Half
<1> QED  BY <1>1, <1>10

LEMMA MergeHalf ==
    ASSUME NEW w, Fields(w), Listed(w.list2), NEW i, NEW nd
    PROVE  Half(w.list2, Merge(w, i, nd))
<1>1. PICK s, w0, a, x : /\ s = w.list2 /\ w0 = [w EXCEPT !.parent = Delpage(@, i)]
                         /\ a = Repos(w0, i, nd) /\ x = Merge(w, i, nd)
  OBVIOUS
<1>2. x = [a EXCEPT !.list2 = Append(@, w.node.page), !.done = TRUE]
  BY <1>1 DEF Merge
<1>3. Fields(w0) /\ w0.list2 = s
  BY <1>1 DEF Fields
<1>4. Fields(a) /\ a.list2 = Append(s, nd.page)
  <2>1. Fields(Repos(w0, i, nd)) /\ Repos(w0, i, nd).list2 = Append(w0.list2, nd.page)
    BY ONLY <1>3, ReposList
  <2> QED  BY <1>1, <1>3, <2>1
<1>5. x.list2 = Append(Append(s, nd.page), w.node.page) /\ x.done
  BY <1>2, <1>4 DEF Fields
<1>6. Appends(s, x.list2, 2)
  <2>1. PICK t : t = Append(s, nd.page)
    OBVIOUS
  <2>2. Appends(s, t, 1) /\ Listed(t) /\ Len(s) \in Nat
    BY ONLY <1>1, <2>1, Listed(w.list2), AppendIs
  <2>3. Appends(t, Append(t, w.node.page), 1)
    BY ONLY <2>2, AppendIs
  <2>4. Appends(s, Append(t, w.node.page), 2)
    BY ONLY <2>2, <2>3, AppendsThen
  <2> QED  BY <1>5, <2>1, <2>4
<1> QED  BY <1>1, <1>5, <1>6 DEF Half

LEMMA HalfSame ==
    ASSUME NEW w, Fields(w), Listed(w.list2), NEW x, x.list2 = w.list2
    PROVE  Half(w.list2, x)
BY AppendIs DEF Half

LEMMA SpreadHalf ==
    ASSUME NEW w, Fields(w), Listed(w.list2)
    PROVE  Half(w.list2, SpreadLeft(w)) /\ Half(w.list2, SpreadRight(w))
<1>1. PICK s : s = w.list2
  OBVIOUS
<1>2. Half(s, w) /\ Half(s, [w EXCEPT !.bad = TRUE])
  <2>1. [w EXCEPT !.bad = TRUE].list2 = w.list2
    BY DEF Fields
  <2> QED  BY <1>1, <2>1, HalfSame
<1>3. ASSUME NEW i, NEW sib
      PROVE  Half(s, JoinLeft(w, i, sib)) /\ Half(s, JoinRight(w, i, sib))
  <2>1. \A r : Half(s, ShareLeft(w, i, r)) /\ Half(s, ShareRight(w, i, r))
    BY <1>1, <1>2, AdoptHalf DEF ShareLeft, ShareRight, AdoptLeft, AdoptRight
  <2>2. \A nd : Half(s, Merge(w, i, nd))
    BY <1>1, MergeHalf
  <2> QED  BY <2>1, <2>2 DEF JoinLeft, JoinRight
<1>4. Half(s, SpreadLeft(w)) /\ Half(s, SpreadRight(w))
  BY <1>2, <1>3 DEF SpreadLeft, SpreadRight
<1> QED  BY <1>1, <1>4

(* _spread() appends three pages at most, two if it is not done; none to   *)
(* a node without siblings.                                                *)
LEMMA SpreadList ==
    ASSUME NEW w, Fields(w), Listed(w.list2), ~w.done, NEW x, x = Spread(w)
    PROVE  /\ Appends(w.list2, x.list2, 3) /\ (~x.done => Appends(w.list2, x.list2, 2))
           /\ (w.idx = 0 /\ Count(w.parent) = 0 => x = w)
<1>1. PICK s, a : s = w.list2 /\ a = IF w.idx > 0 THEN SpreadLeft(w) ELSE w
  OBVIOUS
<1>2. x = IF ~a.done /\ ~a.bad /\ Count(a.parent) # a.idx THEN SpreadRight(a) ELSE a
  BY <1>1 DEF Spread, ThenRight
<1>3. Half(s, a) /\ Fields(a)
  <2>1. CASE w.idx > 0
    <3>1. Grows(w, SpreadLeft(w)) /\ Half(s, SpreadLeft(w))
      BY <1>1, SpreadGrows, SpreadHalf
    <3> QED  BY <1>1, <2>1, <3>1 DEF Grows
  <2>2. CASE ~(w.idx > 0)
    BY <1>1, <2>2, HalfSame
  <2> QED  BY <2>1, <2>2
<1>4. Len(s) \in Nat
  BY <1>1, AppendIs
<1>5. Listed(a.list2) /\ Appends(s, a.list2, 2) /\ Len(a.list2) \in Nat
  BY <1>3, <1>4 DEF Half, Appends
<1>6. ASSUME ~a.done, x = SpreadRight(a)
      PROVE  Appends(s, x.list2, 3) /\ (~x.done => Appends(s, x.list2, 2))
  <2>1. Half(a.list2, x)
    BY <1>3, <1>5, <1>6, SpreadHalf
  <2>2. Appends(s, a.list2, 1)
    BY <1>3, <1>6 DEF Half
  <2>3. CASE x.done
    <3>1. Appends(a.list2, x.list2, 2)
      BY <2>1, <2>3 DEF Half
    <3>2. Appends(s, x.list2, 3)
      BY ONLY <1>4, <2>2, <3>1, AppendsThen
    <3> QED  BY <2>3, <3>2
  <2>4. CASE ~x.done
    <3>1. Appends(a.list2, x.list2, 1)
      BY <2>1, <2>4 DEF Half
    <3>2. Appends(s, x.list2, 2)
      BY ONLY <1>4, <2>2, <3>1, AppendsThen
    <3>3. Appends(s, x.list2, 3)
      BY ONLY <1>4, <3>2 DEF Appends
    <3> QED  BY <3>2, <3>3
  <2> QED  BY <2>3, <2>4
<1>7. ASSUME x = a
      PROVE  Appends(s, x.list2, 3) /\ (~x.done => Appends(s, x.list2, 2))
  BY <1>4, <1>5, <1>7 DEF Appends
<1>8. w.idx = 0 /\ Count(w.parent) = 0 => x = w
  BY <1>1, <1>2
<1>9. Appends(s, x.list2, 3) /\ (~x.done => Appends(s, x.list2, 2))
  BY <1>2, <1>6, <1>7
<1> QED  BY <1>1, <1>8, <1>9

LEMMA SplitList ==
    ASSUME NEW w, Fields(w), Listed(w.list2), NEW x, x = Split(w)
    PROVE  Appends(w.list2, x.list2, 1)
<1>1. \A u, p : Fields(u) => Fields(SplitOff(u, p)) /\ SplitOff(u, p).list2 = u.list2
  BY DEF SplitOff, Fields
<1>2. \A u : Fields(u) => Fields(SplitOnce(u)) /\ SplitOnce(u).list2 = u.list2
  BY <1>1 DEF SplitOnce
<1>3. PICK a, b : a = SplitOnce(w) /\ b = SplitAgain(a)
  OBVIOUS
<1>4. Fields(b) /\ b.list2 = w.list2
  BY <1>2, <1>3 DEF SplitAgain
<1>5. x = Repos(b, b.idx, b.node)
  BY <1>3 DEF Split, ReposNode
<1>6. x.list2 = Append(w.list2, b.node.page)
  BY <1>4, <1>5, ReposList
<1> QED  BY <1>6, AppendIs

(* Before the climb takes a level on, the list has three pages of each     *)
(* level below at most.                                                    *)
Counts ==
    /\ Listed(list2)
    /\ path = <<>> \/ Len(path) \in Nat \ {0}
    /\ pc = "idle" => list2 = <<>>
    /\ pc = "balance" /\ level > 0 =>
          /\ level \in Nat /\ Len(path) \in Nat
          /\ level =< Len(path) /\ Len(list2) =< 3 * (Len(path) - level)
    /\ List2Fits

LEMMA NoneListed ==
    Listed(<<>>) /\ Len(<<>>) = 0 /\ (path = <<>> => Len(path) = 0)
<1>1. <<>> \in Seq({})
  OBVIOUS
<1>2. Len(<<>>) = 0
  OBVIOUS
<1> QED  BY <1>1, <1>2 DEF Listed

(* Where the climb ends: one page more is the most that is appended. *)
LEMMA EndCounts ==
    ASSUME Counts, pc = "balance", level > 0, pc' = "finish", path' = path, Appends(list2, list2', 1)
    PROVE  Counts'
<1>1. PICK n, l, a, b : n = Len(path) /\ l = level /\ a = Len(list2) /\ b = Len(list2')
  OBVIOUS
<1>2. /\ l \in Nat /\ n \in Nat /\ l =< n /\ a =< 3 * (n - l) /\ l > 0 /\ b =< a + 1 /\ b \in Nat
      /\ Listed(list2')
  BY <1>1 DEF Counts, Appends
<1>3. a \in Nat
  BY <1>1, AppendIs DEF Counts
<1>4. b =< 3 * (n - 1) + 1
  BY ONLY <1>2, <1>3
<1>5. n # 0 /\ path # <<>>
  BY <1>1, <1>2, NoneListed
<1>6. List2Fits'
  BY <1>1, <1>4, <1>5 DEF List2Fits
<1> QED  BY <1>1, <1>2, <1>5, <1>6 DEF Counts

LEMMA RoundCounts ==
    ASSUME Counts, pc = "balance", level > 0, pc' = pc, path' = path, level' = level - 1,
           Appends(list2, list2', 3), level = 1 => Appends(list2, list2', 1)
    PROVE  Counts'
<1>1. PICK n, l, a, b, P, s : n = Len(P) /\ l = level /\ a = Len(list2) /\ b = Len(s) /\ P = path /\ s = list2'
  OBVIOUS
<1>2. /\ l \in Nat /\ n \in Nat /\ l =< n /\ a =< 3 * (n - l) /\ l > 0 /\ b =< a + 3 /\ b \in Nat
      /\ Listed(s) /\ (l = 1 => b =< a + 1)
  BY <1>1 DEF Counts, Appends
<1>3. a \in Nat
  BY <1>1, AppendIs DEF Counts
<1>4. b =< 3 * (n - (l - 1))
  BY ONLY <1>2, <1>3
<1>5. b =< 3 * (n - 1) + 1
  <2>1. CASE l = 1
    BY ONLY <1>2, <1>3, <2>1
  <2>2. CASE l # 1
    BY ONLY <1>2, <1>3, <2>2
  <2> QED  BY <2>1, <2>2
<1>6. n # 0 /\ P # <<>>
  BY <1>1, <1>2, NoneListed
<1>7. List2Fits'
  BY <1>1, <1>5, <1>6 DEF List2Fits
<1>8. l - 1 > 0 => l - 1 \in Nat /\ l - 1 =< n
  BY ONLY <1>2
<1> QED  BY <1>1, <1>2, <1>4, <1>6, <1>7, <1>8 DEF Counts

LEMMA BeginCounts ==
    ASSUME Counts, IInv', pc = "idle", pc' = "balance", list2' = list2, level' = depth, depth' = depth
    PROVE  Counts'
<1>1. PICK P, n : P = path' /\ n = depth
  OBVIOUS
<1>2. PICK z : Right(z)'
  BY DEF IInv
<1>3. Here(z)'
  BY <1>2 DEF Right
<1>4. n \in Nat /\ \E D : P \in Seq(D) /\ Len(P) = n
  BY <1>1, <1>3 DEF Here, Climbs, Holding, Way
<1>5. list2' = <<>> /\ Listed(list2')
  BY DEF Counts
<1>6. n = 0 => P = <<>>
  BY <1>4
<1>7. List2Fits'
  <2>1. CASE P = <<>>
    <3>1. Len(list2') = 0
      BY <1>5, NoneListed
    <3> QED  BY <1>1, <2>1, <3>1 DEF List2Fits
  <2>2. CASE P # <<>>
    <3>1. Len(list2') = 0
      BY <1>5, NoneListed
    <3>2. 0 =< 3 * (n - 1) + 1
      BY <1>4, <1>6, <2>2
    <3> QED  BY <1>1, <1>4, <2>2, <3>1, <3>2 DEF List2Fits
  <2> QED  BY <2>1, <2>2
<1>8. 0 =< 3 * (n - n)
  BY <1>4
<1>9. Len(list2') = 0
  BY <1>5, NoneListed
<1> QED  BY <1>1, <1>4, <1>5, <1>6, <1>7, <1>8, <1>9 DEF Counts

LEMMA ClimbCounts ==
    ASSUME IInv, Counts, ClimbSpread \/ ClimbSplit \/ ClimbStay
    PROVE  Counts'
<1>1. PICK w, x, s : w = Work /\ x = Spreading /\ s = list2
  OBVIOUS
<1>2. pc = "balance" /\ level > 0
  BY DEF ClimbSpread, ClimbSplit, ClimbStay, Climbing
<1>3. IsWork(w) /\ Fields(w) /\ Fields(x)
  BY <1>1, SpreadingFields DEF IsWork
<1>4. w.list2 = s /\ ~w.done /\ Listed(s)
  BY <1>1, <1>3 DEF IsWork, Counts
<1>5. Len(s) \in Nat /\ \A n \in Nat : Appends(s, s, n)
  BY <1>4, AppendIs
<1>6. /\ Appends(s, x.list2, 3) /\ (~x.done => Appends(s, x.list2, 2))
      /\ level = 1 => x = w
  <2>1. CASE node.end > RecPlus
    BY <1>1, <1>4, <1>5, <2>1 DEF Spreading
  <2>2. CASE ~(node.end > RecPlus)
    <3>1. x = Spread(w)
      BY <1>1, <2>2 DEF Spreading
    <3>2. /\ Appends(w.list2, x.list2, 3) /\ (~x.done => Appends(w.list2, x.list2, 2))
          /\ (w.idx = 0 /\ Count(w.parent) = 0 => x = w)
      BY ONLY <1>3, <1>4, <3>1, SpreadList
    <3>3. level = 1 => w.idx = 0 /\ Count(w.parent) = 0
      <4>1. ASSUME level = 1 PROVE w.idx = 0 /\ w.parent.ents = <<>>
        BY <1>3, <4>1 DEF IsWork, Fresh1, Freshnode
      <4> QED  BY <4>1, NoneListed DEF Count
    <3> QED  BY <1>4, <3>2, <3>3
  <2> QED  BY <2>1, <2>2
<1>7. CASE ClimbSpread
  <2>1. x.done /\ Up(x) /\ pc' = pc
    BY <1>1, <1>7 DEF ClimbSpread, UpSpread
  <2>2. level # 1
    BY <1>4, <1>6, <2>1
  <2>3. path' = path /\ level' = level - 1 /\ list2' = x.list2
    BY <2>1 DEF Up
  <2> QED  BY <1>1, <1>2, <1>6, <2>1, <2>2, <2>3, RoundCounts
<1>8. CASE ClimbSplit
  <2>1. PICK u : u = Split(x)
    OBVIOUS
  <2>2. ~x.done /\ Up(u) /\ pc' = pc
    BY <1>1, <1>8, <2>1 DEF ClimbSplit, UpSplit
  <2>3. path' = path /\ level' = level - 1 /\ list2' = u.list2
    BY <2>2 DEF Up
  <2>4. Appends(s, x.list2, 2) /\ Listed(x.list2)
    BY <1>6, <2>2 DEF Appends
  <2>5. Appends(x.list2, u.list2, 1)
    BY ONLY <1>3, <2>1, <2>4, SplitList
  <2>6. Appends(s, u.list2, 3)
    BY ONLY <1>5, <2>4, <2>5, AppendsThen
  <2>7. level = 1 => Appends(s, u.list2, 1)
    BY <1>4, <1>6, <2>5
  <2> QED  BY <1>1, <1>2, <2>2, <2>3, <2>6, <2>7, RoundCounts
<1>9. CASE ClimbStay
  <2>1. PICK u : u = [x EXCEPT !.disk = Putnode(@, x.node)]
    OBVIOUS
  <2>2. ~x.done /\ x.node.end =< PgSize /\ Up(u) /\ pc' = "finish" /\ ~x.bad
    BY <1>1, <1>9, <2>1 DEF ClimbStay, UpStay, Goto
  <2>3. u.list2 = x.list2 /\ u.made = x.made
    BY <1>3, <2>1 DEF Fields
  <2>4. path' = path /\ list2' = x.list2 /\ 0 \notin x.made
    BY <2>2, <2>3 DEF Up
  <2>5. PICK z : Here(z)
    BY <1>2 DEF IInv, Right
  <2>6. Rounded(z, w, x)
    BY ONLY <1>1, <1>2, <2>2, <2>4, <2>5, SpreadingGood
  <2>7. PICK M, v, y, N : Outcome(w, z, x, y, N, v)
    BY <2>6 DEF Rounded
  <2>8. Ready(x, y, N, v) /\ (x = w \/ x.node.end > PgSize)
    BY <2>2, <2>7 DEF Outcome
  <2>9. x.node.end \in Int /\ PgSize \in Nat
    BY <2>8, SizesAssumption DEF Ready, Fit, NodeType
  <2>10. x = w
    BY <2>2, <2>8, <2>9
  <2>11. list2' = list2
    BY <1>1, <1>4, <2>4, <2>10
  <2>12. Appends(list2, list2', 1)
    BY <1>1, <1>5, <2>11
  <2> QED  BY <1>2, <2>2, <2>4, <2>12, EndCounts
<1> QED  BY <1>7, <1>8, <1>9

(* balanc.c, split.c, spread.c: an update of a tree of n levels appends    *)
(* three pages of each level but the root's to PageList2 at most, and one  *)
(* there.                                                                  *)
THEOREM List2FitsAlways == Spec => []List2Fits
<1>1. Init => Counts
  <2> SUFFICES ASSUME Init PROVE Counts
    OBVIOUS
  <2>1. path = <<>> /\ list2 = <<>> /\ pc = "idle"
    BY DEF Init
  <2>2. Len(list2) = 0 /\ Listed(list2)
    BY <2>1, NoneListed
  <2> QED  BY <2>1, <2>2 DEF Counts, List2Fits
<1>2. IInv /\ IInv' /\ Counts /\ [Next]_vars => Counts'
  <2> SUFFICES ASSUME IInv, IInv', Counts, [Next]_vars PROVE Counts'
    OBVIOUS
  <2>1. ASSUME NEW k \in Key, Delete(k) \/ \E s \in RecSize : Put(k, s) PROVE Counts'
    <3>1. /\ pc = "idle" /\ pc' = "balance" /\ list2' = list2 /\ level' = depth /\ depth' = depth
      BY <2>1 DEF Delete, Put, Begin, Goto, header
    <3> QED  BY <3>1, BeginCounts
  <2>2. CASE Grow \/ Whead
    <3>1. /\ pc' \in {"whead", "finish"} /\ list2' = list2 /\ path' = path
      BY <2>2 DEF Grow, Whead, Goto, update, lists
    <3> QED  BY <3>1 DEF Counts, List2Fits
  <2>3. CASE Collapse \/ InPlace
    <3>1. pc = "balance" /\ level > 0 /\ pc' = "finish" /\ path' = path
      BY <2>3 DEF Collapse, InPlace, Goto, update
    <3>2. list2' = list2 \/ \E e : list2' = Append(list2, e)
      BY <2>3 DEF Collapse, InPlace, lists
    <3>3. Appends(list2, list2', 1)
      BY <3>2, AppendIs DEF Counts
    <3> QED  BY <3>1, <3>3, EndCounts
  <2>4. CASE ClimbSpread \/ ClimbSplit \/ ClimbStay
    BY <2>4, ClimbCounts
  <2>5. CASE Finish \/ Die
    <3>1. path' = <<>> /\ list2' = <<>> /\ pc' = "idle"
      BY <2>5 DEF Finish, Die, Forget, Goto
    <3>2. Len(list2') = 0 /\ Listed(list2')
      BY <3>1, NoneListed
    <3> QED  BY <3>1, <3>2 DEF Counts, List2Fits
  <2>6. CASE UNCHANGED vars
    BY <2>6 DEF vars, update, lists, Counts, List2Fits
  <2> QED  BY <2>1, <2>2, <2>3, <2>4, <2>5, <2>6 DEF Next
<1>3. Counts => List2Fits
  BY DEF Counts
<1> QED  BY <1>1, <1>2, <1>3, Invariance, PTL DEF Spec

(* scanpg.c, balanc.c, split.c, spread.c: whatever an update has written   *)
(* so far, the pages the header reaches are a search tree of equal depth;  *)
(* the climb finds its way back, and PageList2 holds what it puts there.   *)
THEOREM TreeRightAlways == Spec => []TreeRight
<1>1. Searchable /\ Shape /\ NoMismatch /\ List2Fits => TreeRight
  BY DEF TreeRight
<1> QED  BY <1>1, SearchableAlways, ShapeAlways, NoMismatchAlways, List2FitsAlways, PTL
=============================================================================
