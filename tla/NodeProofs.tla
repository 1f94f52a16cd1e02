----------------------------- MODULE NodeProofs -----------------------------
(***************************************************************************)
(* What TLAPS proves of the pages and nodes of a table's B-tree, for every *)
(* size of pages, keys and records.                                        *)
(*                                                                         *)
(* A label tells of a page its height, the keys that belong there and the  *)
(* records in the leaves below.  The operators of Node are shown to do to  *)
(* pages what is done to their labels: to cut one at a key (Redistrib,     *)
(* SplitTail, Promote), to join two (Moveleft, Moveright), to put a record *)
(* in or take it out (Addpage, Delpage, Modpage), also when the page is    *)
(* the parent of the pages cut or joined.                                  *)
(***************************************************************************)
EXTENDS Node, FiniteSetTheorems, SequenceTheorems, WellFoundedInduction, TLAPS

(* Records and separators. *)
Ent == [key : Nat, size : Nat \ {0}]

-----------------------------------------------------------------------------
(* The bytes of a sequence of entries. *)

LEMMA LeastNumber ==
    ASSUME NEW S \in SUBSET Nat, S # {}
    PROVE  \E n \in S : \A m \in S : n =< m
<1> DEFINE R == OpToRel(<, Nat)
<1>1. IsWellFoundedOn(R, Nat)
  BY NatLessThanWellFounded
<1>2. \A x, y \in Nat : x < y => <<x, y>> \in R
  BY DEF OpToRel
<1> HIDE DEF R
<1>3. PICK n \in S : \A m \in S : ~(<<m, n>> \in R)
  BY <1>1, WFMin
<1>4. ASSUME NEW m \in S PROVE n =< m
  <2>1. n \in Nat /\ m \in Nat /\ ~(m < n)
    BY <1>2, <1>3
  <2> QED BY <2>1
<1> QED BY <1>4

(* The sum of the first sizes, for every number of entries. *)
Sums(s, f) == f = [i \in 0 .. Len(s) |-> IF i = 0 THEN 0 ELSE f[i - 1] + s[i].size]

LEMMA SumsExist ==
    ASSUME NEW s \in Seq(Ent)
    PROVE  \E f : Sums(s, f)
<1> DEFINE Upto(n) == \E f : f = [i \in 0 .. n |-> IF i = 0 THEN 0 ELSE f[i - 1] + s[i].size]
           Bad == {n \in 0 .. Len(s) : ~Upto(n)}
<1>1. Len(s) \in Nat
  BY LenProperties
<1>2. Upto(0)
  <2> DEFINE f == [i \in 0 .. 0 |-> 0]
  <2>1. f = [i \in 0 .. 0 |-> IF i = 0 THEN 0 ELSE f[i - 1] + s[i].size]
    OBVIOUS
  <2> QED BY <2>1
<1>3. ASSUME NEW n \in 0 .. Len(s), n + 1 \in 0 .. Len(s), Upto(n) PROVE Upto(n + 1)
  <2>1. PICK f : f = [i \in 0 .. n |-> IF i = 0 THEN 0 ELSE f[i - 1] + s[i].size]
    BY <1>3
  <2> DEFINE g == [i \in 0 .. (n + 1) |-> IF i \in 0 .. n THEN f[i] ELSE f[n] + s[n + 1].size]
             h == [i \in 0 .. (n + 1) |-> IF i = 0 THEN 0 ELSE g[i - 1] + s[i].size]
  <2>2. ASSUME NEW i \in 0 .. (n + 1) PROVE g[i] = h[i]
    <3>1. CASE i \in 0 .. n
      <4>1. i # 0 => i - 1 \in 0 .. n /\ i - 1 \in 0 .. (n + 1)
        BY <1>1, <3>1
      <4>2. f[i] = IF i = 0 THEN 0 ELSE f[i - 1] + s[i].size
        BY <2>1, <3>1
      <4>3. g[i] = f[i] /\ (i # 0 => g[i - 1] = f[i - 1])
        BY <3>1, <4>1
      <4>4. h[i] = IF i = 0 THEN 0 ELSE g[i - 1] + s[i].size
        OBVIOUS
      <4> HIDE DEF g, h
      <4> QED BY <4>2, <4>3, <4>4
    <3>2. CASE i \notin 0 .. n
      <4>1. i = n + 1 /\ i # 0 /\ i - 1 = n /\ n \in 0 .. n /\ n \in 0 .. (n + 1)
        BY <1>1, <3>2
      <4>2. g[i] = f[n] + s[n + 1].size /\ g[n] = f[n]
        BY <3>2, <4>1
      <4>3. h[i] = g[i - 1] + s[i].size
        BY <4>1
      <4> HIDE DEF g, h
      <4> QED BY <4>1, <4>2, <4>3
    <3> QED BY <3>1, <3>2
  <2>3. g = h
    <3>1. g = [i \in 0 .. (n + 1) |-> g[i]] /\ h = [i \in 0 .. (n + 1) |-> h[i]]
      OBVIOUS
    <3> HIDE DEF g, h
    <3> QED BY <2>2, <3>1
  <2> HIDE DEF g
  <2> QED BY <2>3
<1> HIDE DEF Upto
<1>4. Bad = {}
  <2> SUFFICES ASSUME Bad # {} PROVE FALSE
    OBVIOUS
  <2>1. Bad \in SUBSET Nat
    BY <1>1
  <2>2. PICK n \in Bad : \A m \in Bad : n =< m
    BY <2>1, LeastNumber
  <2>3. n \in 0 .. Len(s) /\ n # 0 /\ ~Upto(n)
    BY <1>2, <2>2
  <2>4. n - 1 \in 0 .. Len(s) /\ n - 1 \notin Bad /\ (n - 1) + 1 = n
    BY <1>1, <2>2, <2>3
  <2> QED BY <1>3, <2>3, <2>4
<1>5. Upto(Len(s))
  BY <1>1, <1>4
<1> QED BY <1>5 DEF Upto, Sums

(* The sums of a sequence, and what Bytes is in terms of them. *)
SumsOf(s) == CHOOSE f : Sums(s, f)

LEMMA SumsAre ==
    ASSUME NEW s \in Seq(Ent)
    PROVE  /\ Bytes(s) = SumsOf(s)[Len(s)] /\ SumsOf(s)[0] = 0
           /\ \A i \in 1 .. Len(s) : SumsOf(s)[i] = SumsOf(s)[i - 1] + s[i].size
           /\ \A i \in 0 .. Len(s) : SumsOf(s)[i] \in Nat
<1> DEFINE u == SumsOf(s)
<1>0. Len(s) \in Nat /\ \A i \in 1 .. Len(s) : s[i].size \in Nat
  <2>1. \A i \in 1 .. Len(s) : s[i] \in Ent
    BY ElementOfSeq
  <2> QED BY <2>1, LenProperties DEF Ent
<1>1. Sums(s, u)
  BY SumsExist DEF SumsOf
<1>2. Bytes(s) = u[Len(s)]
  BY DEF Bytes, SumsOf, Sums
<1>3. u[0] = 0 /\ \A i \in 1 .. Len(s) : u[i] = u[i - 1] + s[i].size
  BY <1>0, <1>1 DEF Sums
<1> HIDE DEF u
<1>4. \A i \in 0 .. Len(s) : u[i] \in Nat
  <2> DEFINE Bad == {i \in 0 .. Len(s) : u[i] \notin Nat}
  <2> SUFFICES ASSUME Bad # {} PROVE FALSE
    OBVIOUS
  <2>1. Bad \in SUBSET Nat
    BY <1>0
  <2>2. PICK i \in Bad : \A m \in Bad : i =< m
    BY <2>1, LeastNumber
  <2>3. i \in 1 .. Len(s) /\ i - 1 \in 0 .. Len(s) /\ i - 1 \notin Bad
    BY <1>0, <1>3, <2>2
  <2> QED BY <1>0, <1>3, <2>2, <2>3, SMTT(30)
<1> QED BY <1>2, <1>3, <1>4 DEF u

LEMMA BytesPart ==
    ASSUME NEW s \in Seq(Ent), NEW t \in Seq(Ent), NEW p \in Nat, p + Len(t) =< Len(s),
           \A i \in 1 .. Len(t) : t[i] = s[p + i]
    PROVE  Bytes(t) = SumsOf(s)[p + Len(t)] - SumsOf(s)[p]
<1> DEFINE u == SumsOf(s)
           v == SumsOf(t)
<1>0. Len(s) \in Nat /\ Len(t) \in Nat /\ \A i \in 1 .. Len(s) : s[i].size \in Nat
  <2>1. \A i \in 1 .. Len(s) : s[i] \in Ent
    BY ElementOfSeq
  <2> QED BY <2>1, LenProperties DEF Ent
<1>1. /\ \A i \in 1 .. Len(s) : u[i] = u[i - 1] + s[i].size
      /\ \A i \in 0 .. Len(s) : u[i] \in Nat
  BY SumsAre
<1>2. /\ Bytes(t) = v[Len(t)] /\ v[0] = 0
      /\ \A i \in 1 .. Len(t) : v[i] = v[i - 1] + t[i].size
      /\ \A i \in 0 .. Len(t) : v[i] \in Nat
  BY SumsAre
<1> HIDE DEF u, v
<1> DEFINE Bad == {i \in 0 .. Len(t) : v[i] # u[p + i] - u[p]}
<1>3. Bad = {}
  <2> SUFFICES ASSUME Bad # {} PROVE FALSE
    OBVIOUS
  <2>1. Bad \in SUBSET Nat
    BY <1>0
  <2>2. PICK i \in Bad : \A m \in Bad : i =< m
    BY <2>1, LeastNumber
  <2>3. i # 0
    <3>1. p \in 0 .. Len(s) /\ u[p] \in Nat /\ p + 0 = p
      BY <1>0, <1>1
    <3> QED BY <1>2, <2>2, <3>1
  <2>4. i \in 1 .. Len(t) /\ i - 1 \in 0 .. Len(t) /\ i - 1 \notin Bad /\ p + i \in 1 .. Len(s)
        /\ p + (i - 1) = (p + i) - 1 /\ p \in 0 .. Len(s) /\ p + i - 1 \in 0 .. Len(s)
        /\ p + i \in 0 .. Len(s)
    BY <1>0, <2>2, <2>3
  <2>5. v[i - 1] = u[p + i - 1] - u[p]
    BY <2>4
  <2>6. v[i] = v[i - 1] + s[p + i].size /\ u[p + i] = u[p + i - 1] + s[p + i].size
    BY <1>1, <1>2, <2>4
  <2>7. v[i] = u[p + i] - u[p]
    <3>1. u[p + i - 1] \in Nat /\ u[p] \in Nat /\ s[p + i].size \in Nat
      BY <1>0, <1>1, <2>4
    <3> QED BY <2>5, <2>6, <3>1, SMTT(30)
  <2> QED BY <2>2, <2>7
<1>4. Len(t) \in 0 .. Len(t)
  BY <1>0
<1> QED BY <1>2, <1>3, <1>4 DEF u

(* The bytes of two sequences in a row, of one entry and of none. *)
LEMMA BytesAdd ==
    /\ Bytes(<<>>) = 0
    /\ \A e \in Ent : Bytes(<<e>>) = e.size
    /\ \A s \in Seq(Ent) : Bytes(s) \in Nat
    /\ \A s, t \in Seq(Ent) : Bytes(s \o t) = Bytes(s) + Bytes(t)
<1>1. Bytes(<<>>) = 0
  <2>1. <<>> \in Seq(Ent) /\ Len(<<>>) = 0
    BY EmptySeq
  <2> QED BY <2>1, SumsAre
<1>2. ASSUME NEW e \in Ent PROVE Bytes(<<e>>) = e.size
  <2> DEFINE t == <<e>>
  <2>1. t \in Seq(Ent) /\ Len(t) = 1 /\ t[1] = e /\ e.size \in Nat
    BY DEF Ent
  <2> HIDE DEF t
  <2>2. Bytes(t) = SumsOf(t)[1] /\ SumsOf(t)[0] = 0
        /\ \A i \in 1 .. 1 : SumsOf(t)[i] = SumsOf(t)[i - 1] + t[i].size
    BY <2>1, SumsAre
  <2>3. SumsOf(t)[1] = SumsOf(t)[1 - 1] + t[1].size
    BY <2>2
  <2> QED BY <2>1, <2>2, <2>3 DEF t
<1>3. ASSUME NEW s \in Seq(Ent) PROVE Bytes(s) \in Nat
  BY SumsAre, LenProperties
<1>4. ASSUME NEW s \in Seq(Ent), NEW t \in Seq(Ent) PROVE Bytes(s \o t) = Bytes(s) + Bytes(t)
  <2> DEFINE r == s \o t
  <2>1. r \in Seq(Ent) /\ Len(r) = Len(s) + Len(t) /\ Len(s) \in Nat /\ Len(t) \in Nat
        /\ \A i \in 1 .. Len(r) : r[i] = IF i =< Len(s) THEN s[i] ELSE t[i - Len(s)]
    BY ConcatProperties, LenProperties
  <2> HIDE DEF r
  <2>2. \A i \in 1 .. Len(s) : s[i] = r[0 + i]
    BY <2>1
  <2>3. Bytes(s) = SumsOf(r)[0 + Len(s)] - SumsOf(r)[0]
    <3>1. 0 \in Nat /\ 0 + Len(s) =< Len(r)
      BY <2>1
    <3> QED BY <2>1, <2>2, <3>1, BytesPart
  <2>4. \A i \in 1 .. Len(t) : t[i] = r[Len(s) + i]
    BY <2>1
  <2>5. Bytes(t) = SumsOf(r)[Len(s) + Len(t)] - SumsOf(r)[Len(s)]
    BY <2>1, <2>4, BytesPart
  <2>6. Bytes(r) = SumsOf(r)[Len(r)] /\ SumsOf(r)[0] = 0
        /\ SumsOf(r)[Len(s)] \in Nat /\ SumsOf(r)[Len(r)] \in Nat
    BY <2>1, SumsAre
  <2> QED BY <2>1, <2>3, <2>5, <2>6 DEF r
<1> QED BY <1>1, <1>2, <1>3, <1>4

-----------------------------------------------------------------------------
(* The nodes in memory. *)
NodeType == [page : Int, leaf : BOOLEAN, ents : Seq(Ent), kids : Seq(Int), end : Int, ovh : Nat]

(* Two neighbours: entries that are in one row, the first p of them in the left *)
(* node. Index nodes have the child between them in common. last is what the  *)
(* right one has for children when it has no entries, tot what the left one is *)
(* long when it has them all.                                                *)
Neighbours ==
    {b \in [ents : Seq(Ent), kids : Seq(Int), last : Seq(Int), leaf : BOOLEAN,
            lovh : Nat, rovh : Nat, tot : Int, base : Nat, lpage : Int, rpage : Int] :
        Len(b.last) = 1 /\ (~b.leaf => Len(b.kids) = Len(b.ents) + 1)}

Over(b, p) == Bytes(SubSeq(b.ents, p + 1, Len(b.ents))) + (Len(b.ents) - p) * b.rovh

IsLeft(nd, b, p) ==
    /\ nd \in NodeType /\ nd.page = b.lpage /\ nd.leaf = b.leaf /\ nd.ovh = b.lovh
    /\ nd.ents = SubSeq(b.ents, 1, p) /\ nd.end = b.tot - Over(b, p)
    /\ nd.kids = IF b.leaf THEN <<>> ELSE SubSeq(b.kids, 1, p + 1)
IsRight(nd, b, p) ==
    /\ nd \in NodeType /\ nd.page = b.rpage /\ nd.leaf = b.leaf /\ nd.ovh = b.rovh
    /\ nd.ents = SubSeq(b.ents, p + 1, Len(b.ents)) /\ nd.end = b.base + Over(b, p)
    /\ nd.kids = IF b.leaf THEN <<>>
                 ELSE IF p = Len(b.ents) THEN b.last ELSE SubSeq(b.kids, p + 1, Len(b.ents) + 1)
IsPair(m, b, p) == IsLeft(m.left, b, p) /\ IsRight(m.right, b, p)

LEMMA PartType ==
    ASSUME NEW S, NEW s \in Seq(S), NEW p \in Nat, NEW q \in Nat, 1 =< p, q =< Len(s), p =< q + 1
    PROVE  /\ SubSeq(s, p, q) \in Seq(S) /\ Len(SubSeq(s, p, q)) = q - p + 1
           /\ \A i \in 1 .. q - p + 1 : SubSeq(s, p, q)[i] = s[p + i - 1]
<1>1. Len(s) \in Nat
  BY LenProperties
<1>2. \A i \in p .. q : s[i] \in S
  BY <1>1, ElementOfSeq
<1>3. /\ SubSeq(s, p, q) \in Seq(S) /\ Len(SubSeq(s, p, q)) = IF p =< q THEN q - p + 1 ELSE 0
      /\ \A i \in 1 .. q - p + 1 : SubSeq(s, p, q)[i] = s[p + i - 1]
  BY <1>2, SubSeqProperties
<1> QED BY <1>3

(* Parts that follow each other. *)
LEMMA PartsJoin ==
    ASSUME NEW S, NEW s \in Seq(S), NEW p \in Nat, NEW k \in Nat, NEW q \in Nat,
           1 =< p, p =< k + 1, k =< q, q =< Len(s)
    PROVE  SubSeq(s, p, k) \o SubSeq(s, k + 1, q) = SubSeq(s, p, q)
<1>1. Len(s) \in Nat /\ p \in 1 .. Len(s) + 1 /\ k \in p - 1 .. Len(s) /\ q \in k .. Len(s)
  BY LenProperties
<1> QED BY <1>1, ConcatAdjacentSubSeq

(* A part of a part. *)
LEMMA PartOfPart ==
    ASSUME NEW S, NEW s \in Seq(S), NEW i \in Nat, NEW j \in Nat, NEW m \in Nat, NEW n \in Nat,
           1 =< i, i =< j + 1, j =< Len(s), 1 =< m, m =< n + 1, n =< j - i + 1
    PROVE  SubSeq(SubSeq(s, i, j), m, n) = SubSeq(s, i + m - 1, i + n - 1)
<1> DEFINE t == SubSeq(s, i, j)
           a == SubSeq(t, m, n)
           c == SubSeq(s, i + m - 1, i + n - 1)
<1>0. Len(s) \in Nat
  BY LenProperties
<1>1. t \in Seq(S) /\ Len(t) = j - i + 1 /\ \A x \in 1 .. j - i + 1 : t[x] = s[i + x - 1]
  BY PartType
<1> HIDE DEF t
<1>2. a \in Seq(S) /\ Len(a) = n - m + 1 /\ \A x \in 1 .. n - m + 1 : a[x] = t[m + x - 1]
  BY <1>1, PartType
<1>3. /\ i + m - 1 \in Nat /\ i + n - 1 \in Nat /\ 1 =< i + m - 1
      /\ i + n - 1 =< Len(s) /\ i + m - 1 =< (i + n - 1) + 1
  BY <1>0
<1>4. c \in Seq(S) /\ Len(c) = (i + n - 1) - (i + m - 1) + 1
      /\ \A x \in 1 .. (i + n - 1) - (i + m - 1) + 1 : c[x] = s[(i + m - 1) + x - 1]
  BY <1>3, PartType
<1> HIDE DEF a, c
<1>5. ASSUME NEW x \in 1 .. n - m + 1 PROVE a[x] = c[x]
  <2>1. m + x - 1 \in 1 .. j - i + 1 /\ i + (m + x - 1) - 1 = (i + m - 1) + x - 1
        /\ x \in 1 .. (i + n - 1) - (i + m - 1) + 1
    OBVIOUS
  <2> QED BY <1>1, <1>2, <1>4, <2>1
<1>6. Len(a) = Len(c)
  BY <1>2, <1>4
<1>7. a = c
  BY <1>2, <1>4, <1>5, <1>6, SeqEqual
<1> QED BY <1>7 DEF a, c, t

LEMMA OverAdd ==
    ASSUME NEW b \in Neighbours, NEW p \in Nat, NEW q \in Nat, p =< q, q =< Len(b.ents)
    PROVE  /\ Over(b, p) = Over(b, q) + Bytes(SubSeq(b.ents, p + 1, q)) + (q - p) * b.rovh
           /\ Bytes(SubSeq(b.ents, p + 1, q)) \in Nat
           /\ Over(b, p) \in Nat /\ Over(b, q) \in Nat /\ Over(b, q) =< Over(b, p)
<1> DEFINE n == Len(b.ents)
           B(i, j) == Bytes(SubSeq(b.ents, i, j))
<1>1. b.ents \in Seq(Ent) /\ n \in Nat /\ b.rovh \in Nat
  BY LenProperties DEF Neighbours
<1>2. SubSeq(b.ents, p + 1, q) \o SubSeq(b.ents, q + 1, n) = SubSeq(b.ents, p + 1, n)
  <2> DEFINE m == p + 1
             N == Len(b.ents)
  <2>1. m \in Nat /\ 1 =< m /\ m =< q + 1 /\ q =< N /\ N =< Len(b.ents) /\ N \in Nat
    BY <1>1
  <2> HIDE DEF m, N
  <2>2. SubSeq(b.ents, m, q) \o SubSeq(b.ents, q + 1, N) = SubSeq(b.ents, m, N)
    BY <1>1, <2>1, PartsJoin
  <2> QED BY <2>2 DEF m, N
<1>3. /\ SubSeq(b.ents, p + 1, q) \in Seq(Ent) /\ SubSeq(b.ents, q + 1, n) \in Seq(Ent)
  BY <1>1, PartType
<1>4. B(p + 1, n) = B(p + 1, q) + B(q + 1, n) /\ B(p + 1, q) \in Nat /\ B(q + 1, n) \in Nat
  BY <1>2, <1>3, BytesAdd
<1>5. (n - p) * b.rovh = (q - p) * b.rovh + (n - q) * b.rovh
      /\ (q - p) * b.rovh \in Nat /\ (n - q) * b.rovh \in Nat
  <2>1. \A x, y, r \in Nat : (x + y) * r = x * r + y * r /\ x * r \in Nat /\ y * r \in Nat
    OBVIOUS
  <2>2. q - p \in Nat /\ n - q \in Nat /\ (q - p) + (n - q) = n - p
    BY <1>1
  <2> DEFINE x == q - p
             y == n - q
  <2> HIDE DEF x, y
  <2>3. (x + y) * b.rovh = x * b.rovh + y * b.rovh /\ x * b.rovh \in Nat /\ y * b.rovh \in Nat
    <3>1. x \in Nat /\ y \in Nat
      BY <2>2 DEF x, y
    <3> QED BY <1>1, <2>1, <3>1
  <2>4. ((q - p) + (n - q)) * b.rovh = (q - p) * b.rovh + (n - q) * b.rovh
        /\ (q - p) * b.rovh \in Nat /\ (n - q) * b.rovh \in Nat
    BY <2>3 DEF x, y
  <2> QED BY <2>2, <2>4
<1>6. Over(b, p) = B(p + 1, n) + (n - p) * b.rovh /\ Over(b, q) = B(q + 1, n) + (n - q) * b.rovh
  BY DEF Over
<1> DEFINE R1 == (n - p) * b.rovh
           R2 == (q - p) * b.rovh
           R3 == (n - q) * b.rovh
<1>7. R1 = R2 + R3 /\ R2 \in Nat /\ R3 \in Nat
  BY <1>5
<1>8. Over(b, p) = B(p + 1, n) + R1 /\ Over(b, q) = B(q + 1, n) + R3
  BY <1>6
<1> HIDE DEF R1, R2, R3, B
<1>9. Over(b, p) = Over(b, q) + B(p + 1, q) + R2 /\ Over(b, p) \in Nat /\ Over(b, q) \in Nat
      /\ Over(b, q) =< Over(b, p)
  BY <1>4, <1>7, <1>8, SMTT(30)
<1> QED BY <1>4, <1>9 DEF B, R2

LEMMA NodeExcept ==
    ASSUME NEW nd \in NodeType, NEW e \in Seq(Ent), NEW k \in Seq(Int), NEW x \in Int,
           NEW m, m = [nd EXCEPT !.ents = e, !.kids = k, !.end = x]
    PROVE  /\ m \in NodeType /\ m.ents = e /\ m.kids = k /\ m.end = x
           /\ m.page = nd.page /\ m.leaf = nd.leaf /\ m.ovh = nd.ovh
BY DEF NodeType

(* moveright() takes the last k entries of the left node over. *)
LEMMA MoverightIs ==
    ASSUME NEW b \in Neighbours, NEW p \in Nat, NEW k \in Nat, k =< p, p =< Len(b.ents),
           NEW l, NEW r, IsLeft(l, b, p), IsRight(r, b, p)
    PROVE  LET m == Moveright(l, r, k) IN IsPair(m, b, p - k) /\ m.moved = k
<1> DEFINE n == Len(b.ents)
           q == p - k
           moved == SubSeq(l.ents, q + 1, Count(l))
           bytes == Bytes(moved) + k * r.ovh
           lkids == IF l.leaf \/ k = 0 THEN l.kids ELSE SubSeq(l.kids, 1, q + 1)
           rkids == IF l.leaf \/ k = 0 THEN r.kids
                    ELSE SubSeq(l.kids, q + 1, Count(l) + 1) \o Tail(r.kids)
           ml == [l EXCEPT !.ents = SubSeq(l.ents, 1, q), !.kids = lkids, !.end = l.end - bytes]
           mr == [r EXCEPT !.ents = moved \o r.ents, !.kids = rkids, !.end = r.end + bytes]
<1>1. /\ b.ents \in Seq(Ent) /\ b.kids \in Seq(Int) /\ b.last \in Seq(Int) /\ Len(b.last) = 1
      /\ b.leaf \in BOOLEAN /\ b.tot \in Int /\ b.base \in Nat /\ b.rovh \in Nat
      /\ n \in Nat /\ q \in Nat /\ (~b.leaf => Len(b.kids) = n + 1)
  BY LenProperties DEF Neighbours
<1>2. /\ l \in NodeType /\ r \in NodeType /\ l.leaf = b.leaf /\ r.ovh = b.rovh
      /\ l.ents = SubSeq(b.ents, 1, p) /\ r.ents = SubSeq(b.ents, p + 1, n)
  BY DEF IsLeft, IsRight
<1>3. Count(l) = p
  <2>1. Len(SubSeq(b.ents, 1, p)) = p - 1 + 1
    BY <1>1, PartType
  <2> QED BY <1>2, <2>1 DEF Count
<1>4. Moveright(l, r, k).left = ml /\ Moveright(l, r, k).right = mr /\ Moveright(l, r, k).moved = k
  <2>1. p - k = q
    OBVIOUS
  <2> QED BY <1>3, <2>1 DEF Moveright
<1>5. moved = SubSeq(b.ents, q + 1, p) /\ moved \in Seq(Ent)
  <2>1. SubSeq(SubSeq(b.ents, 1, p), q + 1, p) = SubSeq(b.ents, 1 + (q + 1) - 1, 1 + p - 1)
    <3>1. 1 =< 1 /\ 1 =< p + 1 /\ 1 =< q + 1 /\ q + 1 =< p + 1 /\ p =< p - 1 + 1 /\ q + 1 \in Nat
      BY <1>1
    <3> QED BY <1>1, <3>1, PartOfPart
  <2>2. 1 + (q + 1) - 1 = q + 1 /\ 1 + p - 1 = p
    BY <1>1
  <2>3. SubSeq(b.ents, q + 1, p) \in Seq(Ent)
    BY <1>1, PartType
  <2> QED BY <1>2, <1>3, <2>1, <2>2, <2>3
<1>6. Over(b, q) = Over(b, p) + bytes /\ Over(b, q) \in Nat /\ Over(b, p) \in Nat /\ bytes \in Nat
  <2>1. Over(b, q) = Over(b, p) + Bytes(SubSeq(b.ents, q + 1, p)) + (p - q) * b.rovh
        /\ Over(b, p) \in Nat /\ Over(b, q) \in Nat /\ Over(b, p) =< Over(b, q)
        /\ Bytes(SubSeq(b.ents, q + 1, p)) \in Nat
    <3>1. q \in Nat /\ q =< p /\ p =< Len(b.ents)
      BY <1>1
    <3> HIDE DEF q
    <3> QED BY <3>1, OverAdd
  <2>2. p - q = k /\ k * b.rovh \in Nat
    BY <1>1
  <2>3. bytes = Bytes(SubSeq(b.ents, q + 1, p)) + k * b.rovh
    BY <1>2, <1>5
  <2> DEFINE y == k * b.rovh
  <2>4. Over(b, q) = Over(b, p) + Bytes(SubSeq(b.ents, q + 1, p)) + y /\ y \in Nat
        /\ bytes = Bytes(SubSeq(b.ents, q + 1, p)) + y
    BY <2>1, <2>2, <2>3
  <2> HIDE DEF y, q, bytes
  <2> QED BY <2>1, <2>4
<1>7. SubSeq(l.ents, 1, q) = SubSeq(b.ents, 1, q) /\ SubSeq(b.ents, 1, q) \in Seq(Ent)
  <2>1. SubSeq(SubSeq(b.ents, 1, p), 1, q) = SubSeq(b.ents, 1 + 1 - 1, 1 + q - 1)
    <3>1. 1 =< 1 /\ 1 =< p + 1 /\ 1 =< q + 1 /\ q =< p - 1 + 1
      BY <1>1
    <3> QED BY <1>1, <3>1, PartOfPart
  <2>2. 1 + 1 - 1 = 1 /\ 1 + q - 1 = q
    BY <1>1
  <2>3. SubSeq(b.ents, 1, q) \in Seq(Ent)
    BY <1>1, PartType
  <2> QED BY <1>2, <2>1, <2>2, <2>3
<1>8. moved \o r.ents = SubSeq(b.ents, q + 1, n) /\ SubSeq(b.ents, q + 1, n) \in Seq(Ent)
  <2>1. SubSeq(b.ents, q + 1, p) \o SubSeq(b.ents, p + 1, n) = SubSeq(b.ents, q + 1, n)
    <3> DEFINE i == q + 1
    <3>1. i \in Nat /\ 1 =< i /\ i =< p + 1 /\ p =< n /\ n =< Len(b.ents)
      BY <1>1
    <3> HIDE DEF i, n
    <3>2. SubSeq(b.ents, i, p) \o SubSeq(b.ents, p + 1, n) = SubSeq(b.ents, i, n)
      BY <1>1, <3>1, PartsJoin, SMTT(30)
    <3> QED BY <3>2 DEF i
  <2>2. SubSeq(b.ents, q + 1, n) \in Seq(Ent)
    BY <1>1, PartType
  <2> QED BY <1>2, <1>5, <2>1, <2>2
<1>9. lkids = (IF b.leaf THEN <<>> ELSE SubSeq(b.kids, 1, q + 1)) /\ lkids \in Seq(Int)
  <2>1. CASE b.leaf
    BY <1>2, <2>1 DEF IsLeft, NodeType
  <2>2. CASE ~b.leaf /\ k = 0
    <3>1. q = p
      BY <2>2
    <3> QED BY <1>2, <2>2, <3>1 DEF IsLeft, NodeType
  <2>3. CASE ~b.leaf /\ k # 0
    <3>1. lkids = SubSeq(SubSeq(b.kids, 1, p + 1), 1, q + 1)
      BY <1>2, <2>3 DEF IsLeft
    <3>2. SubSeq(SubSeq(b.kids, 1, p + 1), 1, q + 1) = SubSeq(b.kids, 1 + 1 - 1, 1 + (q + 1) - 1)
      <4>1. /\ 1 =< 1 /\ 1 =< (p + 1) + 1 /\ p + 1 =< Len(b.kids) /\ 1 =< (q + 1) + 1
            /\ q + 1 =< (p + 1) - 1 + 1 /\ p + 1 \in Nat /\ q + 1 \in Nat
        BY <1>1, <2>3
      <4> QED BY <1>1, <4>1, PartOfPart
    <3>3. 1 + 1 - 1 = 1 /\ 1 + (q + 1) - 1 = q + 1
      BY <1>1
    <3>4. SubSeq(b.kids, 1, q + 1) \in Seq(Int)
      BY <1>1, <2>3, PartType
    <3> QED BY <2>3, <3>1, <3>2, <3>3, <3>4
  <2> QED BY <1>1, <2>1, <2>2, <2>3
<1>10. /\ rkids = (IF b.leaf THEN <<>>
                   ELSE IF q = n THEN b.last ELSE SubSeq(b.kids, q + 1, n + 1))
       /\ rkids \in Seq(Int)
  <2>1. CASE b.leaf
    BY <1>2, <2>1 DEF IsRight, NodeType
  <2>2. CASE ~b.leaf /\ k = 0
    <3>1. q = p
      BY <2>2
    <3> QED BY <1>2, <2>2, <3>1 DEF IsRight, NodeType
  <2>3. CASE ~b.leaf /\ k # 0
    <3>1. rkids = SubSeq(SubSeq(b.kids, 1, p + 1), q + 1, p + 1) \o Tail(r.kids)
      BY <1>2, <1>3, <2>3 DEF IsLeft
    <3>2. SubSeq(SubSeq(b.kids, 1, p + 1), q + 1, p + 1)
            = SubSeq(b.kids, 1 + (q + 1) - 1, 1 + (p + 1) - 1)
      <4>1. /\ 1 =< 1 /\ 1 =< (p + 1) + 1 /\ p + 1 =< Len(b.kids) /\ 1 =< q + 1
            /\ q + 1 =< (p + 1) + 1 /\ p + 1 =< (p + 1) - 1 + 1 /\ p + 1 \in Nat /\ q + 1 \in Nat
        BY <1>1, <2>3
      <4> QED BY <1>1, <4>1, PartOfPart
    <3>3. 1 + (q + 1) - 1 = q + 1 /\ 1 + (p + 1) - 1 = p + 1
      BY <1>1
    <3>4. rkids = SubSeq(b.kids, q + 1, p + 1) \o Tail(r.kids)
      BY <3>1, <3>2, <3>3
    <3>5. Tail(r.kids) = SubSeq(b.kids, p + 2, n + 1)
      <4>1. CASE p = n
        <5>1. r.kids = b.last
          BY <2>3, <4>1 DEF IsRight
        <5>2. Tail(b.last) = SubSeq(b.last, 2, 1)
          <6>1. b.last # <<>>
            <7>1. \A s \in Seq(Int) : (s = <<>>) <=> (Len(s) = 0)
              BY EmptySeq
            <7>2. b.last \in Seq(Int) /\ Len(b.last) = 1
              BY <1>1
            <7>3. (b.last = <<>>) <=> (Len(b.last) = 0)
              BY <7>1, <7>2
            <7> QED BY <7>2, <7>3
          <6> QED BY <1>1, <6>1, TailIsSubSeq
        <5>3. SubSeq(b.last, 2, 1) = <<>>
          BY SubSeqEmpty
        <5>4. SubSeq(b.kids, p + 2, n + 1) = <<>>
          BY <1>1, <4>1, SubSeqEmpty
        <5> QED BY <5>1, <5>2, <5>3, <5>4
      <4>2. CASE p # n
        <5>1. r.kids = SubSeq(b.kids, p + 1, n + 1)
          BY <2>3, <4>2 DEF IsRight
        <5>2. p + 1 \in 1 .. Len(b.kids) /\ n + 1 \in p + 1 .. Len(b.kids) /\ (p + 1) + 1 = p + 2
          BY <1>1, <2>3
        <5>3. Tail(SubSeq(b.kids, p + 1, n + 1)) = SubSeq(b.kids, (p + 1) + 1, n + 1)
          BY <1>1, <5>2, HeadTailOfSubSeq
        <5> QED BY <5>1, <5>2, <5>3
      <4> QED BY <4>1, <4>2
    <3>6. SubSeq(b.kids, q + 1, p + 1) \o SubSeq(b.kids, p + 2, n + 1) = SubSeq(b.kids, q + 1, n + 1)
      <4> DEFINE i == q + 1
                 j == p + 1
                 h == n + 1
      <4>1. i \in Nat /\ j \in Nat /\ h \in Nat /\ 1 =< i /\ i =< j + 1 /\ j =< h /\ h =< Len(b.kids)
            /\ j + 1 = p + 2
        BY <1>1, <2>3
      <4> HIDE DEF i, j, h
      <4>2. SubSeq(b.kids, i, j) \o SubSeq(b.kids, j + 1, h) = SubSeq(b.kids, i, h)
        BY <1>1, <4>1, PartsJoin, SMTT(30)
      <4> QED BY <4>1, <4>2 DEF i, j, h
    <3>7. SubSeq(b.kids, q + 1, n + 1) \in Seq(Int)
      BY <1>1, <2>3, PartType
    <3>8. q # n
      BY <1>1, <2>3
    <3> QED BY <2>3, <3>4, <3>5, <3>6, <3>7, <3>8
  <2> QED BY <1>1, <2>1, <2>2, <2>3
<1> HIDE DEF q, moved, bytes, lkids, rkids
<1>11. IsLeft(ml, b, q)
  <2>1. l.end = b.tot - Over(b, p) /\ l.page = b.lpage /\ l.ovh = b.lovh
    BY DEF IsLeft
  <2>2. l.end - bytes = b.tot - Over(b, q) /\ l.end - bytes \in Int
    BY <1>1, <1>6, <2>1, SMTT(30)
  <2>3. /\ ml \in NodeType /\ ml.ents = SubSeq(l.ents, 1, q) /\ ml.kids = lkids
        /\ ml.end = l.end - bytes /\ ml.page = l.page /\ ml.leaf = l.leaf /\ ml.ovh = l.ovh
    <3> DEFINE e == SubSeq(l.ents, 1, q)
               x == l.end - bytes
    <3>1. e \in Seq(Ent) /\ x \in Int /\ lkids \in Seq(Int) /\ l \in NodeType
      BY <1>2, <1>7, <1>9, <2>2
    <3>2. ml = [l EXCEPT !.ents = e, !.kids = lkids, !.end = x]
      OBVIOUS
    <3> HIDE DEF e, x, ml
    <3>3. /\ ml \in NodeType /\ ml.ents = e /\ ml.kids = lkids /\ ml.end = x
          /\ ml.page = l.page /\ ml.leaf = l.leaf /\ ml.ovh = l.ovh
      BY <3>1, <3>2 DEF NodeType
    <3> QED BY <3>3 DEF e, x
  <2> QED BY <1>2, <1>7, <1>9, <2>1, <2>2, <2>3 DEF IsLeft
<1>12. IsRight(mr, b, q)
  <2>1. r.end = b.base + Over(b, p) /\ r.page = b.rpage /\ r.leaf = b.leaf
    BY DEF IsRight
  <2>2. r.end + bytes = b.base + Over(b, q) /\ r.end + bytes \in Int
    BY <1>1, <1>6, <2>1
  <2>3. /\ mr \in NodeType /\ mr.ents = moved \o r.ents /\ mr.kids = rkids
        /\ mr.end = r.end + bytes /\ mr.page = r.page /\ mr.leaf = r.leaf /\ mr.ovh = r.ovh
    <3> DEFINE e == moved \o r.ents
               x == r.end + bytes
    <3>1. e \in Seq(Ent) /\ x \in Int /\ rkids \in Seq(Int) /\ r \in NodeType
      BY <1>2, <1>8, <1>10, <2>2
    <3>2. mr = [r EXCEPT !.ents = e, !.kids = rkids, !.end = x]
      OBVIOUS
    <3> HIDE DEF e, x, mr
    <3>3. /\ mr \in NodeType /\ mr.ents = e /\ mr.kids = rkids /\ mr.end = x
          /\ mr.page = r.page /\ mr.leaf = r.leaf /\ mr.ovh = r.ovh
      BY <3>1, <3>2 DEF NodeType
    <3> QED BY <3>3 DEF e, x
  <2> QED BY <1>2, <1>8, <1>10, <2>1, <2>2, <2>3 DEF IsRight
<1> QED BY <1>4, <1>11, <1>12 DEF IsPair, q

(* Neighbours whose entries count alike and that share a child, also when  *)
(* the right one has no entries.                                           *)
Alike(b) ==
    /\ b.lovh = b.rovh
    /\ ~b.leaf => b.last = SubSeq(b.kids, Len(b.ents) + 1, Len(b.ents) + 1)

(* moveleft() takes the first k entries of the right node over. *)
LEMMA MoveleftIs ==
    ASSUME NEW b \in Neighbours, Alike(b), NEW p \in Nat, NEW k \in Nat, p + k =< Len(b.ents),
           NEW l, NEW r, IsLeft(l, b, p), IsRight(r, b, p)
    PROVE  LET m == Moveleft(l, r, k) IN IsPair(m, b, p + k) /\ m.moved = k
<1> DEFINE n == Len(b.ents)
           q == p + k
           moved == SubSeq(r.ents, 1, k)
           bytes == Bytes(moved) + k * l.ovh
           lkids == IF l.leaf THEN l.kids ELSE l.kids \o SubSeq(r.kids, 2, k + 1)
           rkids == IF l.leaf THEN r.kids ELSE SubSeq(r.kids, k + 1, Count(r) + 1)
           ml == [l EXCEPT !.ents = l.ents \o moved, !.kids = lkids, !.end = l.end + bytes]
           mr == [r EXCEPT !.ents = SubSeq(r.ents, k + 1, Count(r)), !.kids = rkids,
                           !.end = r.end - bytes]
<1>1. /\ b.ents \in Seq(Ent) /\ b.kids \in Seq(Int)
      /\ b.leaf \in BOOLEAN /\ b.tot \in Int /\ b.base \in Nat /\ b.rovh \in Nat
      /\ n \in Nat /\ q \in Nat /\ (~b.leaf => Len(b.kids) = n + 1) /\ p =< n /\ q =< n
  BY LenProperties DEF Neighbours
<1>2. /\ l \in NodeType /\ r \in NodeType /\ l.leaf = b.leaf /\ l.ovh = b.rovh
      /\ l.ents = SubSeq(b.ents, 1, p) /\ r.ents = SubSeq(b.ents, p + 1, n)
  BY DEF IsLeft, IsRight, Alike
<1>3. Count(r) = n - p
  <2>1. Len(SubSeq(b.ents, p + 1, n)) = n - (p + 1) + 1
    <3>1. p + 1 \in Nat /\ 1 =< p + 1 /\ n =< Len(b.ents) /\ p + 1 =< n + 1
      BY <1>1
    <3> QED BY <1>1, <3>1, PartType
  <2> QED BY <1>1, <1>2, <2>1 DEF Count
<1>4. Moveleft(l, r, k).left = ml /\ Moveleft(l, r, k).right = mr /\ Moveleft(l, r, k).moved = k
  BY DEF Moveleft
<1>5. moved = SubSeq(b.ents, p + 1, q) /\ moved \in Seq(Ent)
  <2>1. SubSeq(SubSeq(b.ents, p + 1, n), 1, k) = SubSeq(b.ents, (p + 1) + 1 - 1, (p + 1) + k - 1)
    <3>1. 1 =< p + 1 /\ p + 1 =< n + 1 /\ 1 =< 1 /\ 1 =< k + 1 /\ k =< n - (p + 1) + 1 /\ p + 1 \in Nat
          /\ n =< Len(b.ents)
      BY <1>1
    <3> HIDE DEF n
    <3> QED BY <1>1, <3>1, PartOfPart
  <2>2. (p + 1) + 1 - 1 = p + 1 /\ (p + 1) + k - 1 = q
    BY <1>1
  <2>3. SubSeq(b.ents, p + 1, q) \in Seq(Ent)
    BY <1>1, PartType
  <2> QED BY <1>2, <2>1, <2>2, <2>3
<1>6. Over(b, p) = Over(b, q) + bytes /\ Over(b, q) \in Nat /\ Over(b, p) \in Nat /\ bytes \in Nat
  <2>1. Over(b, p) = Over(b, q) + Bytes(SubSeq(b.ents, p + 1, q)) + (q - p) * b.rovh
        /\ Over(b, p) \in Nat /\ Over(b, q) \in Nat /\ Over(b, q) =< Over(b, p)
        /\ Bytes(SubSeq(b.ents, p + 1, q)) \in Nat
    <3>1. q \in Nat /\ p =< q /\ q =< Len(b.ents)
      BY <1>1
    <3> HIDE DEF q
    <3> QED BY <3>1, OverAdd
  <2>2. q - p = k /\ k * b.rovh \in Nat
    BY <1>1
  <2>3. bytes = Bytes(SubSeq(b.ents, p + 1, q)) + k * b.rovh
    BY <1>2, <1>5
  <2> DEFINE y == k * b.rovh
  <2>4. Over(b, p) = Over(b, q) + Bytes(SubSeq(b.ents, p + 1, q)) + y /\ y \in Nat
        /\ bytes = Bytes(SubSeq(b.ents, p + 1, q)) + y
    BY <2>1, <2>2, <2>3
  <2> HIDE DEF y, q, bytes
  <2> QED BY <2>1, <2>4
<1>7. l.ents \o moved = SubSeq(b.ents, 1, q) /\ SubSeq(b.ents, 1, q) \in Seq(Ent)
  <2>1. SubSeq(b.ents, 1, p) \o SubSeq(b.ents, p + 1, q) = SubSeq(b.ents, 1, q)
    <3>1. 1 =< 1 /\ 1 =< p + 1 /\ p =< q /\ q =< Len(b.ents)
      BY <1>1
    <3> HIDE DEF q
    <3> QED BY <1>1, <3>1, PartsJoin
  <2>2. SubSeq(b.ents, 1, q) \in Seq(Ent)
    BY <1>1, PartType
  <2> QED BY <1>2, <1>5, <2>1, <2>2
<1>8. SubSeq(r.ents, k + 1, Count(r)) = SubSeq(b.ents, q + 1, n) /\ SubSeq(b.ents, q + 1, n) \in Seq(Ent)
  <2>1. SubSeq(SubSeq(b.ents, p + 1, n), k + 1, n - p)
          = SubSeq(b.ents, (p + 1) + (k + 1) - 1, (p + 1) + (n - p) - 1)
    <3>1. /\ 1 =< p + 1 /\ p + 1 =< n + 1 /\ 1 =< k + 1 /\ k + 1 =< (n - p) + 1 /\ p + 1 \in Nat
          /\ n - p =< n - (p + 1) + 1 /\ k + 1 \in Nat /\ n - p \in Nat /\ n =< Len(b.ents)
      BY <1>1
    <3> HIDE DEF n
    <3> QED BY <1>1, <3>1, PartOfPart
  <2>2. (p + 1) + (k + 1) - 1 = q + 1 /\ (p + 1) + (n - p) - 1 = n
    <3>1. n \in Nat
      BY <1>1
    <3> HIDE DEF n
    <3> QED BY <3>1
  <2>3. SubSeq(b.ents, q + 1, n) \in Seq(Ent)
    BY <1>1, PartType
  <2> QED BY <1>2, <1>3, <2>1, <2>2, <2>3
<1>0. ~b.leaf => r.kids = SubSeq(b.kids, p + 1, n + 1) /\ l.kids = SubSeq(b.kids, 1, p + 1)
  BY DEF IsLeft, IsRight, Alike
<1>9. lkids = (IF b.leaf THEN <<>> ELSE SubSeq(b.kids, 1, q + 1)) /\ lkids \in Seq(Int)
  <2>1. CASE b.leaf
    BY <1>2, <2>1 DEF IsLeft, NodeType
  <2>2. CASE ~b.leaf
    <3>1. lkids = SubSeq(b.kids, 1, p + 1) \o SubSeq(SubSeq(b.kids, p + 1, n + 1), 2, k + 1)
      BY <1>0, <1>2, <2>2
    <3>2. SubSeq(SubSeq(b.kids, p + 1, n + 1), 2, k + 1)
            = SubSeq(b.kids, (p + 1) + 2 - 1, (p + 1) + (k + 1) - 1)
      <4>1. /\ 1 =< p + 1 /\ p + 1 =< (n + 1) + 1 /\ n + 1 =< Len(b.kids) /\ 1 =< 2 /\ 2 =< (k + 1) + 1
            /\ k + 1 =< (n + 1) - (p + 1) + 1 /\ p + 1 \in Nat /\ n + 1 \in Nat /\ k + 1 \in Nat
        BY <1>1, <2>2
      <4> HIDE DEF n
      <4> QED BY <1>1, <4>1, PartOfPart
    <3>3. (p + 1) + 2 - 1 = (p + 1) + 1 /\ (p + 1) + (k + 1) - 1 = q + 1
      BY <1>1
    <3>4. SubSeq(b.kids, 1, p + 1) \o SubSeq(b.kids, (p + 1) + 1, q + 1) = SubSeq(b.kids, 1, q + 1)
      <4>1. PICK i, j : i = p + 1 /\ j = q + 1
        OBVIOUS
      <4>2. i \in Nat /\ j \in Nat /\ 1 =< i + 1 /\ i =< j /\ j =< Len(b.kids) /\ 1 \in Nat /\ 1 =< 1
        BY <1>1, <2>2, <4>1
      <4>3. b.kids \in Seq(Int)
        BY <1>1
      <4>4. SubSeq(b.kids, 1, i) \o SubSeq(b.kids, i + 1, j) = SubSeq(b.kids, 1, j)
        BY ONLY <4>2, <4>3, PartsJoin
      <4> HIDE DEF n, q
      <4> QED BY ONLY <4>1, <4>4
    <3>5. SubSeq(b.kids, 1, q + 1) \in Seq(Int)
      BY <1>1, <2>2, PartType
    <3> HIDE DEF q
    <3> QED BY <2>2, <3>1, <3>2, <3>3, <3>4, <3>5
  <2> QED BY <1>1, <2>1, <2>2
<1>10. /\ rkids = (IF b.leaf THEN <<>>
                   ELSE IF q = n THEN b.last ELSE SubSeq(b.kids, q + 1, n + 1))
       /\ rkids \in Seq(Int)
  <2>1. CASE b.leaf
    BY <1>2, <2>1 DEF IsRight, NodeType
  <2>2. CASE ~b.leaf
    <3>1. rkids = SubSeq(SubSeq(b.kids, p + 1, n + 1), k + 1, (n - p) + 1)
      BY <1>0, <1>2, <1>3, <2>2
    <3>2. SubSeq(SubSeq(b.kids, p + 1, n + 1), k + 1, (n - p) + 1)
            = SubSeq(b.kids, (p + 1) + (k + 1) - 1, (p + 1) + ((n - p) + 1) - 1)
      <4>1. /\ 1 =< p + 1 /\ p + 1 =< (n + 1) + 1 /\ n + 1 =< Len(b.kids) /\ 1 =< k + 1
            /\ k + 1 =< ((n - p) + 1) + 1 /\ (n - p) + 1 =< (n + 1) - (p + 1) + 1
            /\ p + 1 \in Nat /\ n + 1 \in Nat /\ k + 1 \in Nat /\ (n - p) + 1 \in Nat
        BY <1>1, <2>2, SMTT(30)
      <4> HIDE DEF n
      <4> QED BY <1>1, <4>1, PartOfPart
    <3>3. (p + 1) + (k + 1) - 1 = q + 1 /\ (p + 1) + ((n - p) + 1) - 1 = n + 1
      <4>1. n \in Nat
        BY <1>1
      <4> HIDE DEF n
      <4> QED BY <4>1
    <3>4. SubSeq(b.kids, q + 1, n + 1) \in Seq(Int)
      BY <1>1, <2>2, PartType
    <3>5. rkids = SubSeq(b.kids, q + 1, n + 1) /\ rkids \in Seq(Int)
      BY <3>1, <3>2, <3>3, <3>4
    <3>6. q = n => b.last = SubSeq(b.kids, q + 1, n + 1)
      BY <2>2 DEF Alike
    <3> HIDE DEF q, n, rkids
    <3> QED BY <2>2, <3>5, <3>6
  <2> QED BY <1>1, <2>1, <2>2
<1> HIDE DEF q, moved, bytes, lkids, rkids
<1>11. IsLeft(ml, b, q)
  <2>1. l.end = b.tot - Over(b, p) /\ l.page = b.lpage /\ l.ovh = b.lovh
    BY DEF IsLeft
  <2>2. l.end + bytes = b.tot - Over(b, q) /\ l.end + bytes \in Int
    BY <1>1, <1>6, <2>1, SMTT(30)
  <2>3. /\ ml \in NodeType /\ ml.ents = l.ents \o moved /\ ml.kids = lkids
        /\ ml.end = l.end + bytes /\ ml.page = l.page /\ ml.leaf = l.leaf /\ ml.ovh = l.ovh
    <3> DEFINE e == l.ents \o moved
               x == l.end + bytes
    <3>1. e \in Seq(Ent) /\ x \in Int /\ lkids \in Seq(Int) /\ l \in NodeType
      BY <1>2, <1>7, <1>9, <2>2
    <3>2. ml = [l EXCEPT !.ents = e, !.kids = lkids, !.end = x]
      OBVIOUS
    <3> HIDE DEF e, x, ml
    <3>3. /\ ml \in NodeType /\ ml.ents = e /\ ml.kids = lkids /\ ml.end = x
          /\ ml.page = l.page /\ ml.leaf = l.leaf /\ ml.ovh = l.ovh
      BY <3>1, <3>2 DEF NodeType
    <3> QED BY <3>3 DEF e, x
  <2> QED BY <1>2, <1>7, <1>9, <2>1, <2>2, <2>3 DEF IsLeft
<1>12. IsRight(mr, b, q)
  <2>1. r.end = b.base + Over(b, p) /\ r.page = b.rpage /\ r.leaf = b.leaf /\ r.ovh = b.rovh
    BY DEF IsRight
  <2>2. r.end - bytes = b.base + Over(b, q) /\ r.end - bytes \in Int
    BY <1>1, <1>6, <2>1
  <2>3. /\ mr \in NodeType /\ mr.ents = SubSeq(r.ents, k + 1, Count(r)) /\ mr.kids = rkids
        /\ mr.end = r.end - bytes /\ mr.page = r.page /\ mr.leaf = r.leaf /\ mr.ovh = r.ovh
    <3> DEFINE e == SubSeq(r.ents, k + 1, Count(r))
               x == r.end - bytes
    <3>1. e \in Seq(Ent) /\ x \in Int /\ rkids \in Seq(Int) /\ r \in NodeType
      BY <1>2, <1>8, <1>10, <2>2
    <3>2. mr = [r EXCEPT !.ents = e, !.kids = rkids, !.end = x]
      OBVIOUS
    <3> HIDE DEF e, x, mr
    <3>3. /\ mr \in NodeType /\ mr.ents = e /\ mr.kids = rkids /\ mr.end = x
          /\ mr.page = r.page /\ mr.leaf = r.leaf /\ mr.ovh = r.ovh
      BY <3>1, <3>2 DEF NodeType
    <3> QED BY <3>3 DEF e, x
  <2> QED BY <1>2, <1>8, <1>10, <2>1, <2>2, <2>3 DEF IsRight
<1> QED BY <1>4, <1>11, <1>12 DEF IsPair, q

(* How far a loop goes whose test holds in the rounds of G. *)
LEMMA RoundsAre ==
    ASSUME NEW n \in Nat, NEW G
    PROVE  LET r == Max({k \in 0 .. n : \A j \in 0 .. k - 1 : j \in G})
           IN  r \in 0 .. n /\ (\A j \in 0 .. r - 1 : j \in G) /\ (r < n => r \notin G)
<1> DEFINE S == {k \in 0 .. n : \A j \in 0 .. k - 1 : j \in G}
           D == {n - k : k \in S}
<1>1. 0 \in S
  OBVIOUS
<1>2. D \in SUBSET Nat /\ D # {}
  BY <1>1
<1>3. PICK d \in D : \A m \in D : d =< m
  BY <1>2, LeastNumber
<1>4. PICK r \in S : d = n - r
  BY <1>3
<1>5. \A k \in S : r >= k
  <2>1. \A k \in S : n - r =< n - k /\ k \in 0 .. n
    BY <1>3, <1>4
  <2> QED BY <1>4, <2>1
<1>6. Max(S) \in S /\ \A k \in S : Max(S) >= k
  BY <1>5 DEF Max
<1> DEFINE x == Max(S)
<1>7. x \in 0 .. n /\ \A j \in 0 .. x - 1 : j \in G
  BY <1>6
<1>8. x < n => x \notin G
  <2> SUFFICES ASSUME x < n, x \in G PROVE FALSE
    OBVIOUS
  <2>1. x + 1 \in 0 .. n /\ \A j \in 0 .. (x + 1) - 1 : j \in 0 .. x - 1 \/ j = x
    BY <1>7, SMTT(30)
  <2>2. x + 1 \in S
    <3> HIDE DEF x
    <3> QED BY <1>7, <2>1
  <2>3. x >= x + 1
    BY <1>6, <2>2
  <2> QED BY <1>7, <2>3
<1> QED BY <1>7, <1>8

-----------------------------------------------------------------------------
(* _redistrib() and _split(): what they leave on either side. *)

LEMMA OverStep ==
    ASSUME NEW b \in Neighbours
    PROVE  /\ Over(b, Len(b.ents)) = 0
           /\ \A p \in 1 .. Len(b.ents) :
                /\ b.ents[p] \in Ent
                /\ Over(b, p - 1) = Over(b, p) + b.ents[p].size + b.rovh
           /\ \A p, q \in 0 .. Len(b.ents) :
                p =< q => Over(b, q) \in Nat /\ Over(b, p) \in Nat /\ Over(b, q) =< Over(b, p)
<1>1. b.ents \in Seq(Ent) /\ Len(b.ents) \in Nat /\ b.rovh \in Nat
  BY LenProperties DEF Neighbours
<1>2. Over(b, Len(b.ents)) = 0
  <2> DEFINE n == Len(b.ents)
  <2>1. SubSeq(b.ents, n + 1, n) = <<>>
    BY <1>1, SubSeqEmpty
  <2>2. Over(b, n) = Bytes(SubSeq(b.ents, n + 1, n)) + (n - n) * b.rovh
    BY DEF Over
  <2>3. (n - n) * b.rovh = 0
    <3>1. n - n = 0
      BY <1>1
    <3>2. 0 * b.rovh = 0
      BY <1>1
    <3> QED BY <3>1, <3>2
  <2>4. Bytes(SubSeq(b.ents, n + 1, n)) = 0
    BY <2>1, BytesAdd
  <2> HIDE DEF n
  <2>5. Over(b, n) = 0
    BY <2>2, <2>3, <2>4
  <2> QED BY <2>5 DEF n
<1>3. ASSUME NEW p \in 1 .. Len(b.ents)
      PROVE  b.ents[p] \in Ent /\ Over(b, p - 1) = Over(b, p) + b.ents[p].size + b.rovh
  <2> DEFINE q == p - 1
  <2>1. q \in Nat /\ p \in Nat /\ q =< p /\ p =< Len(b.ents) /\ q + 1 = p /\ p - q = 1
    BY <1>1
  <2>2. b.ents[p] \in Ent
    BY <1>1, ElementOfSeq
  <2>3. SubSeq(b.ents, p, p) = <<b.ents[p]>>
    <3>1. Len(SubSeq(b.ents, p, p)) = 1 /\ SubSeq(b.ents, p, p) \in Seq(Ent)
          /\ SubSeq(b.ents, p, p)[1] = b.ents[p]
      <4>1. Len(SubSeq(b.ents, p, p)) = p - p + 1 /\ SubSeq(b.ents, p, p) \in Seq(Ent)
            /\ \A i \in 1 .. p - p + 1 : SubSeq(b.ents, p, p)[i] = b.ents[p + i - 1]
        <5>1. 1 =< p /\ p =< Len(b.ents) /\ p =< p + 1 /\ p \in Nat
          BY <2>1
        <5> QED BY <1>1, <5>1, PartType
      <4>2. p - p + 1 = 1 /\ p + 1 - 1 = p
        OBVIOUS
      <4> QED BY <4>1, <4>2
    <3> DEFINE t == SubSeq(b.ents, p, p)
               u == <<b.ents[p]>>
    <3>2. u \in Seq(Ent) /\ Len(u) = 1 /\ u[1] = b.ents[p]
      BY <2>2
    <3>3. t \in Seq(Ent) /\ Len(t) = 1 /\ t[1] = b.ents[p]
      BY <3>1
    <3> HIDE DEF t, u
    <3>4. \A i \in 1 .. Len(t) : t[i] = u[i]
      BY <3>2, <3>3
    <3>5. t = u
      BY <3>2, <3>3, <3>4, SeqEqual
    <3> QED BY <3>5 DEF t, u
  <2> HIDE DEF q
  <2>4. Over(b, q) = Over(b, p) + Bytes(SubSeq(b.ents, q + 1, p)) + (p - q) * b.rovh
        /\ Over(b, p) \in Nat
    BY <2>1, OverAdd
  <2>5. Bytes(SubSeq(b.ents, q + 1, p)) = b.ents[p].size /\ (p - q) * b.rovh = b.rovh
    <3>1. Bytes(SubSeq(b.ents, q + 1, p)) = b.ents[p].size
      BY <2>1, <2>2, <2>3, BytesAdd
    <3>2. 1 * b.rovh = b.rovh
      BY <1>1
    <3> QED BY <2>1, <3>1, <3>2
  <2>6. Over(b, q) = Over(b, p) + b.ents[p].size + b.rovh
    BY <2>4, <2>5
  <2> QED BY <2>2, <2>6 DEF q
<1>4. ASSUME NEW p \in 0 .. Len(b.ents), NEW q \in 0 .. Len(b.ents), p =< q
      PROVE  Over(b, q) \in Nat /\ Over(b, p) \in Nat /\ Over(b, q) =< Over(b, p)
  <2>1. p \in Nat /\ q \in Nat /\ q =< Len(b.ents)
    BY <1>1
  <2> QED BY <1>4, <2>1, OverAdd
<1> QED BY <1>2, <1>3, <1>4

(* The neighbours' entries, and what is last in the left one and first in the right. *)
LEMMA PairEnds ==
    ASSUME NEW b \in Neighbours, NEW m, NEW p \in 0 .. Len(b.ents), IsPair(m, b, p)
    PROVE  /\ Len(m.left.ents) = p /\ Len(m.right.ents) = Len(b.ents) - p
           /\ \A i \in 1 .. p : m.left.ents[i] = b.ents[i]
           /\ \A i \in 1 .. Len(b.ents) - p : m.right.ents[i] = b.ents[p + i]
           /\ p > 0 => Last(m.left.ents) = b.ents[p]
           /\ p < Len(b.ents) => Head(m.right.ents) = b.ents[p + 1]
<1> DEFINE n == Len(b.ents)
           s == m.left.ents
           t == m.right.ents
<1>1. b.ents \in Seq(Ent) /\ n \in Nat /\ p \in Nat /\ p =< n
  BY LenProperties DEF Neighbours
<1>2. s = SubSeq(b.ents, 1, p) /\ t = SubSeq(b.ents, p + 1, n)
  BY DEF IsPair, IsLeft, IsRight
<1>3. Len(s) = p /\ \A i \in 1 .. p : s[i] = b.ents[i]
  <2>1. Len(SubSeq(b.ents, 1, p)) = p - 1 + 1
        /\ \A i \in 1 .. p - 1 + 1 : SubSeq(b.ents, 1, p)[i] = b.ents[1 + i - 1]
    <3>1. 1 \in Nat /\ 1 =< 1 /\ p =< Len(b.ents) /\ 1 =< p + 1
      BY <1>1
    <3> QED BY <1>1, <3>1, PartType
  <2> QED BY <1>1, <1>2, <2>1
<1>4. Len(t) = n - p /\ \A i \in 1 .. n - p : t[i] = b.ents[p + i]
  <2>1. Len(SubSeq(b.ents, p + 1, n)) = n - (p + 1) + 1
        /\ \A i \in 1 .. n - (p + 1) + 1 : SubSeq(b.ents, p + 1, n)[i] = b.ents[(p + 1) + i - 1]
    <3>1. p + 1 \in Nat /\ 1 =< p + 1 /\ n =< Len(b.ents) /\ p + 1 =< n + 1
      BY <1>1
    <3> HIDE DEF n
    <3> QED BY <1>1, <3>1, PartType
  <2>2. n - (p + 1) + 1 = n - p /\ \A i \in 1 .. n - p : (p + 1) + i - 1 = p + i
    <3>1. n \in Nat
      BY <1>1
    <3> HIDE DEF n
    <3> QED BY <3>1
  <2> HIDE DEF n
  <2> QED BY <1>2, <2>1, <2>2
<1>5. p > 0 => Last(s) = b.ents[p]
  BY <1>1, <1>3 DEF Last
<1>6. p < n => Head(t) = b.ents[p + 1]
  <2>1. p < n => 1 \in 1 .. n - p
    BY <1>1
  <2> QED BY <1>4, <2>1 DEF Head
<1> QED BY <1>3, <1>4, <1>5, <1>6

LEMMA EvensRightIs ==
    ASSUME NEW b \in Neighbours, Alike(b), b.tot = b.base + Over(b, 0), PgSize \in Nat,
           NEW m, NEW p \in 1 .. Len(b.ents), IsPair(m, b, p), EvensRight(m)
    PROVE  /\ b.base + Over(b, p - 1) =< PgSize
           /\ Over(b, 0) - Over(b, p - 1) >= Over(b, p - 1)
<1>1. Len(b.ents) \in Nat /\ b.base \in Nat /\ b.rovh \in Nat
  BY LenProperties DEF Neighbours
<1>2. Last(m.left.ents) = b.ents[p]
  <2>1. p \in 0 .. Len(b.ents) /\ p > 0
    BY <1>1
  <2> QED BY <2>1, PairEnds
<1>3. /\ m.left.ovh = b.rovh /\ m.left.end = b.tot - Over(b, p) /\ m.right.end = b.base + Over(b, p)
  BY DEF IsPair, IsLeft, IsRight, Alike
<1>4. /\ b.ents[p].size \in Nat /\ Over(b, p - 1) = Over(b, p) + b.ents[p].size + b.rovh
      /\ Over(b, p) \in Nat /\ Over(b, p - 1) \in Nat /\ Over(b, 0) \in Nat
  <2>1. p \in 0 .. Len(b.ents) /\ 0 \in 0 .. Len(b.ents) /\ p - 1 \in 0 .. Len(b.ents) /\ 0 =< p
        /\ p - 1 =< p
    BY <1>1
  <2> QED BY <2>1, OverStep DEF Ent
<1>5. /\ m.right.end + (m.left.ovh + b.ents[p].size) =< PgSize
      /\ m.left.end - (m.left.ovh + b.ents[p].size) >= m.right.end + (m.left.ovh + b.ents[p].size)
  BY <1>2 DEF EvensRight, Evens
<1> DEFINE x == b.ents[p].size
           y == Over(b, p - 1)
           w == Over(b, p)
           v == Over(b, 0)
<1>6. /\ x \in Nat /\ y = w + x + b.rovh /\ w \in Nat /\ y \in Nat /\ v \in Nat /\ b.tot = b.base + v
      /\ m.left.end = b.tot - w /\ m.right.end = b.base + w
      /\ m.right.end + (m.left.ovh + x) =< PgSize
      /\ m.left.end - (m.left.ovh + x) >= m.right.end + (m.left.ovh + x)
  BY <1>3, <1>4, <1>5
<1> HIDE DEF x, y, w, v
<1>7. b.base + y =< PgSize /\ v - y >= y
  <2> DEFINE o == b.rovh
             e == b.base
  <2>1. o \in Nat /\ e \in Nat /\ m.left.end = e + v - w /\ m.right.end = e + w /\ y = w + x + o
        /\ m.left.ovh = o
    BY <1>1, <1>3, <1>6
  <2>2. (e + w) + (o + x) =< PgSize /\ (e + v - w) - (o + x) >= (e + w) + (o + x)
    BY <1>6, <2>1
  <2> HIDE DEF o, e
  <2>3. e + y =< PgSize /\ v - y >= y
    BY <1>6, <2>1, <2>2, SMTT(30)
  <2> QED BY <2>3 DEF e
<1> QED BY <1>7 DEF v, y

LEMMA EvensLeftIs ==
    ASSUME NEW b \in Neighbours, Alike(b), b.tot = b.base + Over(b, 0), PgSize \in Nat,
           NEW m, NEW p \in 0 .. Len(b.ents), p < Len(b.ents), IsPair(m, b, p), EvensLeft(m)
    PROVE  /\ b.base + Over(b, 0) - Over(b, p + 1) =< PgSize
           /\ Over(b, p + 1) >= Over(b, 0) - Over(b, p + 1)
<1> DEFINE q == p + 1
<1>1. Len(b.ents) \in Nat /\ b.base \in Nat /\ b.rovh \in Nat /\ q \in 1 .. Len(b.ents) /\ q - 1 = p
  BY LenProperties DEF Neighbours
<1>2. Head(m.right.ents) = b.ents[q]
  BY PairEnds
<1>3. /\ m.right.ovh = b.rovh /\ m.left.end = b.tot - Over(b, p) /\ m.right.end = b.base + Over(b, p)
  BY DEF IsPair, IsLeft, IsRight, Alike
<1> HIDE DEF q
<1>4. /\ b.ents[q].size \in Nat /\ Over(b, p) = Over(b, q) + b.ents[q].size + b.rovh
      /\ Over(b, p) \in Nat /\ Over(b, q) \in Nat /\ Over(b, 0) \in Nat
  <2>1. p \in 0 .. Len(b.ents) /\ 0 \in 0 .. Len(b.ents) /\ q \in 0 .. Len(b.ents) /\ 0 =< p
        /\ p =< q
    BY <1>1
  <2>2. b.ents[q] \in Ent /\ Over(b, q - 1) = Over(b, q) + b.ents[q].size + b.rovh
    BY <1>1, OverStep
  <2> QED BY <1>1, <2>1, <2>2, OverStep DEF Ent
<1>5. /\ m.left.end + (m.right.ovh + b.ents[q].size) =< PgSize
      /\ m.right.end - (m.right.ovh + b.ents[q].size) >= m.left.end + (m.right.ovh + b.ents[q].size)
  BY <1>2 DEF EvensLeft, Evens
<1> DEFINE x == b.ents[q].size
           y == Over(b, q)
           w == Over(b, p)
           v == Over(b, 0)
<1>6. /\ x \in Nat /\ w = y + x + b.rovh /\ w \in Nat /\ y \in Nat /\ v \in Nat /\ b.tot = b.base + v
      /\ m.left.end = b.tot - w /\ m.right.end = b.base + w
      /\ m.left.end + (m.right.ovh + x) =< PgSize
      /\ m.right.end - (m.right.ovh + x) >= m.left.end + (m.right.ovh + x)
  BY <1>3, <1>4, <1>5
<1> HIDE DEF x, y, w, v
<1>7. b.base + v - y =< PgSize /\ y >= v - y
  <2> DEFINE o == b.rovh
             e == b.base
  <2>1. o \in Nat /\ e \in Nat /\ m.left.end = e + v - w /\ m.right.end = e + w /\ w = y + x + o
        /\ m.right.ovh = o
    BY <1>1, <1>3, <1>6
  <2>2. (e + v - w) + (o + x) =< PgSize /\ (e + w) - (o + x) >= (e + v - w) + (o + x)
    BY <1>6, <2>1
  <2> HIDE DEF o, e
  <2>3. e + v - y =< PgSize /\ y >= v - y
    BY <1>6, <2>1, <2>2, SMTT(30)
  <2> QED BY <2>3 DEF e
<1> QED BY <1>7 DEF q, v, y

LEMMA RedistribRightIs ==
    ASSUME NEW b \in Neighbours, Alike(b), b.tot = b.base + Over(b, 0), PgSize \in Nat,
           NEW p \in 0 .. Len(b.ents), NEW l, NEW r, IsLeft(l, b, p), IsRight(r, b, p)
    PROVE  LET m == RedistribRight(l, r)
           IN  \E k \in 0 .. p :
                  /\ IsPair(m, b, p - k) /\ m.moved = k
                  /\ k > 0 => /\ b.base + Over(b, p - k) =< PgSize
                              /\ Over(b, 0) - Over(b, p - k) >= Over(b, p - k)
<1>1. Len(b.ents) \in Nat /\ p \in Nat /\ p =< Len(b.ents)
  BY LenProperties DEF Neighbours
<1>2. Count(l) = p
  <2> DEFINE m == [left |-> l, right |-> r]
  <2>1. IsPair(m, b, p) /\ m.left = l
    BY DEF IsPair
  <2> HIDE DEF m
  <2> QED BY <2>1, PairEnds DEF Count
<1> DEFINE G == {j \in 0 .. p : EvensRight(Moveright(l, r, j))}
           S == {k \in 0 .. p : \A j \in 0 .. k - 1 : EvensRight(Moveright(l, r, j))}
           SG == {k \in 0 .. p : \A j \in 0 .. k - 1 : j \in G}
           k == Max(SG)
<1>3. S = SG
  <2>1. \A x \in 0 .. p : \A j \in 0 .. x - 1 : j \in 0 .. p
    BY <1>1
  <2> QED BY <2>1
<1>4. RedistribRight(l, r) = Moveright(l, r, k)
  <2>1. RedistribRight(l, r) = Moveright(l, r, Max(S))
    BY <1>2 DEF RedistribRight, Rounds
  <2> QED BY <1>3, <2>1
<1>5. k \in 0 .. p /\ \A j \in 0 .. k - 1 : j \in G
  <2> HIDE DEF G
  <2> QED BY <1>1, RoundsAre, ZenonT(60)
<1> HIDE DEF k, SG, S
<1>6. ASSUME NEW j \in 0 .. p PROVE IsPair(Moveright(l, r, j), b, p - j) /\ Moveright(l, r, j).moved = j
  <2>1. j \in Nat /\ j =< p
    BY <1>1
  <2> QED BY <1>1, <2>1, MoverightIs
<1>7. ASSUME k > 0
      PROVE  /\ b.base + Over(b, p - k) =< PgSize
             /\ Over(b, 0) - Over(b, p - k) >= Over(b, p - k)
  <2> DEFINE j == k - 1
             q == p - j
             m == Moveright(l, r, j)
  <2>1. j \in 0 .. k - 1 /\ j \in 0 .. p /\ q \in 1 .. Len(b.ents) /\ q - 1 = p - k
    BY <1>1, <1>5, <1>7
  <2>2. EvensRight(m) /\ IsPair(m, b, q)
    BY <1>5, <1>6, <2>1
  <2> HIDE DEF q, m
  <2>3. /\ b.base + Over(b, q - 1) =< PgSize
        /\ Over(b, 0) - Over(b, q - 1) >= Over(b, q - 1)
    BY <2>1, <2>2, EvensRightIs
  <2> QED BY <2>1, <2>3
<1> QED BY <1>4, <1>5, <1>6, <1>7

LEMMA RedistribLeftIs ==
    ASSUME NEW b \in Neighbours, Alike(b), b.tot = b.base + Over(b, 0), PgSize \in Nat,
           NEW p \in 0 .. Len(b.ents), NEW a, IsPair(a, b, p)
    PROVE  LET m == RedistribLeft(a)
           IN  \E k \in 0 .. Len(b.ents) - p :
                  /\ IsPair(m, b, p + k) /\ m.moved = a.moved - k
                  /\ k > 0 => /\ b.base + Over(b, 0) - Over(b, p + k) =< PgSize
                              /\ Over(b, p + k) >= Over(b, 0) - Over(b, p + k)
<1> DEFINE n == Len(b.ents)
           l == a.left
           r == a.right
<1>1. n \in Nat /\ p \in Nat /\ p =< n /\ n - p \in Nat
  BY LenProperties DEF Neighbours
<1>2. Count(r) = n - p /\ IsLeft(l, b, p) /\ IsRight(r, b, p)
  BY PairEnds DEF Count, IsPair
<1> DEFINE G == {j \in 0 .. n - p : EvensLeft(Moveleft(l, r, j))}
           S == {k \in 0 .. n - p : \A j \in 0 .. k - 1 : EvensLeft(Moveleft(l, r, j))}
           SG == {k \in 0 .. n - p : \A j \in 0 .. k - 1 : j \in G}
           k == Max(SG)
           m == RedistribLeft(a)
<1>3. S = SG
  <2> DEFINE c == n - p
  <2>1. c \in Nat
    BY <1>1
  <2>2. \A x \in 0 .. c : \A j \in 0 .. x - 1 : j \in 0 .. c
    <3> HIDE DEF c
    <3> QED BY <2>1
  <2> QED BY <2>2
<1>4. m.left = Moveleft(l, r, k).left /\ m.right = Moveleft(l, r, k).right
      /\ m.moved = a.moved - Moveleft(l, r, k).moved
  <2>1. m = [Moveleft(l, r, Max(S)) EXCEPT !.moved = a.moved - @]
    BY <1>2 DEF RedistribLeft, Rounds
  <2>2. m = [Moveleft(l, r, k) EXCEPT !.moved = a.moved - @]
    BY <1>3, <2>1
  <2> HIDE DEF k, m, l, r
  <2> QED BY <2>2 DEF Moveleft
<1>5. k \in 0 .. n - p /\ \A j \in 0 .. k - 1 : j \in G
  <2> DEFINE c == n - p
  <2> HIDE DEF G
  <2>1. c \in Nat
    BY <1>1
  <2> HIDE DEF c
  <2>2. LET x == Max({i \in 0 .. c : \A j \in 0 .. i - 1 : j \in G})
        IN  x \in 0 .. c /\ \A j \in 0 .. x - 1 : j \in G
    BY <2>1, RoundsAre, ZenonT(60)
  <2> QED BY <2>2 DEF c
<1> HIDE DEF k, SG, S, m
<1>6. ASSUME NEW j \in 0 .. n - p PROVE IsPair(Moveleft(l, r, j), b, p + j) /\ Moveleft(l, r, j).moved = j
  <2>1. j \in Nat /\ p + j =< Len(b.ents)
    BY <1>1
  <2> QED BY <1>1, <1>2, <2>1, MoveleftIs
<1>7. ASSUME k > 0
      PROVE  /\ b.base + Over(b, 0) - Over(b, p + k) =< PgSize
             /\ Over(b, p + k) >= Over(b, 0) - Over(b, p + k)
  <2> DEFINE j == k - 1
             q == p + j
             w == Moveleft(l, r, j)
  <2>1. j \in 0 .. k - 1 /\ j \in 0 .. n - p /\ q \in 0 .. Len(b.ents) /\ q < Len(b.ents) /\ q + 1 = p + k
    BY <1>1, <1>5, <1>7
  <2>2. EvensLeft(w) /\ IsPair(w, b, q)
    BY <1>5, <1>6, <2>1
  <2> HIDE DEF q, w
  <2>3. /\ b.base + Over(b, 0) - Over(b, q + 1) =< PgSize
        /\ Over(b, q + 1) >= Over(b, 0) - Over(b, q + 1)
    BY <2>1, <2>2, EvensLeftIs
  <2> QED BY <2>1, <2>3
<1>8. IsPair(m, b, p + k) /\ m.moved = a.moved - k
  BY <1>4, <1>5, <1>6 DEF IsPair
<1> QED BY <1>5, <1>7, <1>8 DEF m

(* _redistrib() that moves something leaves entries on both sides; a side  *)
(* that fits a page without the entry next to the other fits it then.      *)
LEMMA RedistribIs ==
    ASSUME NEW b \in Neighbours, Alike(b), b.tot = b.base + Over(b, 0), PgSize \in Nat,
           NEW p \in 0 .. Len(b.ents), NEW l, NEW r, IsLeft(l, b, p), IsRight(r, b, p)
    PROVE  LET m == Redistrib(l, r)
               n == Len(b.ents)
           IN  \E q \in 0 .. n :
                  /\ IsPair(m, b, q)
                  /\ m.moved # 0 =>
                       /\ 0 < q /\ q < n
                       /\ (p > 0 => b.base + Over(b, 0) - Over(b, p - 1) =< PgSize)
                            => m.left.end =< PgSize
                       /\ (p < n => b.base + Over(b, p + 1) =< PgSize) => m.right.end =< PgSize
<1> DEFINE n == Len(b.ents)
           a == RedistribRight(l, r)
           m == Redistrib(l, r)
<1>1. n \in Nat /\ p \in Nat /\ p =< n /\ b.base \in Nat
  BY LenProperties DEF Neighbours
<1>2. PICK i \in 0 .. p :
         /\ IsPair(a, b, p - i) /\ a.moved = i
         /\ i > 0 => /\ b.base + Over(b, p - i) =< PgSize
                     /\ Over(b, 0) - Over(b, p - i) >= Over(b, p - i)
  BY RedistribRightIs
<1> DEFINE x == p - i
<1>3. x \in 0 .. n /\ x =< p
  BY <1>1, <1>2
<1>4. m = RedistribLeft(a)
  BY DEF Redistrib
<1> HIDE DEF m, a, x
<1>5. IsPair(a, b, x)
  BY <1>2 DEF x
<1>6. PICK j \in 0 .. n - x :
         /\ IsPair(m, b, x + j) /\ m.moved = a.moved - j
         /\ j > 0 => /\ b.base + Over(b, 0) - Over(b, x + j) =< PgSize
                     /\ Over(b, x + j) >= Over(b, 0) - Over(b, x + j)
  BY <1>3, <1>4, <1>5, RedistribLeftIs
<1> DEFINE q == x + j
<1>7. q \in 0 .. n /\ x =< q /\ (j = 0 => q = x) /\ (i = 0 => x = p) /\ (i > 0 => x =< p - 1)
      /\ (j > 0 => q > x)
  BY <1>1, <1>2, <1>3, <1>6 DEF x
<1> HIDE DEF q
<1>8. /\ IsPair(m, b, q) /\ m.left.end = b.base + Over(b, 0) - Over(b, q)
      /\ m.right.end = b.base + Over(b, q)
  <2>1. IsPair(m, b, q)
    BY <1>6 DEF q
  <2>2. m.left.end = b.tot - Over(b, q) /\ m.right.end = b.base + Over(b, q)
    BY <2>1 DEF IsPair, IsLeft, IsRight
  <2>3. b.tot = b.base + Over(b, 0) /\ Over(b, 0) \in Nat /\ Over(b, q) \in Nat
    <3>1. 0 \in 0 .. n /\ 0 =< q
      BY <1>1, <1>7
    <3> QED BY <1>7, <3>1, OverStep
  <2> QED BY <1>1, <2>1, <2>2, <2>3
<1> DEFINE O(h) == Over(b, h)
<1>9. /\ O(n) = 0 /\ \A h \in 0 .. n : O(h) \in Nat
      /\ \A h, g \in 0 .. n : h =< g => O(g) =< O(h)
      /\ \A h \in 1 .. n : O(h) < O(h - 1)
  <2>1. O(n) = 0
    BY OverStep
  <2>2. \A h, g \in 0 .. n : h =< g => O(g) \in Nat /\ O(h) \in Nat /\ O(g) =< O(h)
    BY OverStep
  <2>3. ASSUME NEW h \in 1 .. n PROVE O(h) < O(h - 1)
    <3>1. b.ents[h] \in Ent /\ O(h - 1) = O(h) + b.ents[h].size + b.rovh
      BY OverStep
    <3>2. b.ents[h].size \in Nat \ {0} /\ b.rovh \in Nat
      BY <3>1 DEF Ent, Neighbours
    <3>3. O(h) \in Nat
      BY <1>1, <2>2
    <3> HIDE DEF O
    <3> QED BY <3>1, <3>2, <3>3, SMTT(30)
  <2>4. \A h \in 0 .. n : h =< h
    BY <1>1
  <2> QED BY <2>1, <2>2, <2>3, <2>4
<1> HIDE DEF O, n
<1>10. ASSUME m.moved # 0
       PROVE  /\ 0 < q /\ q < n
              /\ (p > 0 => b.base + O(0) - O(p - 1) =< PgSize) => m.left.end =< PgSize
              /\ (p < n => b.base + O(p + 1) =< PgSize) => m.right.end =< PgSize
  <2>1. i > 0 \/ j > 0
    BY <1>2, <1>6, <1>10
  <2>2. /\ i > 0 => b.base + O(x) =< PgSize /\ O(0) - O(x) >= O(x)
        /\ j > 0 => b.base + O(0) - O(q) =< PgSize /\ O(q) >= O(0) - O(q)
        /\ m.left.end = b.base + O(0) - O(q) /\ m.right.end = b.base + O(q)
    BY <1>2, <1>6, <1>8 DEF O, q, x
  <2>3. O(0) \in Nat /\ O(x) \in Nat /\ O(q) \in Nat /\ O(q) =< O(x) /\ 0 \in 0 .. n
    BY <1>1, <1>3, <1>7, <1>9
  <2>4. CASE j > 0
    <3>1. q \in 1 .. n /\ O(q) < O(q - 1) /\ O(q - 1) =< O(0)
      <4>1. q \in 1 .. n /\ q - 1 \in 0 .. n /\ 0 =< q - 1
        BY <1>1, <1>3, <1>7, <2>4
      <4> QED BY <1>9, <2>3, <4>1
    <3>2. O(q) > 0
      <4>1. q - 1 \in 0 .. n
        BY <1>1, <3>1
      <4>2. O(q - 1) \in Nat
        BY <1>9, <4>1
      <4> QED BY <2>2, <2>3, <2>4, <3>1, <4>2
    <3>3. q # n
      BY <1>9, <3>2
    <3>4. m.left.end =< PgSize
      BY <2>2, <2>4
    <3>5. (p < n => b.base + O(p + 1) =< PgSize) => m.right.end =< PgSize
      <4>1. CASE i > 0
        BY <1>1, <2>2, <2>3, <4>1
      <4>2. CASE ~(i > 0)
        <5>1. q >= p + 1 /\ p + 1 \in 0 .. n /\ p < n
          BY <1>1, <1>2, <1>7, <2>4, <3>1, <4>2
        <5>2. O(q) =< O(p + 1) /\ O(p + 1) \in Nat
          BY <1>7, <1>9, <5>1
        <5> QED BY <1>1, <2>2, <2>3, <5>1, <5>2, SMTT(30)
      <4> QED BY <4>1, <4>2
    <3> QED BY <1>1, <1>7, <3>1, <3>3, <3>4, <3>5
  <2>5. CASE ~(j > 0)
    <3>1. i > 0 /\ q = x /\ x =< p - 1 /\ q < n /\ j = 0
      BY <1>1, <1>2, <1>6, <1>7, <2>1, <2>5
    <3>2. O(q) > 0
      <4>1. q + 1 \in 1 .. n /\ q + 1 \in 0 .. n /\ (q + 1) - 1 = q
        BY <1>1, <1>7, <3>1
      <4>2. O(q + 1) < O((q + 1) - 1) /\ O(q + 1) \in Nat
        BY <1>9, <4>1
      <4> QED BY <2>3, <4>1, <4>2
    <3>3. O(0) > O(q)
      BY <2>2, <2>3, <3>1, <3>2
    <3>4. q # 0
      BY <2>3, <3>3
    <3>5. m.right.end =< PgSize
      BY <2>2, <3>1
    <3>6. (p > 0 => b.base + O(0) - O(p - 1) =< PgSize) => m.left.end =< PgSize
      <4>1. p > 0 /\ p - 1 \in 0 .. n /\ q =< p - 1
        BY <1>1, <1>7, <3>1
      <4>2. O(p - 1) =< O(q) /\ O(p - 1) \in Nat
        BY <1>7, <1>9, <4>1
      <4> QED BY <1>1, <2>2, <2>3, <4>1, <4>2
    <3> QED BY <1>1, <1>7, <3>1, <3>4, <3>5, <3>6
  <2> QED BY <2>4, <2>5
<1> QED BY <1>7, <1>8, <1>10 DEF O, m, n

(* _split(): what goes to the new page is neither nothing nor all. *)
SplitRounds(l, r) ==
    LET Ok(j) == Splits(Moveright(l, r, j)) IN Moveright(l, r, Rounds(Count(l), Ok))

LEMMA SplitRoundsAre ==
    ASSUME NEW b \in Neighbours, b.tot =< b.base + Over(b, 0), b.tot > PgSize, PgSize \in Nat,
           b.base =< PgSize,
           \A i \in 1 .. Len(b.ents) : b.base + b.rovh + b.ents[i].size =< PgSize,
           NEW l, NEW r, IsLeft(l, b, Len(b.ents)), IsRight(r, b, Len(b.ents))
    PROVE  \E q \in 1 .. Len(b.ents) - 1 : IsPair(SplitRounds(l, r), b, q)
<1> DEFINE n == Len(b.ents)
<1>1. n \in Nat /\ b.base \in Nat /\ b.rovh \in Nat /\ Over(b, n) = 0 /\ Over(b, 0) \in Nat
  <2>1. Len(b.ents) \in Nat
    BY LenProperties DEF Neighbours
  <2>2. 0 \in 0 .. Len(b.ents) /\ 0 =< 0
    BY <2>1
  <2> QED BY <2>1, <2>2, OverStep DEF Neighbours
<1>2. Count(l) = n
  <2> DEFINE m == [left |-> l, right |-> r]
  <2>1. IsPair(m, b, n) /\ m.left = l
    BY DEF IsPair
  <2> HIDE DEF m
  <2> QED BY <1>1, <2>1, PairEnds DEF Count
<1>3. n >= 1
  <2> HIDE DEF n
  <2>1. b.tot \in Int
    BY DEF Neighbours
  <2> QED BY <1>1, <2>1 DEF n
<1> DEFINE G == {j \in 0 .. n : Splits(Moveright(l, r, j))}
           S == {k \in 0 .. n : \A j \in 0 .. k - 1 : Splits(Moveright(l, r, j))}
           SG == {k \in 0 .. n : \A j \in 0 .. k - 1 : j \in G}
           k == Max(SG)
<1>4. S = SG
  <2>1. \A x \in 0 .. n : \A j \in 0 .. x - 1 : j \in 0 .. n
    <3> HIDE DEF n
    <3> QED BY <1>1
  <2> QED BY <2>1
<1>5. SplitRounds(l, r) = Moveright(l, r, k)
  <2>1. SplitRounds(l, r) = Moveright(l, r, Max(S))
    BY <1>2 DEF SplitRounds, Rounds
  <2> QED BY <1>4, <2>1
<1>6. k \in 0 .. n /\ (\A j \in 0 .. k - 1 : j \in G) /\ (k < n => k \notin G)
  <2> HIDE DEF G, n
  <2> QED BY <1>1, RoundsAre
<1> HIDE DEF k, SG, S
<1>7. ASSUME NEW j \in 0 .. n PROVE IsPair(Moveright(l, r, j), b, n - j) /\ Moveright(l, r, j).moved = j
  <2> DEFINE p == n
  <2>1. j \in Nat /\ j =< p /\ p =< Len(b.ents) /\ p \in Nat /\ IsLeft(l, b, p) /\ IsRight(r, b, p)
    BY <1>1
  <2> HIDE DEF p
  <2>2. LET m == Moveright(l, r, j) IN IsPair(m, b, p - j) /\ m.moved = j
    BY <2>1, MoverightIs
  <2> QED BY <2>2 DEF p
<1>8. ASSUME NEW j \in 0 .. n - 1
      PROVE  LET m == Moveright(l, r, j)
             IN  /\ Last(m.left.ents) = b.ents[n - j] /\ b.ents[n - j].size \in Nat
                 /\ m.right.end = b.base + Over(b, n - j) /\ m.right.ovh = b.rovh /\ m.moved = j
                 /\ Over(b, (n - j) - 1) = Over(b, n - j) + b.ents[n - j].size + b.rovh
                 /\ Over(b, n - j) \in Nat
  <2> DEFINE m == Moveright(l, r, j)
             x == n - j
  <2>1. j \in 0 .. n /\ x \in 0 .. n /\ x > 0 /\ x \in 1 .. n /\ x =< x
    <3> HIDE DEF n
    <3> QED BY <1>1
  <2>2. IsPair(m, b, x) /\ m.moved = j
    BY <1>7, <2>1
  <2> HIDE DEF m, x
  <2>3. Last(m.left.ents) = b.ents[x]
    BY <2>1, <2>2, PairEnds
  <2>4. b.ents[x] \in Ent /\ Over(b, x - 1) = Over(b, x) + b.ents[x].size + b.rovh
        /\ Over(b, x) \in Nat
    BY <2>1, OverStep
  <2>5. m.right.end = b.base + Over(b, x) /\ m.right.ovh = b.rovh
    BY <2>2 DEF IsPair, IsRight
  <2> QED BY <2>2, <2>3, <2>4, <2>5 DEF m, x, Ent
<1>9. 0 \in G
  <2> DEFINE m == Moveright(l, r, 0)
  <2>1. /\ Last(m.left.ents).size = b.ents[n].size /\ b.ents[n].size \in Nat
        /\ m.right.end = b.base + 0 /\ m.right.ovh = b.rovh /\ m.moved = 0
    <3>1. 0 \in 0 .. n - 1 /\ n - 0 = n
      <4> HIDE DEF n
      <4> QED BY <1>1, <1>3
    <3> HIDE DEF n
    <3> QED BY <1>1, <1>8, <3>1, SMTT(30)
  <2>2. b.base + b.rovh + b.ents[n].size =< PgSize
    BY <1>1, <1>3
  <2> HIDE DEF m, n
  <2>3. Last(m.left.ents).size + m.right.end + m.right.ovh =< PgSize
    BY <1>1, <2>1, <2>2, SMTT(30)
  <2>4. ~(m.moved > 0)
    BY <2>1
  <2>5. Splits(m)
    BY <2>3, <2>4 DEF Splits
  <2> QED BY <1>1, <2>5 DEF m
<1>10. k # n
  <2> SUFFICES ASSUME k = n PROVE FALSE
    OBVIOUS
  <2> DEFINE j == n - 1
             m == Moveright(l, r, j)
  <2>1. j \in 0 .. k - 1 /\ j \in 0 .. n - 1 /\ n - j = 1 /\ (n - j) - 1 = 0
    <3> HIDE DEF n
    <3> QED BY <1>1, <1>3
  <2>2. Splits(m)
    BY <1>6, <2>1
  <2> HIDE DEF m, j, n
  <2>3. /\ Last(m.left.ents) = b.ents[1] /\ b.ents[1].size \in Nat
        /\ m.right.end = b.base + Over(b, 1) /\ m.right.ovh = b.rovh
        /\ Over(b, 0) = Over(b, 1) + b.ents[1].size + b.rovh /\ Over(b, 1) \in Nat
    BY <1>8, <2>1 DEF m
  <2> DEFINE y == Over(b, 1)
             x == b.ents[1].size
             w == Over(b, 0)
             o == b.rovh
             e == b.base
             t == b.tot
  <2>4. x + (e + y) + o =< PgSize /\ w = y + x + o /\ y \in Nat /\ x \in Nat /\ o \in Nat /\ e \in Nat
        /\ t =< e + w /\ t > PgSize /\ t \in Int
    BY <1>1, <2>2, <2>3 DEF Splits, Neighbours
  <2> HIDE DEF y, x, w, o, e, t
  <2> QED BY <2>4
<1>11. k \in 1 .. n - 1
  <2> HIDE DEF n, G
  <2>1. k # 0
    BY <1>1, <1>3, <1>6, <1>9
  <2> QED BY <1>1, <1>6, <1>10, <2>1
<1>12. n - k \in 1 .. n - 1 /\ k \in 0 .. n
  <2> HIDE DEF n
  <2> QED BY <1>1, <1>11
<1>13. IsPair(SplitRounds(l, r), b, n - k)
  BY <1>5, <1>7, <1>12
<1> QED BY <1>12, <1>13

(* _diffkey() finds a separator. *)
LEMMA DivMod ==
    ASSUME NEW a \in Nat, NEW w \in Nat \ {0}
    PROVE  a = w * (a \div w) + (a % w) /\ a % w \in 0 .. w - 1 /\ a \div w \in Nat
OBVIOUS

-----------------------------------------------------------------------------
(* Entries put in, taken out and changed. *)

LEMMA RemoveAtIs ==
    ASSUME NEW S, NEW s \in Seq(S), NEW i \in 1 .. Len(s)
    PROVE  /\ RemoveAt(s, i) \in Seq(S) /\ Len(RemoveAt(s, i)) = Len(s) - 1
           /\ \A j \in 1 .. Len(s) - 1 : RemoveAt(s, i)[j] = IF j < i THEN s[j] ELSE s[j + 1]
<1> DEFINE a == SubSeq(s, 1, i - 1)
           c == SubSeq(s, i + 1, Len(s))
           r == RemoveAt(s, i)
           n == Len(s)
<1>1. n \in Nat /\ i \in Nat /\ i - 1 \in Nat
  BY LenProperties
<1>2. a \in Seq(S) /\ Len(a) = i - 1 /\ \A j \in 1 .. i - 1 : a[j] = s[j]
  <2> DEFINE q == i - 1
  <2>1. q \in Nat /\ q =< Len(s) /\ 1 \in Nat /\ 1 =< 1 /\ 1 =< q + 1
    BY <1>1
  <2> HIDE DEF q
  <2>2. SubSeq(s, 1, q) \in Seq(S) /\ Len(SubSeq(s, 1, q)) = q - 1 + 1
        /\ \A j \in 1 .. q - 1 + 1 : SubSeq(s, 1, q)[j] = s[1 + j - 1]
    BY <2>1, PartType
  <2>3. q - 1 + 1 = q /\ \A j \in 1 .. q : 1 + j - 1 = j
    BY <2>1
  <2>4. SubSeq(s, 1, q) \in Seq(S) /\ Len(SubSeq(s, 1, q)) = q
        /\ \A j \in 1 .. q : SubSeq(s, 1, q)[j] = s[j]
    BY <2>2, <2>3
  <2> QED BY <2>4 DEF q
<1>3. c \in Seq(S) /\ Len(c) = n - i /\ \A j \in 1 .. n - i : c[j] = s[i + j]
  <2> DEFINE q == i + 1
  <2>1. q \in Nat /\ 1 =< q /\ n =< Len(s) /\ q =< n + 1
    BY <1>1
  <2>0. q = i + 1
    OBVIOUS
  <2> HIDE DEF q, n
  <2>2. SubSeq(s, q, n) \in Seq(S) /\ Len(SubSeq(s, q, n)) = n - q + 1
        /\ \A j \in 1 .. n - q + 1 : SubSeq(s, q, n)[j] = s[q + j - 1]
    BY <1>1, <2>1, PartType
  <2>3. n - q + 1 = n - i /\ \A j \in 1 .. n - i : q + j - 1 = i + j
    BY <1>1, <2>0, <2>1
  <2>4. SubSeq(s, q, n) \in Seq(S) /\ Len(SubSeq(s, q, n)) = n - i
        /\ \A j \in 1 .. n - i : SubSeq(s, q, n)[j] = s[i + j]
    BY <2>2, <2>3
  <2> QED BY <2>4 DEF q, n
<1>4. r = a \o c
  BY DEF RemoveAt
<1>0. i =< n
  BY <1>1
<1> HIDE DEF a, c, r
<1>5. r \in Seq(S) /\ Len(r) = Len(a) + Len(c)
      /\ \A j \in 1 .. Len(a) + Len(c) : r[j] = IF j =< Len(a) THEN a[j] ELSE c[j - Len(a)]
  BY <1>2, <1>3, <1>4, ConcatProperties
<1>6. Len(r) = n - 1
  <2> HIDE DEF n
  <2> QED BY <1>0, <1>1, <1>2, <1>3, <1>5
<1>7. ASSUME NEW j \in 1 .. n - 1 PROVE r[j] = IF j < i THEN s[j] ELSE s[j + 1]
  <2>0. n \in Nat
    BY <1>1
  <2> HIDE DEF n
  <2>1. j \in 1 .. Len(a) + Len(c)
    BY <1>0, <1>1, <1>2, <1>3
  <2>2. CASE j < i
    <3>1. j \in 1 .. i - 1 /\ j =< Len(a)
      BY <1>1, <1>2, <2>2
    <3> QED BY <1>2, <1>5, <2>1, <2>2, <3>1
  <2>3. CASE ~(j < i)
    <3>1. j - (i - 1) \in 1 .. n - i /\ ~(j =< Len(a)) /\ i + (j - (i - 1)) = j + 1
      BY <1>0, <1>1, <1>2, <2>3
    <3>2. r[j] = c[j - (i - 1)]
      BY <1>2, <1>5, <2>1, <3>1
    <3> QED BY <1>3, <2>3, <3>1, <3>2
  <2> QED BY <2>2, <2>3
<1> QED BY <1>5, <1>6, <1>7 DEF r

LEMMA InsertAtIs ==
    ASSUME NEW S, NEW s \in Seq(S), NEW i \in 1 .. Len(s) + 1, NEW e \in S
    PROVE  /\ InsertAt(s, i, e) \in Seq(S) /\ Len(InsertAt(s, i, e)) = Len(s) + 1
           /\ \A j \in 1 .. Len(s) + 1 :
                InsertAt(s, i, e)[j] = IF j < i THEN s[j] ELSE IF j = i THEN e ELSE s[j - 1]
<1> DEFINE a == SubSeq(s, 1, i - 1)
           c == SubSeq(s, i, Len(s))
           d == <<e>>
           b == a \o d
           r == InsertAt(s, i, e)
           n == Len(s)
<1>1. n \in Nat /\ i \in Nat /\ i - 1 \in Nat /\ i =< n + 1 /\ 1 =< i
  BY LenProperties
<1>2. a \in Seq(S) /\ Len(a) = i - 1 /\ \A j \in 1 .. i - 1 : a[j] = s[j]
  <2> DEFINE q == i - 1
  <2>1. q \in Nat /\ q =< Len(s) /\ 1 \in Nat /\ 1 =< 1 /\ 1 =< q + 1
    BY <1>1
  <2> HIDE DEF q
  <2>2. SubSeq(s, 1, q) \in Seq(S) /\ Len(SubSeq(s, 1, q)) = q - 1 + 1
        /\ \A j \in 1 .. q - 1 + 1 : SubSeq(s, 1, q)[j] = s[1 + j - 1]
    BY <2>1, PartType
  <2>3. q - 1 + 1 = q /\ \A j \in 1 .. q : 1 + j - 1 = j
    BY <2>1
  <2>4. SubSeq(s, 1, q) \in Seq(S) /\ Len(SubSeq(s, 1, q)) = q
        /\ \A j \in 1 .. q : SubSeq(s, 1, q)[j] = s[j]
    BY <2>2, <2>3
  <2> QED BY <2>4 DEF q
<1>3. c \in Seq(S) /\ Len(c) = n - i + 1 /\ \A j \in 1 .. n - i + 1 : c[j] = s[i + j - 1]
  <2>1. n =< Len(s)
    BY <1>1
  <2> HIDE DEF n
  <2>2. SubSeq(s, i, n) \in Seq(S) /\ Len(SubSeq(s, i, n)) = n - i + 1
        /\ \A j \in 1 .. n - i + 1 : SubSeq(s, i, n)[j] = s[i + j - 1]
    BY <1>1, <2>1, PartType
  <2> QED BY <2>2 DEF n
<1>4. d \in Seq(S) /\ Len(d) = 1 /\ d[1] = e
  OBVIOUS
<1>5. r = b \o c
  BY DEF InsertAt
<1> HIDE DEF a, c, d, r
<1>6. b \in Seq(S) /\ Len(b) = i
      /\ \A j \in 1 .. i : b[j] = IF j = i THEN e ELSE s[j]
  <2>1. b \in Seq(S) /\ Len(b) = Len(a) + Len(d)
        /\ \A j \in 1 .. Len(a) + Len(d) : b[j] = IF j =< Len(a) THEN a[j] ELSE d[j - Len(a)]
    BY <1>2, <1>4, ConcatProperties
  <2>2. Len(b) = i
    BY <1>1, <1>2, <1>4, <2>1
  <2>3. ASSUME NEW j \in 1 .. i PROVE b[j] = IF j = i THEN e ELSE s[j]
    <3> HIDE DEF b, n
    <3>1. j \in 1 .. Len(a) + Len(d)
      BY <1>1, <1>2, <1>4
    <3>2. CASE j = i
      <4>1. ~(j =< Len(a)) /\ j - Len(a) = 1
        BY <1>1, <1>2, <3>2
      <4> QED BY <1>4, <2>1, <3>1, <3>2, <4>1
    <3>3. CASE j # i
      <4>1. j =< Len(a) /\ j \in 1 .. i - 1
        BY <1>1, <1>2, <3>3
      <4> QED BY <1>2, <2>1, <3>1, <3>3, <4>1
    <3> QED BY <3>2, <3>3
  <2> QED BY <2>1, <2>2, <2>3
<1> HIDE DEF b
<1>7. r \in Seq(S) /\ Len(r) = Len(b) + Len(c)
      /\ \A j \in 1 .. Len(b) + Len(c) : r[j] = IF j =< Len(b) THEN b[j] ELSE c[j - Len(b)]
  BY <1>3, <1>5, <1>6, ConcatProperties
<1>8. Len(r) = n + 1
  <2> HIDE DEF n
  <2> QED BY <1>1, <1>3, <1>6, <1>7
<1>9. ASSUME NEW j \in 1 .. n + 1
      PROVE  r[j] = IF j < i THEN s[j] ELSE IF j = i THEN e ELSE s[j - 1]
  <2>0. n \in Nat
    BY <1>1
  <2> HIDE DEF n
  <2>1. j \in 1 .. Len(b) + Len(c)
    BY <1>1, <1>3, <1>6
  <2>2. CASE j =< i
    <3>1. j \in 1 .. i /\ j =< Len(b) /\ (j # i => j < i)
      BY <1>1, <1>6, <2>2
    <3> QED BY <1>1, <1>6, <1>7, <2>1, <3>1
  <2>3. CASE ~(j =< i)
    <3>1. j - i \in 1 .. n - i + 1 /\ ~(j =< Len(b)) /\ i + (j - i) - 1 = j - 1 /\ ~(j < i) /\ j # i
      BY <1>1, <1>6, <2>3
    <3>2. r[j] = c[j - i]
      BY <1>6, <1>7, <2>1, <3>1
    <3> QED BY <1>3, <3>1, <3>2
  <2> QED BY <2>2, <2>3
<1> QED BY <1>7, <1>8, <1>9 DEF r

LEMMA BytesInsert ==
    ASSUME NEW s \in Seq(Ent), NEW i \in 1 .. Len(s) + 1, NEW e \in Ent
    PROVE  Bytes(InsertAt(s, i, e)) = Bytes(s) + e.size
<1> DEFINE n == Len(s)
           q == i - 1
           a == SubSeq(s, 1, q)
           c == SubSeq(s, q + 1, n)
           d == <<e>>
<1>1. n \in Nat /\ i \in Nat /\ q \in Nat /\ q =< n /\ q + 1 = i /\ n =< Len(s)
  BY LenProperties
<1>2. InsertAt(s, i, e) = (a \o d) \o c
  BY <1>1 DEF InsertAt
<1>3. a \o c = s
  <2>1. 1 \in Nat /\ 1 =< 1 /\ 1 =< q + 1
    BY <1>1
  <2> HIDE DEF q, n
  <2>2. SubSeq(s, 1, q) \o SubSeq(s, q + 1, n) = SubSeq(s, 1, n)
    BY <1>1, <2>1, PartsJoin
  <2>3. SubSeq(s, 1, n) = s
    BY SubSeqFull DEF n
  <2> QED BY <2>2, <2>3
<1>4. a \in Seq(Ent) /\ c \in Seq(Ent) /\ d \in Seq(Ent) /\ a \o d \in Seq(Ent)
  <2>1. a \in Seq(Ent)
    <3>1. 1 \in Nat /\ 1 =< 1 /\ 1 =< q + 1 /\ q =< Len(s)
      BY <1>1
    <3> HIDE DEF q
    <3> QED BY <1>1, <3>1, PartType
  <2>2. c \in Seq(Ent)
    <3> DEFINE j == q + 1
    <3>1. j \in Nat /\ 1 =< j /\ j =< n + 1
      BY <1>1
    <3> HIDE DEF j, n
    <3>2. SubSeq(s, j, n) \in Seq(Ent)
      BY <1>1, <3>1, PartType
    <3> QED BY <3>2 DEF j
  <2> QED BY <2>1, <2>2
<1> HIDE DEF a, c, d, n, q
<1>5. Bytes((a \o d) \o c) = Bytes(a) + Bytes(d) + Bytes(c) /\ Bytes(s) = Bytes(a) + Bytes(c)
      /\ Bytes(a) \in Nat /\ Bytes(c) \in Nat /\ Bytes(d) = e.size /\ e.size \in Nat
  <2>1. Bytes(d) = e.size /\ e.size \in Nat
    BY BytesAdd DEF d, Ent
  <2>2. Bytes((a \o d) \o c) = Bytes(a \o d) + Bytes(c) /\ Bytes(a \o d) = Bytes(a) + Bytes(d)
    BY <1>4, BytesAdd
  <2>3. Bytes(s) = Bytes(a) + Bytes(c)
    BY <1>3, <1>4, BytesAdd
  <2> QED BY <1>4, <2>1, <2>2, <2>3, BytesAdd
<1> QED BY <1>2, <1>5

LEMMA BytesRemove ==
    ASSUME NEW s \in Seq(Ent), NEW i \in 1 .. Len(s)
    PROVE  Bytes(RemoveAt(s, i)) = Bytes(s) - s[i].size /\ Bytes(RemoveAt(s, i)) \in Nat
           /\ s[i] \in Ent
<1> DEFINE t == RemoveAt(s, i)
           u == InsertAt(t, i, s[i])
           n == Len(s)
<1>1. n \in Nat /\ i \in 1 .. n /\ s[i] \in Ent
  BY LenProperties, ElementOfSeq
<1>2. t \in Seq(Ent) /\ Len(t) = n - 1 /\ \A j \in 1 .. n - 1 : t[j] = IF j < i THEN s[j] ELSE s[j + 1]
  BY RemoveAtIs
<1> HIDE DEF t
<1>3. i \in 1 .. Len(t) + 1
  <2> HIDE DEF n
  <2> QED BY <1>1, <1>2
<1>4. u \in Seq(Ent) /\ Len(u) = Len(t) + 1
      /\ \A j \in 1 .. Len(t) + 1 : u[j] = IF j < i THEN t[j] ELSE IF j = i THEN s[i] ELSE t[j - 1]
  <2> DEFINE e == s[i]
  <2>1. e \in Ent
    BY <1>1
  <2> HIDE DEF e
  <2>2. LET w == InsertAt(t, i, e)
        IN  w \in Seq(Ent) /\ Len(w) = Len(t) + 1
            /\ \A j \in 1 .. Len(t) + 1 : w[j] = IF j < i THEN t[j] ELSE IF j = i THEN e ELSE t[j - 1]
    BY <1>2, <1>3, <2>1, InsertAtIs
  <2> QED BY <2>2 DEF e
<1>5. Bytes(u) = Bytes(t) + s[i].size
  BY <1>1, <1>2, <1>3, BytesInsert
<1> HIDE DEF u
<1>6. u = s
  <2>1. Len(u) = Len(s)
    <3> HIDE DEF n
    <3> QED BY <1>1, <1>2, <1>4 DEF n
  <2>2. ASSUME NEW j \in 1 .. Len(u) PROVE u[j] = s[j]
    <3>0. j \in 1 .. n /\ j \in 1 .. Len(t) + 1
      BY <1>4, <2>1
    <3> HIDE DEF n
    <3>1. CASE j < i
      <4>1. j \in 1 .. n - 1
        BY <1>1, <3>0, <3>1
      <4> QED BY <1>2, <1>4, <3>0, <3>1, <4>1
    <3>2. CASE j = i
      BY <1>1, <1>4, <3>0, <3>2
    <3>3. CASE j > i
      <4>1. j - 1 \in 1 .. n - 1 /\ ~(j < i) /\ j # i /\ ~(j - 1 < i) /\ (j - 1) + 1 = j
        BY <1>1, <3>0, <3>3
      <4> QED BY <1>2, <1>4, <3>0, <4>1
    <3> QED BY <1>1, <3>0, <3>1, <3>2, <3>3
  <2> QED BY <1>4, <2>1, <2>2, SeqEqual
<1>7. Bytes(t) \in Nat /\ s[i].size \in Nat
  BY <1>1, <1>2, BytesAdd DEF Ent
<1> QED BY <1>1, <1>5, <1>6, <1>7 DEF t

LEMMA BytesExcept ==
    ASSUME NEW s \in Seq(Ent), NEW i \in 1 .. Len(s), NEW e \in Ent
    PROVE  LET t == [s EXCEPT ![i] = e]
           IN  /\ t \in Seq(Ent) /\ Len(t) = Len(s) /\ t[i] = e
               /\ \A j \in 1 .. Len(s) : j # i => t[j] = s[j]
               /\ Bytes(t) = Bytes(s) + e.size - s[i].size
<1> DEFINE t == [s EXCEPT ![i] = e]
           a == RemoveAt(s, i)
           b == RemoveAt(t, i)
<1>0. Len(s) \in Nat
  BY LenProperties
<1>1. /\ t \in Seq(Ent) /\ Len(t) = Len(s)
      /\ \A j \in 1 .. Len(s) : t[j] = IF j = i THEN e ELSE s[j]
  BY ExceptSeq
<1> HIDE DEF t
<1>2. a = b
  <2>1. a \in Seq(Ent) /\ Len(a) = Len(s) - 1
        /\ \A j \in 1 .. Len(s) - 1 : a[j] = IF j < i THEN s[j] ELSE s[j + 1]
    BY RemoveAtIs
  <2>2. b \in Seq(Ent) /\ Len(b) = Len(t) - 1
        /\ \A j \in 1 .. Len(t) - 1 : b[j] = IF j < i THEN t[j] ELSE t[j + 1]
    <3>1. i \in 1 .. Len(t)
      BY <1>1
    <3> QED BY <1>1, <3>1, RemoveAtIs
  <2> HIDE DEF a, b
  <2>3. ASSUME NEW j \in 1 .. Len(a) PROVE a[j] = b[j]
    <3>1. j \in 1 .. Len(s) - 1 /\ j \in 1 .. Len(s) /\ j + 1 \in 1 .. Len(s)
      BY <1>0, <2>1
    <3>2. (j < i => t[j] = s[j]) /\ (~(j < i) => t[j + 1] = s[j + 1])
      BY <1>1, <3>1
    <3> QED BY <1>1, <2>1, <2>2, <3>1, <3>2
  <2>4. Len(a) = Len(b)
    BY <1>1, <2>1, <2>2
  <2> QED BY <2>1, <2>2, <2>3, <2>4, SeqEqual
<1>3. Bytes(a) = Bytes(s) - s[i].size /\ s[i] \in Ent
  BY BytesRemove
<1>4. Bytes(b) = Bytes(t) - t[i].size
  <2>1. i \in 1 .. Len(t)
    BY <1>1
  <2> QED BY <1>1, <2>1, BytesRemove
<1>5. t[i] = e
  BY <1>1
<1>6. Bytes(t) \in Nat /\ Bytes(s) \in Nat /\ e.size \in Nat /\ s[i].size \in Nat
  BY <1>1, <1>3, BytesAdd DEF Ent
<1>7. Bytes(t) = Bytes(s) + e.size - s[i].size
  <2>1. Bytes(t) - e.size = Bytes(s) - s[i].size
    BY <1>2, <1>3, <1>4, <1>5
  <2> QED BY <1>6, <2>1, SMTT(30)
<1> QED BY <1>1, <1>5, <1>7 DEF t

(* What addpage(), delpage(), modpage() and SetKid make of a node. *)
Same(m, nd) == m.page = nd.page /\ m.leaf = nd.leaf /\ m.ovh = nd.ovh
Grown(nd) == ~nd.leaf => Len(nd.kids) = Len(nd.ents) + 1

(* A node counts its bytes exactly. *)
Base(leaf) == IF leaf THEN LeafBase ELSE IndexBase
Exact(nd) == nd.end = Base(nd.leaf) + Bytes(nd.ents) + Len(nd.ents) * nd.ovh

LEMMA AddpageIs ==
    ASSUME NEW nd \in NodeType, Grown(nd), NEW i \in 0 .. Len(nd.ents), NEW e \in Ent
    PROVE  LET m == Addpage(nd, i, e)
               n == Len(nd.ents)
           IN  /\ m \in NodeType /\ Same(m, nd) /\ Len(m.ents) = n + 1
               /\ \A j \in 1 .. n + 1 :
                    m.ents[j] = IF j < i + 1 THEN nd.ents[j]
                                ELSE IF j = i + 1 THEN e ELSE nd.ents[j - 1]
               /\ nd.leaf => m.kids = nd.kids
               /\ ~nd.leaf => /\ Len(m.kids) = n + 2
                              /\ \A j \in 1 .. n + 2 :
                                   m.kids[j] = IF j < i + 2 THEN nd.kids[j] ELSE nd.kids[j - 1]
               /\ Exact(nd) => Exact(m)
<1> DEFINE n == Len(nd.ents)
           m == Addpage(nd, i, e)
           s == InsertAt(nd.ents, i + 1, e)
           k == IF nd.leaf THEN nd.kids ELSE InsertAt(nd.kids, i + 2, nd.kids[i + 1])
           x == nd.end + e.size + nd.ovh
<1>1. /\ nd.ents \in Seq(Ent) /\ nd.kids \in Seq(Int) /\ n \in Nat /\ i \in Nat /\ i =< n
      /\ nd.end \in Int /\ nd.ovh \in Nat /\ e.size \in Nat /\ nd.leaf \in BOOLEAN
  BY LenProperties DEF NodeType, Ent
<1>2. /\ s \in Seq(Ent) /\ Len(s) = n + 1
      /\ \A j \in 1 .. n + 1 :
           s[j] = IF j < i + 1 THEN nd.ents[j] ELSE IF j = i + 1 THEN e ELSE nd.ents[j - 1]
      /\ Bytes(s) = Bytes(nd.ents) + e.size /\ Bytes(nd.ents) \in Nat
  <2> DEFINE q == i + 1
  <2>1. q \in 1 .. Len(nd.ents) + 1
    BY <1>1
  <2> HIDE DEF q
  <2>2. /\ InsertAt(nd.ents, q, e) \in Seq(Ent) /\ Len(InsertAt(nd.ents, q, e)) = Len(nd.ents) + 1
        /\ \A j \in 1 .. Len(nd.ents) + 1 :
             InsertAt(nd.ents, q, e)[j]
               = IF j < q THEN nd.ents[j] ELSE IF j = q THEN e ELSE nd.ents[j - 1]
    <3> DEFINE t == nd.ents
    <3>1. t \in Seq(Ent) /\ q \in 1 .. Len(t) + 1
      BY <1>1, <2>1
    <3> HIDE DEF t
    <3>2. LET w == InsertAt(t, q, e)
          IN  w \in Seq(Ent) /\ Len(w) = Len(t) + 1
              /\ \A j \in 1 .. Len(t) + 1 : w[j] = IF j < q THEN t[j] ELSE IF j = q THEN e ELSE t[j - 1]
      BY <3>1, InsertAtIs
    <3> QED BY <3>2 DEF t
  <2>3. Bytes(InsertAt(nd.ents, q, e)) = Bytes(nd.ents) + e.size /\ Bytes(nd.ents) \in Nat
    BY <1>1, <2>1, BytesInsert, BytesAdd
  <2> QED BY <2>2, <2>3 DEF q
<1>3. /\ k \in Seq(Int) /\ (nd.leaf => k = nd.kids)
      /\ ~nd.leaf => /\ Len(k) = n + 2
                     /\ \A j \in 1 .. n + 2 : k[j] = IF j < i + 2 THEN nd.kids[j] ELSE nd.kids[j - 1]
  <2>1. CASE nd.leaf
    BY <1>1, <2>1
  <2>2. CASE ~nd.leaf
    <3> DEFINE q == i + 2
               y == nd.kids[i + 1]
    <3>1. q \in 1 .. Len(nd.kids) + 1 /\ y \in Int /\ Len(nd.kids) + 1 = n + 2 /\ q - 1 = i + 1
      <4>1. Len(nd.kids) = n + 1 /\ i + 1 \in 1 .. Len(nd.kids)
        BY <1>1, <2>2 DEF Grown
      <4>2. y \in Int
        BY <1>1, <4>1, ElementOfSeq
      <4> HIDE DEF n, y
      <4> QED BY <1>1, <4>1, <4>2
    <3> HIDE DEF q, y, n
    <3>2. /\ InsertAt(nd.kids, q, y) \in Seq(Int) /\ Len(InsertAt(nd.kids, q, y)) = Len(nd.kids) + 1
          /\ \A j \in 1 .. Len(nd.kids) + 1 :
               InsertAt(nd.kids, q, y)[j]
                 = IF j < q THEN nd.kids[j] ELSE IF j = q THEN y ELSE nd.kids[j - 1]
      <4> DEFINE t == nd.kids
      <4>1. t \in Seq(Int) /\ q \in 1 .. Len(t) + 1
        BY <1>1, <3>1
      <4> HIDE DEF t
      <4>2. LET w == InsertAt(t, q, y)
            IN  w \in Seq(Int) /\ Len(w) = Len(t) + 1
                /\ \A j \in 1 .. Len(t) + 1 : w[j] = IF j < q THEN t[j] ELSE IF j = q THEN y ELSE t[j - 1]
        <5> DEFINE T == Int
        <5>1. t \in Seq(T) /\ y \in T /\ q \in 1 .. Len(t) + 1
          BY <3>1, <4>1
        <5> HIDE DEF T
        <5>2. /\ InsertAt(t, q, y) \in Seq(T) /\ Len(InsertAt(t, q, y)) = Len(t) + 1
              /\ \A j \in 1 .. Len(t) + 1 :
                   InsertAt(t, q, y)[j] = IF j < q THEN t[j] ELSE IF j = q THEN y ELSE t[j - 1]
          BY ONLY <5>1, InsertAtIs
        <5> QED BY <5>2 DEF T
      <4> QED BY <4>2 DEF t
    <3>3. ASSUME NEW j \in 1 .. n + 2
          PROVE  InsertAt(nd.kids, q, y)[j] = IF j < q THEN nd.kids[j] ELSE nd.kids[j - 1]
      <4>1. j \in 1 .. Len(nd.kids) + 1
        BY <3>1
      <4>2. j = q => y = nd.kids[j - 1]
        BY <3>1 DEF y
      <4>3. ~(q < q)
        BY <3>1
      <4> QED BY <3>2, <4>1, <4>2, <4>3
    <3>4. k = InsertAt(nd.kids, q, y)
      BY <2>2 DEF q, y
    <3> QED BY <2>2, <3>1, <3>2, <3>3, <3>4, SMTT(30) DEF q
  <2> QED BY <1>1, <2>1, <2>2
<1>4. m = [nd EXCEPT !.ents = s, !.kids = k, !.end = x]
  BY DEF Addpage
<1>5. x \in Int
  BY <1>1
<1>0. x = nd.end + e.size + nd.ovh
  OBVIOUS
<1> HIDE DEF m, s, k, x
<1>6. m \in NodeType /\ m.ents = s /\ m.kids = k /\ m.end = x /\ Same(m, nd)
  BY <1>2, <1>3, <1>4, <1>5 DEF NodeType, Same
<1>7. Exact(nd) => Exact(m)
  <2> SUFFICES ASSUME Exact(nd) PROVE Exact(m)
    OBVIOUS
  <2> DEFINE o == nd.ovh
             y == n * o
             z == (n + 1) * o
  <2>1. z = y + o /\ y \in Nat /\ o \in Nat
    <3>1. \A u, v \in Nat : (u + 1) * v = u * v + v /\ u * v \in Nat
      OBVIOUS
    <3>2. n \in Nat /\ o \in Nat
      BY <1>1
    <3> HIDE DEF n, o
    <3> QED BY <3>1, <3>2
  <2>2. nd.end = Base(nd.leaf) + Bytes(nd.ents) + y
    BY DEF Exact
  <2>3. Base(nd.leaf) \in Nat
    BY SizesAssumption DEF Base
  <2>4. m.end = nd.end + e.size + o
    BY <1>0, <1>6
  <2>5. Len(m.ents) * m.ovh = z /\ Bytes(m.ents) = Bytes(nd.ents) + e.size /\ m.leaf = nd.leaf
    BY <1>2, <1>6 DEF Same
  <2> HIDE DEF y, z, o, n
  <2>6. m.end = Base(nd.leaf) + Bytes(m.ents) + z
    BY <1>1, <1>2, <2>1, <2>2, <2>3, <2>4, <2>5, SMTT(30)
  <2> QED BY <2>5, <2>6 DEF Exact
<1> QED BY <1>2, <1>3, <1>6, <1>7 DEF m

LEMMA DelpageIs ==
    ASSUME NEW nd \in NodeType, Grown(nd), NEW i \in 0 .. Len(nd.ents) - 1
    PROVE  LET m == Delpage(nd, i)
               n == Len(nd.ents)
           IN  /\ m \in NodeType /\ Same(m, nd) /\ Len(m.ents) = n - 1 /\ nd.ents[i + 1] \in Ent
               /\ \A j \in 1 .. n - 1 :
                    m.ents[j] = IF j < i + 1 THEN nd.ents[j] ELSE nd.ents[j + 1]
               /\ nd.leaf => m.kids = nd.kids
               /\ ~nd.leaf => /\ Len(m.kids) = n
                              /\ \A j \in 1 .. n :
                                   m.kids[j] = IF j < i + 2 THEN nd.kids[j] ELSE nd.kids[j + 1]
               /\ m.end = nd.end - nd.ovh - nd.ents[i + 1].size
               /\ Bytes(m.ents) = Bytes(nd.ents) - nd.ents[i + 1].size
               /\ Exact(nd) => Exact(m)
<1> DEFINE n == Len(nd.ents)
           g == nd.ents[i + 1]
           m == Delpage(nd, i)
           s == RemoveAt(nd.ents, i + 1)
           k == IF nd.leaf THEN nd.kids ELSE RemoveAt(nd.kids, i + 2)
           x == nd.end - (nd.ovh + g.size)
<1>1. /\ nd.ents \in Seq(Ent) /\ nd.kids \in Seq(Int) /\ n \in Nat /\ i \in Nat /\ i + 1 =< n
      /\ nd.end \in Int /\ nd.ovh \in Nat /\ nd.leaf \in BOOLEAN
  BY LenProperties DEF NodeType
<1>2. /\ s \in Seq(Ent) /\ Len(s) = n - 1
      /\ \A j \in 1 .. n - 1 : s[j] = IF j < i + 1 THEN nd.ents[j] ELSE nd.ents[j + 1]
      /\ Bytes(s) = Bytes(nd.ents) - g.size /\ Bytes(nd.ents) \in Nat /\ g \in Ent
  <2> DEFINE q == i + 1
             t == nd.ents
  <2>1. q \in 1 .. Len(t) /\ t \in Seq(Ent)
    BY <1>1
  <2> HIDE DEF q, t
  <2>2. /\ RemoveAt(t, q) \in Seq(Ent) /\ Len(RemoveAt(t, q)) = Len(t) - 1
        /\ \A j \in 1 .. Len(t) - 1 : RemoveAt(t, q)[j] = IF j < q THEN t[j] ELSE t[j + 1]
    BY <2>1, RemoveAtIs
  <2>3. Bytes(RemoveAt(t, q)) = Bytes(t) - t[q].size /\ Bytes(t) \in Nat /\ t[q] \in Ent
    BY <2>1, BytesRemove, BytesAdd
  <2> QED BY <2>2, <2>3 DEF q, t
<1>3. /\ k \in Seq(Int) /\ (nd.leaf => k = nd.kids)
      /\ ~nd.leaf => /\ Len(k) = n
                     /\ \A j \in 1 .. n : k[j] = IF j < i + 2 THEN nd.kids[j] ELSE nd.kids[j + 1]
  <2>1. CASE nd.leaf
    BY <1>1, <2>1
  <2>2. CASE ~nd.leaf
    <3> DEFINE q == i + 2
               t == nd.kids
    <3>1. Len(t) = n + 1 /\ t \in Seq(Int)
      BY <1>1, <2>2 DEF Grown
    <3>2. q \in 1 .. Len(t) /\ Len(t) - 1 = n
      <4> HIDE DEF n, t
      <4> QED BY <1>1, <3>1
    <3> HIDE DEF q, t
    <3>3. /\ RemoveAt(t, q) \in Seq(Int) /\ Len(RemoveAt(t, q)) = Len(t) - 1
          /\ \A j \in 1 .. Len(t) - 1 : RemoveAt(t, q)[j] = IF j < q THEN t[j] ELSE t[j + 1]
      BY <3>1, <3>2, RemoveAtIs
    <3>4. k = RemoveAt(t, q)
      BY <2>2 DEF q, t
    <3> HIDE DEF n
    <3> QED BY <2>2, <3>2, <3>3, <3>4 DEF q, t
  <2> QED BY <1>1, <2>1, <2>2
<1>4. m = [nd EXCEPT !.ents = s, !.kids = k, !.end = x]
  BY DEF Delpage, Entry
<1>5. x \in Int /\ g.size \in Nat
  <2>1. g.size \in Nat
    BY <1>2 DEF Ent
  <2> HIDE DEF g
  <2> QED BY <1>1, <2>1
<1>0. x = nd.end - (nd.ovh + g.size)
  OBVIOUS
<1> HIDE DEF m, s, k, x
<1>6. m \in NodeType /\ m.ents = s /\ m.kids = k /\ m.end = x /\ Same(m, nd)
  BY <1>2, <1>3, <1>4, <1>5 DEF NodeType, Same
<1> HIDE DEF g
<1>8. m.end = nd.end - nd.ovh - g.size
  BY <1>0, <1>1, <1>5, <1>6
<1>7. Exact(nd) => Exact(m)
  <2> SUFFICES ASSUME Exact(nd) PROVE Exact(m)
    OBVIOUS
  <2> DEFINE o == nd.ovh
             y == n * o
             z == (n - 1) * o
  <2>1. z = y - o /\ y \in Nat /\ o \in Nat
    <3>1. \A u, v \in Nat : u >= 1 => (u - 1) * v = u * v - v /\ u * v \in Nat
      OBVIOUS
    <3>2. n \in Nat /\ o \in Nat /\ n >= 1
      BY <1>1
    <3> HIDE DEF n, o
    <3> QED BY <3>1, <3>2
  <2>2. nd.end = Base(nd.leaf) + Bytes(nd.ents) + y
    BY DEF Exact
  <2>3. Base(nd.leaf) \in Nat
    BY SizesAssumption DEF Base
  <2>5. Len(m.ents) * m.ovh = z /\ Bytes(m.ents) = Bytes(nd.ents) - g.size /\ m.leaf = nd.leaf
    BY <1>2, <1>6 DEF Same
  <2> HIDE DEF y, z, n
  <2>6. m.end = Base(nd.leaf) + Bytes(m.ents) + z
    <3> HIDE DEF o
    <3>1. m.end = nd.end - o - g.size
      BY <1>8 DEF o
    <3> QED BY <1>2, <1>5, <2>1, <2>2, <2>3, <2>5, <3>1
  <2> QED BY <2>5, <2>6 DEF Exact
<1> QED BY <1>2, <1>3, <1>6, <1>7, <1>8 DEF m, g

LEMMA ModpageIs ==
    ASSUME NEW nd \in NodeType, NEW i \in 0 .. Len(nd.ents) - 1, NEW e \in Ent
    PROVE  LET m == Modpage(nd, i, e)
               n == Len(nd.ents)
           IN  /\ m \in NodeType /\ Same(m, nd) /\ Len(m.ents) = n /\ m.kids = nd.kids
               /\ \A j \in 1 .. n : m.ents[j] = IF j = i + 1 THEN e ELSE nd.ents[j]
               /\ Exact(nd) => Exact(m)
<1> DEFINE n == Len(nd.ents)
           g == nd.ents[i + 1]
           m == Modpage(nd, i, e)
           s == [nd.ents EXCEPT ![i + 1] = e]
           x == nd.end + (e.size - g.size)
<1>1. /\ nd.ents \in Seq(Ent) /\ n \in Nat /\ i \in Nat /\ i + 1 =< n
      /\ nd.end \in Int /\ nd.ovh \in Nat /\ e.size \in Nat
  BY LenProperties DEF NodeType, Ent
<1>2. /\ s \in Seq(Ent) /\ Len(s) = n
      /\ \A j \in 1 .. n : s[j] = IF j = i + 1 THEN e ELSE nd.ents[j]
      /\ Bytes(s) = Bytes(nd.ents) + e.size - g.size /\ Bytes(nd.ents) \in Nat /\ g \in Ent
  <2> DEFINE q == i + 1
             t == nd.ents
  <2>1. q \in 1 .. Len(t) /\ t \in Seq(Ent)
    BY <1>1
  <2> HIDE DEF q, t
  <2> DEFINE u == [t EXCEPT ![q] = e]
  <2>2. /\ u \in Seq(Ent) /\ Len(u) = Len(t) /\ u[q] = e
        /\ \A j \in 1 .. Len(t) : j # q => u[j] = t[j]
        /\ Bytes(u) = Bytes(t) + e.size - t[q].size
    BY <2>1, BytesExcept
  <2>3. Bytes(t) \in Nat /\ t[q] \in Ent
    BY <2>1, BytesAdd, ElementOfSeq
  <2> HIDE DEF u
  <2>4. \A j \in 1 .. Len(t) : u[j] = IF j = q THEN e ELSE t[j]
    BY <2>2
  <2> QED BY <2>2, <2>3, <2>4 DEF q, t, u
<1>3. m = [nd EXCEPT !.ents = s, !.end = x]
  BY DEF Modpage, Entry
<1>4. x \in Int /\ g.size \in Nat
  <2>1. g.size \in Nat
    BY ONLY <1>2 DEF Ent
  <2> HIDE DEF g
  <2> QED BY ONLY <1>1, <2>1
<1>0. x = nd.end + (e.size - g.size)
  OBVIOUS
<1> HIDE DEF m, s, x
<1>5. m \in NodeType /\ m.ents = s /\ m.kids = nd.kids /\ m.end = x /\ Same(m, nd)
  BY <1>2, <1>3, <1>4 DEF NodeType, Same
<1> HIDE DEF g
<1>6. Exact(nd) => Exact(m)
  <2> SUFFICES ASSUME Exact(nd) PROVE Exact(m)
    OBVIOUS
  <2> DEFINE y == n * nd.ovh
             b == Base(nd.leaf)
  <2>1. y \in Nat
    <3> DEFINE o == nd.ovh
    <3>1. o \in Nat /\ n \in Nat
      BY <1>1
    <3> HIDE DEF o, n
    <3>2. n * o \in Nat
      BY <3>1
    <3> QED BY <3>2 DEF o
  <2>2. nd.end = b + Bytes(nd.ents) + y
    BY DEF Exact
  <2>3. b \in Nat
    BY SizesAssumption DEF Base
  <2>4. Len(m.ents) * m.ovh = y /\ Bytes(m.ents) = Bytes(nd.ents) + e.size - g.size /\ m.leaf = nd.leaf
    BY <1>2, <1>5 DEF Same
  <2> HIDE DEF y, n, b
  <2>5. m.end = b + Bytes(m.ents) + y
    BY <1>0, <1>1, <1>2, <1>4, <1>5, <2>1, <2>2, <2>3, <2>4, SMTT(30)
  <2> QED BY <2>4, <2>5 DEF Exact, b
<1> QED BY <1>2, <1>5, <1>6 DEF m

LEMMA SetKidIs ==
    ASSUME NEW nd \in NodeType, NEW i \in 0 .. Len(nd.kids) - 1, NEW c \in Int
    PROVE  LET m == SetKid(nd, i, c)
           IN  /\ m \in NodeType /\ Same(m, nd) /\ m.ents = nd.ents /\ m.end = nd.end
               /\ Len(m.kids) = Len(nd.kids)
               /\ \A j \in 1 .. Len(nd.kids) : m.kids[j] = IF j = i + 1 THEN c ELSE nd.kids[j]
               /\ Exact(nd) => Exact(m)
<1> DEFINE n == Len(nd.kids)
           m == SetKid(nd, i, c)
           s == [nd.kids EXCEPT ![i + 1] = c]
<1>1. nd.kids \in Seq(Int) /\ n \in Nat /\ i \in Nat /\ i + 1 \in 1 .. n
  BY LenProperties DEF NodeType
<1>2. /\ s \in Seq(Int) /\ Len(s) = n
      /\ \A j \in 1 .. n : s[j] = IF j = i + 1 THEN c ELSE nd.kids[j]
  <2> DEFINE q == i + 1
             t == nd.kids
             S == Int
  <2>1. q \in 1 .. Len(t) /\ t \in Seq(S) /\ c \in S
    BY <1>1
  <2> HIDE DEF q, t, S
  <2>2. /\ [t EXCEPT ![q] = c] \in Seq(S) /\ Len([t EXCEPT ![q] = c]) = Len(t)
        /\ \A j \in 1 .. Len(t) : [t EXCEPT ![q] = c][j] = IF j = q THEN c ELSE t[j]
    BY ONLY <2>1, ExceptSeq
  <2> QED BY <2>2 DEF q, t, S
<1>3. m = [nd EXCEPT !.kids = s]
  BY DEF SetKid
<1> HIDE DEF m, s
<1>4. m \in NodeType /\ m.ents = nd.ents /\ m.kids = s /\ m.end = nd.end /\ Same(m, nd)
  BY <1>2, <1>3 DEF NodeType, Same
<1>5. Exact(nd) => Exact(m)
  BY <1>4 DEF Exact, Same
<1> QED BY <1>2, <1>4, <1>5 DEF m

-----------------------------------------------------------------------------
(* Search trees. A label says of a page its height, 1 for a leaf, the keys *)
(* that belong there, from lo to below hi (-1: no bound), and the records  *)
(* that are in the leaves below.                                           *)
Before(k, hi) == hi = -1 \/ k < hi
Within(v, k) == v.lo =< k /\ Before(k, v.hi)
Label ==
    {v \in [h : Nat \ {0}, lo : Nat, hi : Nat \cup {-1}, c : SUBSET Ent] :
        Before(v.lo, v.hi) /\ \A e \in v.c : Within(v, e.key)}

(* A label cut at key k, and two labels that meet as one.                  *)
Under(v, k) == [h |-> v.h, lo |-> v.lo, hi |-> k, c |-> {e \in v.c : e.key < k}]
From(v, k)  == [h |-> v.h, lo |-> k, hi |-> v.hi, c |-> {e \in v.c : k =< e.key}]
Join(a, b)  == [h |-> a.h, lo |-> a.lo, hi |-> b.hi, c |-> a.c \cup b.c]
Meet(a, b)  == a \in Label /\ b \in Label /\ a.h = b.h /\ a.hi = b.lo

Rising(s) == \A i, j \in 1 .. Len(s) : i < j => s[i].key < s[j].key

(* Entries s are the records of label v.                                   *)
Holds(s, v) == v.h = 1 /\ \A e : e \in v.c <=> \E i \in 1 .. Len(s) : e = s[i]

(* Separators s divide label v into the labels L.                          *)
Spans(s, L, v) ==
    /\ v.h > 1
    /\ \A i \in 1 .. Len(s) : v.lo < s[i].key /\ Before(s[i].key, v.hi)
    /\ \A i \in 1 .. Len(s) + 1 : L[i] \in Label /\ L[i].h = v.h - 1
    /\ L[1].lo = v.lo /\ L[Len(s) + 1].hi = v.hi
    /\ \A i \in 1 .. Len(s) : L[i].hi = s[i].key /\ L[i + 1].lo = s[i].key
    /\ \A e : e \in v.c <=> \E i \in 1 .. Len(s) + 1 : e \in L[i].c

(* Entries s cut after the first p, or with labels L at separator p, which *)
(* neither part keeps.                                                     *)
Parts(s, p, s1, s2) ==
    /\ s \in Seq(Ent) /\ s1 \in Seq(Ent) /\ s2 \in Seq(Ent) /\ p \in 0 .. Len(s)
    /\ Len(s1) = p /\ \A i \in 1 .. p : s1[i] = s[i]
    /\ Len(s2) = Len(s) - p /\ \A i \in 1 .. Len(s) - p : s2[i] = s[p + i]
CutAt(s, L, p, s1, L1, s2, L2) ==
    /\ s \in Seq(Ent) /\ s1 \in Seq(Ent) /\ s2 \in Seq(Ent) /\ p \in 1 .. Len(s)
    /\ Len(s1) = p - 1 /\ \A i \in 1 .. p - 1 : s1[i] = s[i]
    /\ Len(s2) = Len(s) - p /\ \A i \in 1 .. Len(s) - p : s2[i] = s[p + i]
    /\ \A i \in 1 .. p : L1[i] = L[i]
    /\ \A i \in 1 .. Len(s) - p + 1 : L2[i] = L[p + i]

(* Separators t and labels M are s and L without separator j, but for      *)
(* label j; or but for separator j and the labels beside it.               *)
Without(s, L, j, t, M) ==
    /\ s \in Seq(Ent) /\ t \in Seq(Ent) /\ j \in 1 .. Len(s) /\ Len(t) = Len(s) - 1
    /\ \A i \in 1 .. Len(s) - 1 : t[i] = IF i < j THEN s[i] ELSE s[i + 1]
    /\ \A i \in 1 .. Len(s) : i # j => M[i] = IF i < j THEN L[i] ELSE L[i + 1]
Besides(s, L, j, t, M) ==
    /\ s \in Seq(Ent) /\ t \in Seq(Ent) /\ j \in 1 .. Len(s) /\ Len(t) = Len(s)
    /\ \A i \in 1 .. Len(s) : i # j => t[i] = s[i]
    /\ \A i \in 1 .. Len(s) + 1 : i # j /\ i # j + 1 => M[i] = L[i]

LEMMA LabelIs ==
    ASSUME NEW v \in Label
    PROVE  /\ v.h \in Nat /\ v.h > 0 /\ v.lo \in Nat /\ v.hi \in Nat \cup {-1} /\ v.c \subseteq Ent
           /\ Before(v.lo, v.hi)
           /\ \A e \in v.c : e.key \in Nat /\ v.lo =< e.key /\ Before(e.key, v.hi)
BY DEF Label, Within, Ent

LEMMA LabelMade ==
    ASSUME NEW h \in Nat, h > 0, NEW lo \in Nat, NEW hi \in Nat \cup {-1}, NEW c \in SUBSET Ent,
           Before(lo, hi), \A e \in c : lo =< e.key /\ Before(e.key, hi)
    PROVE  [h |-> h, lo |-> lo, hi |-> hi, c |-> c] \in Label
BY DEF Label, Within

LEMMA CutLabel ==
    ASSUME NEW v \in Label, NEW k \in Nat, v.lo < k, Before(k, v.hi)
    PROVE  Under(v, k) \in Label /\ From(v, k) \in Label /\ Meet(Under(v, k), From(v, k))
<1>1. /\ v.h \in Nat /\ v.h > 0 /\ v.lo \in Nat /\ v.hi \in Nat \cup {-1} /\ v.c \subseteq Ent
      /\ \A e \in v.c : e.key \in Nat /\ v.lo =< e.key /\ Before(e.key, v.hi)
  BY LabelIs
<1>2. Under(v, k) \in Label
  <2> DEFINE c == {e \in v.c : e.key < k}
  <2>1. c \in SUBSET Ent /\ \A e \in c : v.lo =< e.key /\ Before(e.key, k)
    BY <1>1 DEF Before
  <2>2. Before(v.lo, k) /\ k \in Nat \cup {-1}
    BY DEF Before
  <2> HIDE DEF c
  <2>3. [h |-> v.h, lo |-> v.lo, hi |-> k, c |-> c] \in Label
    BY <1>1, <2>1, <2>2, LabelMade
  <2> QED BY <2>3 DEF Under, c
<1>3. From(v, k) \in Label
  <2> DEFINE c == {e \in v.c : k =< e.key}
  <2>1. c \in SUBSET Ent /\ \A e \in c : k =< e.key /\ Before(e.key, v.hi)
    BY <1>1
  <2> HIDE DEF c
  <2>3. [h |-> v.h, lo |-> k, hi |-> v.hi, c |-> c] \in Label
    BY <1>1, <2>1, LabelMade
  <2> QED BY <2>3 DEF From, c
<1> QED BY <1>2, <1>3 DEF Meet, Under, From

LEMMA JoinLabel ==
    ASSUME NEW a, NEW b, Meet(a, b)
    PROVE  /\ Join(a, b) \in Label /\ a.hi \in Nat
           /\ a.lo < a.hi /\ Before(a.hi, b.hi)
<1>1. /\ a.h \in Nat /\ a.h > 0 /\ a.lo \in Nat /\ a.hi \in Nat \cup {-1} /\ a.c \subseteq Ent
      /\ Before(a.lo, a.hi)
      /\ \A e \in a.c : e.key \in Nat /\ a.lo =< e.key /\ Before(e.key, a.hi)
  BY LabelIs DEF Meet
<1>2. /\ b.h \in Nat /\ b.h > 0 /\ b.lo \in Nat /\ b.hi \in Nat \cup {-1} /\ b.c \subseteq Ent
      /\ Before(b.lo, b.hi) /\ a.hi = b.lo
      /\ \A e \in b.c : e.key \in Nat /\ b.lo =< e.key /\ Before(e.key, b.hi)
  BY LabelIs DEF Meet
<1>3. a.hi \in Nat /\ a.hi # -1 /\ a.lo < a.hi /\ Before(a.hi, b.hi)
  BY <1>1, <1>2 DEF Before
<1> DEFINE c == a.c \cup b.c
<1>4. c \in SUBSET Ent /\ Before(a.lo, b.hi)
  BY <1>1, <1>2, <1>3 DEF Before
<1>5. \A e \in c : a.lo =< e.key /\ Before(e.key, b.hi)
  BY <1>1, <1>2, <1>3 DEF Before
<1> HIDE DEF c
<1>6. [h |-> a.h, lo |-> a.lo, hi |-> b.hi, c |-> c] \in Label
  BY <1>1, <1>2, <1>4, <1>5, LabelMade
<1> QED BY <1>3, <1>6 DEF Join, c

(* A leaf cut, and two leaves as one.                                      *)
LEMMA CutHolds ==
    ASSUME NEW s, NEW v, Rising(s), Holds(s, v), NEW p, NEW s1, NEW s2, Parts(s, p, s1, s2),
           0 < p, p < Len(s), NEW k \in Nat, s[p].key < k, k =< s[p + 1].key
    PROVE  Holds(s1, Under(v, k)) /\ Holds(s2, From(v, k)) /\ Rising(s1) /\ Rising(s2)
<1> DEFINE n == Len(s)
<1>0. /\ s \in Seq(Ent) /\ p \in 0 .. n
      /\ Len(s1) = p /\ \A i \in 1 .. p : s1[i] = s[i]
      /\ Len(s2) = n - p /\ \A i \in 1 .. n - p : s2[i] = s[p + i]
  BY DEF Parts
<1> USE <1>0
<1>1. n \in Nat /\ p \in Nat /\ 1 =< p /\ p < n
  BY LenProperties
<1>2. \A i \in 1 .. n : s[i] \in Ent /\ s[i].key \in Nat
  <2>1. \A i \in 1 .. n : s[i] \in Ent
    BY ElementOfSeq
  <2> QED BY <2>1 DEF Ent
<1>3. \A i, j \in 1 .. n : i < j => s[i].key < s[j].key
  BY DEF Rising
<1>4. Len(s2) = n - p /\ \A i \in 1 .. n - p : s2[i] = s[p + i]
  OBVIOUS
<1>5. s[p].key < k /\ k =< s[p + 1].key
  OBVIOUS
<1>6. \A e : e \in v.c <=> \E i \in 1 .. n : e = s[i]
  BY DEF Holds
<1> HIDE DEF n
<1>7. \A i \in 1 .. n : i =< p => s[i].key < k
  <2> TAKE i \in 1 .. n
  <2>1. p \in 1 .. n
    BY <1>1
  <2>2. i < p => s[i].key < s[p].key
    BY <1>3, <2>1
  <2> QED BY <1>1, <1>2, <1>5, <2>1, <2>2
<1>8. \A i \in 1 .. n : i > p => k =< s[i].key
  <2> TAKE i \in 1 .. n
  <2>1. p + 1 \in 1 .. n
    BY <1>1
  <2>2. p + 1 < i => s[p + 1].key < s[i].key
    BY <1>3, <2>1
  <2> QED BY <1>1, <1>2, <1>5, <2>1, <2>2
<1>9. ASSUME NEW e PROVE e \in Under(v, k).c <=> \E i \in 1 .. Len(s1) : e = s1[i]
  <2>1. e \in Under(v, k).c <=> e \in v.c /\ e.key < k
    BY DEF Under
  <2>2. ASSUME NEW i \in 1 .. Len(s1) PROVE s1[i] \in v.c /\ s1[i].key < k
    <3>1. i \in 1 .. n /\ i =< p /\ s1[i] = s[i]
      BY <1>1
    <3> QED BY <1>6, <1>7, <3>1
  <2>3. ASSUME e \in v.c, e.key < k PROVE \E i \in 1 .. Len(s1) : e = s1[i]
    <3>1. PICK i \in 1 .. n : e = s[i]
      BY <1>6, <2>3
    <3>2. i =< p
      BY <1>1, <1>2, <1>8, <2>3, <3>1
    <3>3. i \in 1 .. Len(s1) /\ s1[i] = e
      BY <1>1, <3>1, <3>2
    <3> QED BY <3>3
  <2> QED BY <2>1, <2>2, <2>3
<1>10. ASSUME NEW e PROVE e \in From(v, k).c <=> \E i \in 1 .. Len(s2) : e = s2[i]
  <2>1. e \in From(v, k).c <=> e \in v.c /\ k =< e.key
    BY DEF From
  <2>2. ASSUME NEW i \in 1 .. Len(s2) PROVE s2[i] \in v.c /\ k =< s2[i].key
    <3>1. p + i \in 1 .. n /\ p + i > p /\ s2[i] = s[p + i]
      BY <1>1, <1>4
    <3> QED BY <1>6, <1>8, <3>1
  <2>3. ASSUME e \in v.c, k =< e.key PROVE \E i \in 1 .. Len(s2) : e = s2[i]
    <3>1. PICK i \in 1 .. n : e = s[i]
      BY <1>6, <2>3
    <3>2. i > p
      BY <1>1, <1>2, <1>7, <2>3, <3>1
    <3>3. i - p \in 1 .. n - p /\ p + (i - p) = i
      BY <1>1, <3>1, <3>2
    <3>4. s2[i - p] = e
      BY <1>4, <3>1, <3>3
    <3> QED BY <1>4, <3>3, <3>4
  <2> QED BY <2>1, <2>2, <2>3
<1>11. Rising(s1)
  <2>1. \A i \in 1 .. Len(s1) : i \in 1 .. n /\ s1[i] = s[i]
    BY <1>1
  <2> QED BY <1>3, <2>1 DEF Rising
<1>12. Rising(s2)
  <2>1. \A i \in 1 .. Len(s2) : p + i \in 1 .. n /\ s2[i] = s[p + i]
    BY <1>1, <1>4
  <2>2. \A i, j \in 1 .. Len(s2) : i < j => p + i < p + j
    BY <1>1, <1>4
  <2> QED BY <1>3, <2>1, <2>2 DEF Rising
<1>13. Under(v, k).h = 1 /\ From(v, k).h = 1
  BY DEF Under, From, Holds
<1> QED BY <1>9, <1>10, <1>11, <1>12, <1>13 DEF Holds

LEMMA JoinHolds ==
    ASSUME NEW s1, NEW a, Rising(s1), Holds(s1, a),
           NEW s2, NEW b, Rising(s2), Holds(s2, b), Meet(a, b),
           NEW s, NEW p, Parts(s, p, s1, s2)
    PROVE  Holds(s, Join(a, b)) /\ Rising(s)
<1> DEFINE q == Len(s2)
           n == Len(s)
<1>0. /\ s \in Seq(Ent) /\ s1 \in Seq(Ent) /\ s2 \in Seq(Ent) /\ p \in 0 .. n /\ Len(s1) = p
      /\ q = n - p /\ (\A i \in 1 .. p : s1[i] = s[i]) /\ \A i \in 1 .. q : s2[i] = s[p + i]
  BY DEF Parts
<1>1. p \in Nat /\ q \in Nat /\ n = p + q
  BY <1>0, LenProperties
<1>2. \A e : e \in a.c <=> \E i \in 1 .. p : e = s1[i]
  BY <1>0 DEF Holds
<1>3. \A e : e \in b.c <=> \E i \in 1 .. q : e = s2[i]
  BY DEF Holds
<1>4. (\A e \in a.c : e.key \in Nat /\ e.key < a.hi) /\ (\A e \in b.c : e.key \in Nat /\ a.hi =< e.key)
      /\ a.hi \in Nat /\ Join(a, b).h = 1
  <2>1. a.hi \in Nat /\ a.hi # -1 /\ b.lo = a.hi
    <3>1. a.hi \in Nat
      BY JoinLabel
    <3> QED BY <3>1 DEF Meet
  <2>2. Join(a, b).h = 1
    BY DEF Join, Holds
  <2> QED BY <2>1, <2>2, LabelIs DEF Meet, Before
<1>5. \A i, j \in 1 .. p : i < j => s1[i].key < s1[j].key
  BY <1>0 DEF Rising
<1>6. \A i, j \in 1 .. q : i < j => s2[i].key < s2[j].key
  BY DEF Rising
<1> HIDE DEF q, n
<1>7. \A i \in 1 .. n : i =< p => i \in 1 .. p /\ s[i] = s1[i] /\ s[i] \in a.c
  <2> SUFFICES ASSUME NEW i \in 1 .. n, i =< p
               PROVE  i \in 1 .. p /\ s[i] = s1[i] /\ s[i] \in a.c
    OBVIOUS
  <2>1. i \in 1 .. p
    BY <1>1
  <2> QED BY <1>0, <1>2, <2>1
<1>8. \A i \in 1 .. n : i > p => i - p \in 1 .. q /\ s[i] = s2[i - p] /\ s[i] \in b.c
  <2> SUFFICES ASSUME NEW i \in 1 .. n, i > p
               PROVE  i - p \in 1 .. q /\ s[i] = s2[i - p] /\ s[i] \in b.c
    OBVIOUS
  <2>1. i - p \in 1 .. q /\ p + (i - p) = i
    BY <1>1
  <2>2. s[i] = s2[i - p]
    BY <1>0, <2>1
  <2> QED BY <1>3, <2>1, <2>2
<1>9. ASSUME NEW e PROVE e \in Join(a, b).c <=> \E i \in 1 .. n : e = s[i]
  <2>1. e \in Join(a, b).c <=> e \in a.c \/ e \in b.c
    BY DEF Join
  <2>2. ASSUME NEW i \in 1 .. n PROVE s[i] \in a.c \/ s[i] \in b.c
    <3>1. i =< p \/ i > p
      BY <1>1
    <3> QED BY <1>7, <1>8, <3>1
  <2>3. ASSUME e \in a.c PROVE \E i \in 1 .. n : e = s[i]
    <3>1. PICK i \in 1 .. p : e = s1[i]
      BY <1>2, <2>3
    <3>2. i \in 1 .. n /\ i =< p
      BY <1>1
    <3> QED BY <1>7, <3>1, <3>2
  <2>4. ASSUME e \in b.c PROVE \E i \in 1 .. n : e = s[i]
    <3>1. PICK i \in 1 .. q : e = s2[i]
      BY <1>3, <2>4
    <3>2. p + i \in 1 .. n /\ p + i > p /\ (p + i) - p = i
      BY <1>1
    <3> QED BY <1>8, <3>1, <3>2
  <2> QED BY <2>1, <2>2, <2>3, <2>4
<1>10. ASSUME NEW i \in 1 .. n, NEW j \in 1 .. n, i < j PROVE s[i].key < s[j].key
  <2>1. CASE j =< p
    <3>1. i =< p
      BY <1>1, <1>10, <2>1
    <3> QED BY <1>5, <1>7, <1>10, <2>1, <3>1
  <2>2. CASE i > p
    <3>1. j > p /\ i - p < j - p
      BY <1>1, <1>10, <2>2
    <3> QED BY <1>6, <1>8, <2>2, <3>1
  <2>3. CASE i =< p /\ j > p
    <3>1. s[i] \in a.c /\ s[j] \in b.c
      BY <1>7, <1>8, <2>3
    <3> DEFINE x == s[i].key
               y == s[j].key
    <3>2. x \in Nat /\ y \in Nat /\ x < a.hi /\ a.hi =< y
      BY <1>4, <3>1
    <3> HIDE DEF x, y
    <3>3. x < y
      BY <1>4, <3>2
    <3> QED BY <3>3 DEF x, y
  <2>4. j =< p \/ i > p \/ (i =< p /\ j > p)
    BY <1>1
  <2> QED BY <2>1, <2>2, <2>3, <2>4
<1>11. Rising(s)
  BY <1>10 DEF Rising, n
<1> QED BY <1>4, <1>9, <1>11 DEF Holds, n

(* The labels of an index page: their records in order.                    *)
LEMMA SpansIs ==
    ASSUME NEW s \in Seq(Ent), Rising(s), NEW L, NEW v \in Label, Spans(s, L, v)
    PROVE  /\ Len(s) \in Nat /\ \A i \in 1 .. Len(s) : s[i] \in Ent /\ s[i].key \in Nat
           /\ \A i, j \in 1 .. Len(s) : i < j => s[i].key < s[j].key
           /\ \A i \in 1 .. Len(s) : Meet(L[i], L[i + 1])
           /\ \A p \in 1 .. Len(s) : \A i \in 1 .. Len(s) + 1 : \A e \in L[i].c :
                e.key \in Nat /\ (i =< p => e.key < s[p].key) /\ (i > p => s[p].key =< e.key)
<1> DEFINE n == Len(s)
<1>1. n \in Nat
  BY LenProperties
<1>2. \A i \in 1 .. n : s[i] \in Ent /\ s[i].key \in Nat
  <2>1. \A i \in 1 .. n : s[i] \in Ent
    BY ElementOfSeq
  <2> QED BY <2>1 DEF Ent
<1>3. \A i, j \in 1 .. n : i < j => s[i].key < s[j].key
  BY DEF Rising
<1>4. /\ \A i \in 1 .. n + 1 : L[i] \in Label /\ L[i].h = v.h - 1
      /\ \A i \in 1 .. n : L[i].hi = s[i].key /\ L[i + 1].lo = s[i].key
  BY DEF Spans
<1> HIDE DEF n
<1>5. \A i \in 1 .. n : i \in 1 .. n + 1 /\ i + 1 \in 1 .. n + 1
  BY <1>1
<1>6. \A i \in 1 .. n : Meet(L[i], L[i + 1])
  BY <1>4, <1>5 DEF Meet
<1>7. ASSUME NEW p \in 1 .. n, NEW i \in 1 .. n + 1, NEW e \in L[i].c
      PROVE  e.key \in Nat /\ (i =< p => e.key < s[p].key) /\ (i > p => s[p].key =< e.key)
  <2>1. L[i] \in Label
    BY <1>4
  <2>2. e.key \in Nat /\ L[i].lo =< e.key /\ Before(e.key, L[i].hi) /\ L[i].lo \in Nat
    BY <2>1, LabelIs
  <2> DEFINE x == e.key
             y == s[p].key
  <2>3. y \in Nat
    BY <1>2
  <2>4. ASSUME i =< p PROVE x < y
    <3>1. i \in 1 .. n
      BY <1>1, <2>4
    <3> DEFINE w == s[i].key
    <3>2. w \in Nat /\ x < w
      BY <1>2, <1>4, <2>2, <3>1 DEF Before
    <3>3. i < p => w < y
      BY <1>3, <3>1
    <3>4. i = p => w = y
      OBVIOUS
    <3> HIDE DEF x, y, w
    <3>5. x \in Nat /\ (i < p \/ i = p)
      BY <2>2, <2>4, <3>1 DEF x
    <3> QED BY <2>3, <3>2, <3>3, <3>4, <3>5
  <2>5. ASSUME i > p PROVE y =< x
    <3> DEFINE j == i - 1
               w == s[j].key
    <3>1. j \in 1 .. n /\ j + 1 = i /\ (p < j \/ p = j)
      BY <1>1, <2>5
    <3>2. L[j + 1].lo = s[j].key
      BY <1>4, <3>1
    <3>3. w \in Nat /\ w =< x
      BY <1>2, <2>2, <3>1, <3>2
    <3>4. p < j => y < w
      BY <1>3, <3>1
    <3>5. p = j => y = w
      OBVIOUS
    <3> HIDE DEF x, y, w, j
    <3>6. x \in Nat
      BY <2>2 DEF x
    <3> QED BY <2>3, <3>1, <3>3, <3>4, <3>5, <3>6
  <2> QED BY <2>2, <2>4, <2>5
<1> QED BY <1>1, <1>2, <1>3, <1>6, <1>7 DEF n

(* An index page cut at separator p, which neither part keeps.             *)
LEMMA CutSpans ==
    ASSUME NEW s, NEW L, NEW v \in Label, Rising(s), Spans(s, L, v),
           NEW p, NEW s1, NEW L1, NEW s2, NEW L2, CutAt(s, L, p, s1, L1, s2, L2)
    PROVE  /\ Spans(s1, L1, Under(v, s[p].key)) /\ Rising(s1)
           /\ Spans(s2, L2, From(v, s[p].key)) /\ Rising(s2)
<1> DEFINE n == Len(s)
           k == s[p].key
           a == Under(v, k)
           b == From(v, k)
<1>0. s \in Seq(Ent) /\ p \in 1 .. n
  BY DEF CutAt
<1> USE <1>0
<1>1. /\ n \in Nat /\ \A i \in 1 .. n : s[i] \in Ent /\ s[i].key \in Nat
      /\ \A i, j \in 1 .. n : i < j => s[i].key < s[j].key
      /\ \A q \in 1 .. n : \A i \in 1 .. n + 1 : \A e \in L[i].c :
           e.key \in Nat /\ (i =< q => e.key < s[q].key) /\ (i > q => s[q].key =< e.key)
  BY SpansIs
<1>2. p \in Nat /\ 1 =< p /\ p =< n /\ k \in Nat
  BY <1>1
<1>3. /\ v.h > 1 /\ \A i \in 1 .. n : v.lo < s[i].key /\ Before(s[i].key, v.hi)
      /\ \A i \in 1 .. n + 1 : L[i] \in Label /\ L[i].h = v.h - 1
      /\ L[1].lo = v.lo /\ L[n + 1].hi = v.hi
      /\ \A i \in 1 .. n : L[i].hi = s[i].key /\ L[i + 1].lo = s[i].key
      /\ \A e : e \in v.c <=> \E i \in 1 .. n + 1 : e \in L[i].c
  BY DEF Spans
<1>4. Len(s2) = n - p /\ (\A i \in 1 .. n - p : s2[i] = s[p + i])
      /\ \A i \in 1 .. n - p + 1 : L2[i] = L[p + i]
  BY DEF CutAt
<1>5. Len(s1) = p - 1 /\ (\A i \in 1 .. p - 1 : s1[i] = s[i]) /\ \A i \in 1 .. p : L1[i] = L[i]
  BY DEF CutAt
<1>60. k = s[p].key
  OBVIOUS
<1> USE <1>60
<1>6. /\ a.h = v.h /\ a.lo = v.lo /\ a.hi = k /\ \A e : e \in a.c <=> e \in v.c /\ e.key < k
      /\ b.h = v.h /\ b.lo = k /\ b.hi = v.hi /\ \A e : e \in b.c <=> e \in v.c /\ k =< e.key
  BY DEF Under, From
<1> HIDE DEF n, a, b, k
<1>7. \A i \in 1 .. p - 1 : i \in 1 .. n /\ i < p /\ i \in 1 .. p /\ i + 1 \in 1 .. p
  BY <1>1, <1>2
<1>8. \A i \in 1 .. n - p : p + i \in 1 .. n /\ p < p + i /\ i \in 1 .. n - p + 1 /\ i + 1 \in 1 .. n - p + 1
                            /\ p + (i + 1) = (p + i) + 1
  BY <1>1, <1>2
<1>9. Spans(s1, L1, a)
  <2>1. \A i \in 1 .. p - 1 : a.lo < s1[i].key /\ Before(s1[i].key, a.hi)
    BY <1>1, <1>2, <1>3, <1>5, <1>6, <1>7 DEF Before
  <2>2. \A i \in 1 .. p : i \in 1 .. n + 1
    BY <1>1, <1>2
  <2>3. \A i \in 1 .. p : L1[i] \in Label /\ L1[i].h = a.h - 1
    BY <1>3, <1>5, <1>6, <2>2
  <2>4. L1[1].lo = a.lo /\ L1[p].hi = a.hi
    <3>1. 1 \in 1 .. p /\ p \in 1 .. p /\ p \in 1 .. n
      BY <1>2
    <3> QED BY <1>3, <1>5, <1>6, <3>1
  <2>5. \A i \in 1 .. p - 1 : L1[i].hi = s1[i].key /\ L1[i + 1].lo = s1[i].key
    BY <1>3, <1>5, <1>7
  <2>6. ASSUME NEW e PROVE e \in a.c <=> \E i \in 1 .. p : e \in L1[i].c
    <3>0. p \in 1 .. n
      BY <1>1, <1>2
    <3>1. ASSUME e \in a.c PROVE \E i \in 1 .. p : e \in L1[i].c
      <4>1. PICK i \in 1 .. n + 1 : e \in L[i].c
        BY <1>3, <1>6, <3>1
      <4>2. e.key \in Nat /\ e.key < k /\ (i > p => k =< e.key)
        BY <1>1, <1>6, <3>0, <3>1, <4>1
      <4>3. i \in 1 .. p
        BY <1>1, <1>2, <4>2
      <4> QED BY <1>5, <4>1, <4>3
    <3>2. ASSUME NEW i \in 1 .. p, e \in L1[i].c PROVE e \in a.c
      <4>1. i \in 1 .. n + 1 /\ i =< p /\ e \in L[i].c
        BY <1>5, <2>2, <3>2
      <4>2. e.key < k /\ e \in v.c
        BY <1>1, <1>3, <3>0, <4>1
      <4> QED BY <1>6, <4>2
    <3> QED BY <3>1, <3>2
  <2>7. Len(s1) + 1 = p
    BY <1>2, <1>5
  <2>8. a.h > 1
    BY <1>3, <1>6
  <2> QED BY <1>5, <2>1, <2>3, <2>4, <2>5, <2>6, <2>7, <2>8 DEF Spans
<1>10. Spans(s2, L2, b)
  <2>1. \A i \in 1 .. n - p : b.lo < s2[i].key /\ Before(s2[i].key, b.hi)
    <3> TAKE i \in 1 .. n - p
    <3>1. p + i \in 1 .. n /\ p < p + i /\ p \in 1 .. n /\ s2[i] = s[p + i]
      BY <1>2, <1>4, <1>8
    <3>2. s[p].key < s[p + i].key
      BY <1>1, <3>1
    <3> QED BY <1>3, <1>6, <3>1, <3>2
  <2>2. \A i \in 1 .. n - p + 1 : p + i \in 1 .. n + 1 /\ p + i > p
    BY <1>1, <1>2
  <2>3. \A i \in 1 .. n - p + 1 : L2[i] \in Label /\ L2[i].h = b.h - 1
    BY <1>3, <1>4, <1>6, <2>2
  <2>4. L2[1].lo = b.lo /\ L2[n - p + 1].hi = b.hi
    <3>1. 1 \in 1 .. n - p + 1 /\ n - p + 1 \in 1 .. n - p + 1 /\ p \in 1 .. n /\ p + (n - p + 1) = n + 1
      BY <1>1, <1>2
    <3> QED BY <1>3, <1>4, <1>6, <3>1
  <2>5. \A i \in 1 .. n - p : L2[i].hi = s2[i].key /\ L2[i + 1].lo = s2[i].key
    <3> TAKE i \in 1 .. n - p
    <3>2. L2[i] = L[p + i] /\ L2[i + 1] = L[p + (i + 1)] /\ s2[i] = s[p + i]
      BY <1>4, <1>8
    <3>3. p + (i + 1) = (p + i) + 1
      BY <1>8
    <3>1. L2[i] = L[p + i] /\ L2[i + 1] = L[(p + i) + 1] /\ s2[i] = s[p + i]
      BY <3>2, <3>3
    <3> QED BY <1>3, <1>8, <3>1
  <2>6. ASSUME NEW e PROVE e \in b.c <=> \E i \in 1 .. n - p + 1 : e \in L2[i].c
    <3>0. p \in 1 .. n
      BY <1>1, <1>2
    <3>1. ASSUME e \in b.c PROVE \E i \in 1 .. n - p + 1 : e \in L2[i].c
      <4>1. PICK i \in 1 .. n + 1 : e \in L[i].c
        BY <1>3, <1>6, <3>1
      <4>2. e.key \in Nat /\ k =< e.key /\ (i =< p => e.key < k)
        BY <1>1, <1>6, <3>0, <3>1, <4>1
      <4>3. i - p \in 1 .. n - p + 1 /\ p + (i - p) = i
        BY <1>1, <1>2, <4>2
      <4>4. L2[i - p] = L[i]
        BY <1>4, <4>3
      <4> QED BY <4>1, <4>3, <4>4
    <3>2. ASSUME NEW i \in 1 .. n - p + 1, e \in L2[i].c PROVE e \in b.c
      <4>1. e \in L[p + i].c
        BY <1>4, <3>2
      <4>2. k =< e.key /\ e \in v.c
        BY <1>1, <1>3, <2>2, <3>0, <4>1
      <4> QED BY <1>6, <4>2
    <3> QED BY <3>1, <3>2
  <2>7. b.h > 1
    BY <1>3, <1>6
  <2> QED BY <1>4, <2>1, <2>3, <2>4, <2>5, <2>6, <2>7 DEF Spans
<1>11. Rising(s1)
  BY <1>1, <1>5, <1>7 DEF Rising
<1>12. Rising(s2)
  <2> SUFFICES ASSUME NEW i \in 1 .. Len(s2), NEW j \in 1 .. Len(s2), i < j
               PROVE  s2[i].key < s2[j].key
    BY DEF Rising
  <2>1. i \in 1 .. n - p /\ j \in 1 .. n - p
    BY <1>4
  <2>2. p + i \in 1 .. n /\ p + j \in 1 .. n /\ s2[i] = s[p + i] /\ s2[j] = s[p + j]
    BY <1>4, <1>8, <2>1
  <2>3. p + i < p + j
    BY <1>2, <2>1
  <2> QED BY <1>1, <2>2, <2>3
<1> QED BY <1>9, <1>10, <1>11, <1>12 DEF a, b, k

(* Two index pages as one, with the separator between them.                *)
LEMMA JoinSpans ==
    ASSUME NEW s1, NEW L1, NEW a, Rising(s1), Spans(s1, L1, a),
           NEW s2, NEW L2, NEW b, Rising(s2), Spans(s2, L2, b), Meet(a, b),
           NEW s, NEW L, NEW p, CutAt(s, L, p, s1, L1, s2, L2), s[p].key = a.hi
    PROVE  Spans(s, L, Join(a, b)) /\ Rising(s)
<1> DEFINE e == s[p]
           q == Len(s2)
           n == Len(s)
           v == Join(a, b)
<1>0. s \in Seq(Ent) /\ s1 \in Seq(Ent) /\ s2 \in Seq(Ent) /\ p \in 1 .. n
      /\ Len(s1) = p - 1 /\ q = n - p
  BY DEF CutAt
<1>1. p \in Nat /\ 1 =< p /\ q \in Nat /\ n = p + q /\ Len(s1) = p - 1
  BY <1>0, LenProperties
<1>2. /\ \A i \in 1 .. p - 1 : s[i] = s1[i]
      /\ s[p] = e /\ \A i \in 1 .. q : s[p + i] = s2[i]
  BY <1>0 DEF CutAt
<1>20. (\A i \in 1 .. p : L[i] = L1[i]) /\ \A i \in 1 .. q + 1 : L[p + i] = L2[i]
  BY <1>0 DEF CutAt
<1>3. /\ a.h > 1 /\ \A i \in 1 .. p - 1 : a.lo < s1[i].key /\ Before(s1[i].key, a.hi)
      /\ \A i \in 1 .. p : L1[i] \in Label /\ L1[i].h = a.h - 1
      /\ L1[1].lo = a.lo /\ L1[p].hi = a.hi
      /\ \A i \in 1 .. p - 1 : L1[i].hi = s1[i].key /\ L1[i + 1].lo = s1[i].key
      /\ \A x : x \in a.c <=> \E i \in 1 .. p : x \in L1[i].c
  BY <1>1 DEF Spans
<1>4. /\ b.h > 1 /\ \A i \in 1 .. q : b.lo < s2[i].key /\ Before(s2[i].key, b.hi)
      /\ \A i \in 1 .. q + 1 : L2[i] \in Label /\ L2[i].h = b.h - 1
      /\ L2[1].lo = b.lo /\ L2[q + 1].hi = b.hi
      /\ \A i \in 1 .. q : L2[i].hi = s2[i].key /\ L2[i + 1].lo = s2[i].key
      /\ \A x : x \in b.c <=> \E i \in 1 .. q + 1 : x \in L2[i].c
  BY DEF Spans
<1>5. /\ a \in Label /\ b \in Label /\ a.h = b.h /\ a.hi = b.lo /\ a.hi = e.key
      /\ e.key \in Nat /\ a.lo < e.key /\ Before(e.key, b.hi) /\ a.lo \in Nat /\ b.hi \in Nat \cup {-1}
  <2>1. a.hi \in Nat /\ a.lo < a.hi /\ Before(a.hi, b.hi)
    BY JoinLabel
  <2>2. a \in Label /\ b \in Label /\ a.h = b.h /\ a.hi = b.lo
    BY DEF Meet
  <2> QED BY <2>1, <2>2, LabelIs
<1>6. v.h = a.h /\ v.lo = a.lo /\ v.hi = b.hi /\ \A x : x \in v.c <=> x \in a.c \/ x \in b.c
  BY DEF Join
<1>7. (\A i \in 1 .. p - 1 : s1[i].key \in Nat) /\ \A i \in 1 .. q : s2[i].key \in Nat
  <2>1. (\A i \in 1 .. p - 1 : s1[i] \in Ent) /\ \A i \in 1 .. q : s2[i] \in Ent
    BY <1>0, ElementOfSeq
  <2> QED BY <2>1 DEF Ent
<1>8. (\A i, j \in 1 .. p - 1 : i < j => s1[i].key < s1[j].key)
      /\ \A i, j \in 1 .. q : i < j => s2[i].key < s2[j].key
  BY <1>1 DEF Rising
<1> HIDE DEF q, n, v, e
<1>9. \A i \in 1 .. n : i < p => i \in 1 .. p - 1 /\ i \in 1 .. p /\ i + 1 \in 1 .. p
  BY <1>1
<1>10. \A i \in 1 .. n : i > p => i - p \in 1 .. q /\ i - p \in 1 .. q + 1 /\ i - p + 1 \in 1 .. q + 1
                                  /\ p + (i - p) = i /\ p + (i - p + 1) = i + 1
  BY <1>1
<1>11. \A i \in 1 .. n + 1 : i \in 1 .. p \/ (i - p \in 1 .. q + 1 /\ p + (i - p) = i)
  BY <1>1
<1>12. \A i \in 1 .. n : i < p => s[i] = s1[i] /\ a.lo < s[i].key /\ s[i].key < e.key /\ s[i].key \in Nat
  BY <1>2, <1>3, <1>5, <1>7, <1>9 DEF Before
<1>13. \A i \in 1 .. n : i > p => s[i] = s2[i - p] /\ e.key < s[i].key /\ Before(s[i].key, b.hi)
                                  /\ s[i].key \in Nat
  BY <1>2, <1>4, <1>5, <1>7, <1>10
<1>14. \A i \in 1 .. n : i < p \/ i = p \/ i > p
  BY <1>1
<1>15. \A i \in 1 .. n : a.lo < s[i].key /\ Before(s[i].key, b.hi)
  <2> TAKE i \in 1 .. n
  <2>1. CASE i < p
    BY <1>5, <1>12, <2>1 DEF Before
  <2>2. CASE i = p
    BY <1>2, <1>5, <2>2
  <2>3. CASE i > p
    BY <1>5, <1>13, <2>3
  <2> QED BY <1>14, <2>1, <2>2, <2>3
<1>16. \A i \in 1 .. n + 1 : L[i] \in Label /\ L[i].h = a.h - 1
  <2> TAKE i \in 1 .. n + 1
  <2>1. CASE i \in 1 .. p
    BY <1>3, <1>20, <2>1
  <2>2. CASE i - p \in 1 .. q + 1 /\ p + (i - p) = i
    <3>1. L[i] = L2[i - p]
      BY <1>20, <2>2
    <3> QED BY <1>4, <1>5, <2>2, <3>1
  <2> QED BY <1>11, <2>1, <2>2
<1>17. L[1].lo = a.lo /\ L[n + 1].hi = b.hi
  <2>1. 1 \in 1 .. p /\ q + 1 \in 1 .. q + 1 /\ p + (q + 1) = n + 1
    BY <1>1
  <2> QED BY <1>3, <1>4, <1>20, <2>1
<1>18. \A i \in 1 .. n : L[i].hi = s[i].key /\ L[i + 1].lo = s[i].key
  <2> TAKE i \in 1 .. n
  <2>1. CASE i < p
    BY <1>3, <1>9, <1>12, <1>20, <2>1
  <2>2. CASE i = p
    <3>1. p \in 1 .. p /\ 1 \in 1 .. q + 1
      BY <1>1
    <3> QED BY <1>2, <1>3, <1>4, <1>5, <1>20, <2>2, <3>1
  <2>3. CASE i > p
    <3> DEFINE j == i - p
    <3>1. j \in 1 .. q /\ j \in 1 .. q + 1 /\ j + 1 \in 1 .. q + 1 /\ p + j = i /\ p + (j + 1) = i + 1
      BY <1>10, <2>3
    <3>2. s[i] = s2[j]
      BY <1>13, <2>3
    <3> HIDE DEF j
    <3>3. L[i] = L2[j] /\ L[i + 1] = L2[j + 1]
      <4>1. L[p + j] = L2[j] /\ L[p + (j + 1)] = L2[j + 1]
        BY <1>20, <3>1
      <4> QED BY <3>1, <4>1
    <3> QED BY <1>4, <3>1, <3>2, <3>3
  <2> QED BY <1>14, <2>1, <2>2, <2>3
<1>19. ASSUME NEW x PROVE x \in v.c <=> \E i \in 1 .. n + 1 : x \in L[i].c
  <2>1. ASSUME x \in a.c PROVE \E i \in 1 .. n + 1 : x \in L[i].c
    <3>1. PICK i \in 1 .. p : x \in L1[i].c
      BY <1>3, <2>1
    <3>2. i \in 1 .. n + 1
      BY <1>1
    <3> QED BY <1>20, <3>1, <3>2
  <2>2. ASSUME x \in b.c PROVE \E i \in 1 .. n + 1 : x \in L[i].c
    <3>1. PICK i \in 1 .. q + 1 : x \in L2[i].c
      BY <1>4, <2>2
    <3>2. p + i \in 1 .. n + 1
      BY <1>1
    <3> QED BY <1>20, <3>1, <3>2
  <2>3. ASSUME NEW i \in 1 .. n + 1, x \in L[i].c PROVE x \in a.c \/ x \in b.c
    <3>1. CASE i \in 1 .. p
      BY <1>3, <1>20, <2>3, <3>1
    <3>2. CASE i - p \in 1 .. q + 1 /\ p + (i - p) = i
      <4>1. L[i] = L2[i - p]
        BY <1>20, <3>2
      <4> QED BY <1>4, <2>3, <3>2, <4>1
    <3> QED BY <1>11, <3>1, <3>2
  <2> QED BY <1>6, <2>1, <2>2, <2>3
<1>21. Rising(s)
  <2> SUFFICES ASSUME NEW i \in 1 .. n, NEW j \in 1 .. n, i < j PROVE s[i].key < s[j].key
    BY DEF Rising, n
  <2>1. CASE i < p
    <3>1. CASE j < p
      <4>1. s1[i].key < s1[j].key
        BY <1>8, <1>9, <2>1, <3>1
      <4> QED BY <1>12, <2>1, <3>1, <4>1
    <3>2. CASE j = p
      BY <1>2, <1>12, <2>1, <3>2
    <3>3. CASE j > p
      <4> DEFINE x == s[i].key
                 y == s[j].key
      <4>1. x \in Nat /\ y \in Nat /\ x < e.key /\ e.key < y
        BY <1>12, <1>13, <2>1, <3>3
      <4> HIDE DEF x, y
      <4>2. x < y
        BY <1>5, <4>1
      <4> QED BY <4>2 DEF x, y
    <3> QED BY <1>14, <3>1, <3>2, <3>3
  <2>2. CASE i = p
    <3>1. j > p
      BY <2>2
    <3> QED BY <1>2, <1>13, <2>2, <3>1
  <2>3. CASE i > p
    <3>1. j > p /\ i - p < j - p
      BY <1>1, <2>3
    <3>2. s2[i - p].key < s2[j - p].key
      BY <1>8, <1>10, <2>3, <3>1
    <3> QED BY <1>13, <2>3, <3>1, <3>2
  <2> QED BY <1>14, <2>1, <2>2, <2>3
<1>22. v.h > 1
  BY <1>3, <1>6
<1> QED BY <1>6, <1>15, <1>16, <1>17, <1>18, <1>19, <1>21, <1>22 DEF Spans, n, v

(* Two neighbouring children become one.                                   *)
LEMMA MergeSpans ==
    ASSUME NEW s, NEW L, NEW v \in Label, Rising(s), Spans(s, L, v),
           NEW j, NEW t, NEW M, Without(s, L, j, t, M), M[j] = Join(L[j], L[j + 1])
    PROVE  Spans(t, M, v) /\ Rising(t)
<1> DEFINE n == Len(s)
           w == Join(L[j], L[j + 1])
<1>0. s \in Seq(Ent) /\ j \in 1 .. n
  BY DEF Without
<1> USE <1>0
<1>1. /\ n \in Nat /\ \A i \in 1 .. n : s[i] \in Ent /\ s[i].key \in Nat
      /\ \A i, k \in 1 .. n : i < k => s[i].key < s[k].key
      /\ \A i \in 1 .. n : Meet(L[i], L[i + 1])
  BY SpansIs
<1>2. j \in Nat /\ 1 =< j /\ j =< n
  BY <1>1
<1>3. /\ v.h > 1 /\ \A i \in 1 .. n : v.lo < s[i].key /\ Before(s[i].key, v.hi)
      /\ \A i \in 1 .. n + 1 : L[i] \in Label /\ L[i].h = v.h - 1
      /\ L[1].lo = v.lo /\ L[n + 1].hi = v.hi
      /\ \A i \in 1 .. n : L[i].hi = s[i].key /\ L[i + 1].lo = s[i].key
      /\ \A e : e \in v.c <=> \E i \in 1 .. n + 1 : e \in L[i].c
  BY DEF Spans
<1>4. w \in Label /\ w.h = v.h - 1 /\ w.lo = L[j].lo /\ w.hi = L[j + 1].hi
      /\ \A e : e \in w.c <=> e \in L[j].c \/ e \in L[j + 1].c
  <2>1. w \in Label
    BY <1>1, JoinLabel
  <2>2. j \in 1 .. n + 1
    BY <1>1, <1>2
  <2> QED BY <1>3, <2>1, <2>2 DEF Join
<1>5. /\ \A i \in 1 .. n - 1 : t[i] = IF i < j THEN s[i] ELSE s[i + 1]
      /\ \A i \in 1 .. n : M[i] = IF i = j THEN w ELSE IF i < j THEN L[i] ELSE L[i + 1]
      /\ Len(t) = n - 1
  BY DEF Without
<1> HIDE DEF n, w
<1>6. \A i \in 1 .. n - 1 : i \in 1 .. n /\ i + 1 \in 1 .. n
  BY <1>1
<1>7. \A i \in 1 .. n : i \in 1 .. n + 1 /\ i + 1 \in 1 .. n + 1
  BY <1>1
<1>8. \A i \in 1 .. n - 1 : v.lo < t[i].key /\ Before(t[i].key, v.hi)
  BY <1>3, <1>5, <1>6
<1>9. \A i \in 1 .. n : M[i] \in Label /\ M[i].h = v.h - 1
  BY <1>3, <1>4, <1>5, <1>7
<1>10. M[1].lo = v.lo /\ M[n].hi = v.hi
  <2>1. 1 \in 1 .. n /\ n \in 1 .. n
    BY <1>1, <1>2
  <2>2. (1 < j \/ 1 = j) /\ ~(n < j)
    BY <1>1, <1>2
  <2> QED BY <1>3, <1>4, <1>5, <2>1, <2>2
<1>11. \A i \in 1 .. n - 1 : M[i].hi = t[i].key /\ M[i + 1].lo = t[i].key
  <2> TAKE i \in 1 .. n - 1
  <2>1. i < j \/ i = j \/ i > j
    BY <1>1, <1>2
  <2>2. i \in 1 .. n /\ i + 1 \in 1 .. n
    BY <1>6
  <2>3. CASE i < j
    <3>1. t[i] = s[i] /\ M[i] = L[i] /\ M[i].hi = s[i].key
      BY <1>3, <1>5, <2>2, <2>3
    <3>2. CASE i + 1 < j
      BY <1>3, <1>5, <2>2, <3>1, <3>2
    <3>3. CASE i + 1 = j
      <4>1. M[i + 1] = w
        BY <1>2, <1>5, <2>2, <3>3
      <4> QED BY <1>3, <1>4, <2>2, <3>1, <3>3, <4>1
    <3>4. i + 1 < j \/ i + 1 = j
      BY <1>2, <2>2, <2>3
    <3> QED BY <3>2, <3>3, <3>4
  <2>4. CASE i = j
    <3>1. ~(i < j) /\ ~(i + 1 < j) /\ i + 1 # j
      BY <1>2, <2>4
    <3>2. t[i] = s[i + 1] /\ M[i] = w /\ M[i + 1] = L[i + 1 + 1]
      BY <1>5, <2>2, <2>4, <3>1
    <3> QED BY <1>3, <1>4, <2>2, <2>4, <3>2
  <2>5. CASE i > j
    <3>1. ~(i < j) /\ ~(i + 1 < j) /\ i + 1 # j /\ i # j
      BY <1>1, <1>2, <2>5
    <3>2. t[i] = s[i + 1] /\ M[i] = L[i + 1] /\ M[i + 1] = L[i + 1 + 1]
      BY <1>5, <2>2, <3>1
    <3> QED BY <1>3, <2>2, <3>2
  <2> QED BY <2>1, <2>3, <2>4, <2>5
<1>12. ASSUME NEW e PROVE e \in v.c <=> \E i \in 1 .. n : e \in M[i].c
  <2>1. ASSUME NEW i \in 1 .. n, e \in M[i].c PROVE e \in v.c
    <3>1. i \in 1 .. n + 1 /\ i + 1 \in 1 .. n + 1
      BY <1>7
    <3>2. j \in 1 .. n + 1 /\ j + 1 \in 1 .. n + 1
      BY <1>1, <1>2
    <3>3. M[i] = L[i] \/ M[i] = w \/ M[i] = L[i + 1]
      BY <1>5
    <3> QED BY <1>3, <1>4, <2>1, <3>1, <3>2, <3>3
  <2>2. ASSUME e \in v.c PROVE \E i \in 1 .. n : e \in M[i].c
    <3>1. PICK i \in 1 .. n + 1 : e \in L[i].c
      BY <1>3, <2>2
    <3>2. CASE i < j
      <4>1. i \in 1 .. n
        BY <1>1, <1>2, <3>2
      <4> QED BY <1>5, <3>1, <3>2, <4>1
    <3>3. CASE i = j \/ i = j + 1
      <4>1. j \in 1 .. n /\ ~(j < j) /\ M[j] = w
        BY <1>2, <1>5
      <4> QED BY <1>4, <3>1, <3>3, <4>1
    <3>4. CASE i > j + 1
      <4> DEFINE k == i - 1
      <4>1. k \in 1 .. n /\ ~(k < j) /\ k # j /\ k + 1 = i
        BY <1>1, <1>2, <3>4
      <4> HIDE DEF k
      <4>2. M[k] = L[k + 1]
        BY <1>5, <4>1
      <4> QED BY <3>1, <4>1, <4>2
    <3>5. i < j \/ i = j \/ i = j + 1 \/ i > j + 1
      BY <1>1, <1>2
    <3> QED BY <3>2, <3>3, <3>4, <3>5
  <2> QED BY <2>1, <2>2
<1>13. Rising(t)
  <2> SUFFICES ASSUME NEW i \in 1 .. n - 1, NEW k \in 1 .. n - 1, i < k PROVE t[i].key < t[k].key
    BY <1>5 DEF Rising
  <2>1. i \in 1 .. n /\ k \in 1 .. n /\ i + 1 \in 1 .. n /\ k + 1 \in 1 .. n
    BY <1>6
  <2>2. i < k /\ i < k + 1 /\ i + 1 < k + 1 /\ (k < j => i < j)
    BY <1>2, <2>1
  <2> QED BY <1>1, <1>5, <2>1, <2>2
<1>14. Len(t) + 1 = n
  BY <1>1, <1>5
<1> QED BY <1>3, <1>5, <1>8, <1>9, <1>10, <1>11, <1>12, <1>13, <1>14 DEF Spans

(* One child becomes two.                                                  *)
LEMMA SplitSpans ==
    ASSUME NEW s, NEW L, NEW v \in Label, Rising(s), Spans(s, L, v),
           NEW j, NEW t, NEW M, Without(t, M, j, s, L),
           L[j].lo < t[j].key, Before(t[j].key, L[j].hi),
           M[j] = Under(L[j], t[j].key), M[j + 1] = From(L[j], t[j].key)
    PROVE  Spans(t, M, v) /\ Rising(t)
<1> DEFINE n == Len(s)
           e == t[j]
           k == e.key
           a == Under(L[j], k)
           b == From(L[j], k)
<1>0. s \in Seq(Ent) /\ t \in Seq(Ent) /\ j \in 1 .. n + 1 /\ Len(t) = n + 1 /\ e \in Ent
  <2>1. s \in Seq(Ent) /\ t \in Seq(Ent) /\ j \in 1 .. Len(t) /\ n = Len(t) - 1
    BY DEF Without
  <2>2. Len(t) = n + 1
    BY <2>1, LenProperties
  <2> QED BY <2>1, <2>2, ElementOfSeq
<1> USE <1>0
<1>1. /\ n \in Nat /\ \A i \in 1 .. n : s[i] \in Ent /\ s[i].key \in Nat
      /\ \A i, m \in 1 .. n : i < m => s[i].key < s[m].key
  BY SpansIs
<1>2. j \in Nat /\ 1 =< j /\ j =< n + 1 /\ k \in Nat
  BY <1>1 DEF Ent
<1>3. /\ v.h > 1 /\ \A i \in 1 .. n : v.lo < s[i].key /\ Before(s[i].key, v.hi)
      /\ \A i \in 1 .. n + 1 : L[i] \in Label /\ L[i].h = v.h - 1
      /\ L[1].lo = v.lo /\ L[n + 1].hi = v.hi
      /\ \A i \in 1 .. n : L[i].hi = s[i].key /\ L[i + 1].lo = s[i].key
      /\ \A x : x \in v.c <=> \E i \in 1 .. n + 1 : x \in L[i].c
  BY DEF Spans
<1>4. /\ a \in Label /\ b \in Label /\ a.h = v.h - 1 /\ b.h = v.h - 1
      /\ a.lo = L[j].lo /\ a.hi = k /\ b.lo = k /\ b.hi = L[j].hi
      /\ \A x : x \in a.c <=> x \in L[j].c /\ x.key < k
      /\ \A x : x \in b.c <=> x \in L[j].c /\ k =< x.key
      /\ \A x : x \in L[j].c => x.key \in Nat
  <2>0. L[j] \in Label /\ L[j].h = v.h - 1
    BY <1>3
  <2>1. a \in Label /\ b \in Label
    BY <1>2, <2>0, CutLabel
  <2>2. \A x : x \in L[j].c => x.key \in Nat
    BY <2>0, LabelIs
  <2> QED BY <2>0, <2>1, <2>2 DEF Under, From
<1>5. /\ \A i \in 1 .. n : s[i] = IF i < j THEN t[i] ELSE t[i + 1]
      /\ \A i \in 1 .. n + 1 : i # j => L[i] = IF i < j THEN M[i] ELSE M[i + 1]
      /\ Len(t) = n + 1
  BY DEF Without
<1>6. /\ \A i \in 1 .. n : i < j => s[i].key < k
      /\ \A i \in 1 .. n : i >= j => k < s[i].key
      /\ v.lo < k /\ Before(k, v.hi)
  <2>0. L[j].lo < k /\ Before(k, L[j].hi) /\ L[j].lo \in Nat /\ L[j].hi \in Nat \cup {-1} /\ v.lo \in Nat
    BY <1>3, LabelIs
  <2> HIDE DEF n, k
  <2>1. \A i \in 1 .. n : i < j => s[i].key < k
    <3> SUFFICES ASSUME NEW i \in 1 .. n, i < j PROVE s[i].key < k
      OBVIOUS
    <3> DEFINE m == j - 1
               x == s[i].key
               y == s[m].key
    <3>1. m \in 1 .. n /\ m + 1 = j /\ (i < m \/ i = m)
      BY <1>1, <1>2
    <3>2. y = L[j].lo
      BY <1>3, <3>1
    <3>3. x \in Nat /\ y \in Nat /\ (i < m => x < y) /\ (i = m => x = y)
      BY <1>1, <3>1
    <3> HIDE DEF m, x, y
    <3>4. x < k
      BY <1>2, <2>0, <3>1, <3>2, <3>3
    <3> QED BY <3>4 DEF x
  <2>2. \A i \in 1 .. n : i >= j => k < s[i].key
    <3> SUFFICES ASSUME NEW i \in 1 .. n, i >= j PROVE k < s[i].key
      OBVIOUS
    <3> DEFINE x == s[i].key
               y == s[j].key
    <3>1. j \in 1 .. n /\ (j < i \/ i = j)
      BY <1>1, <1>2
    <3>2. y = L[j].hi
      BY <1>3, <3>1
    <3>3. x \in Nat /\ y \in Nat /\ (j < i => y < x) /\ (i = j => x = y)
      BY <1>1, <3>1
    <3> HIDE DEF x, y
    <3>4. k < x
      BY <1>2, <2>0, <3>1, <3>2, <3>3 DEF Before
    <3> QED BY <3>4 DEF x
  <2>3. v.lo < k
    <3>1. CASE j = 1
      BY <1>3, <2>0, <3>1
    <3>2. CASE j # 1
      <4>1. 1 \in 1 .. n /\ 1 < j
        BY <1>1, <1>2, <3>2
      <4> DEFINE x == s[1].key
      <4>2. x \in Nat /\ v.lo < x /\ x < k
        BY <1>1, <1>3, <2>1, <4>1
      <4> HIDE DEF x
      <4> QED BY <1>2, <2>0, <4>2
    <3> QED BY <3>1, <3>2
  <2>4. Before(k, v.hi)
    <3>1. CASE j = n + 1
      BY <1>3, <2>0, <3>1
    <3>2. CASE j # n + 1
      <4>1. n \in 1 .. n /\ n >= j
        BY <1>1, <1>2, <3>2
      <4> DEFINE x == s[n].key
      <4>2. x \in Nat /\ Before(x, v.hi) /\ k < x /\ v.hi \in Nat \cup {-1}
        BY <1>1, <1>3, <2>2, <4>1, LabelIs
      <4> HIDE DEF x
      <4> QED BY <1>2, <4>2 DEF Before
    <3> QED BY <3>1, <3>2
  <2> QED BY <2>1, <2>2, <2>3, <2>4
<1>50. t[j] = e /\ t[j].key = k /\ M[j] = a /\ M[j + 1] = b
  OBVIOUS
<1> HIDE DEF n, k, a, b, e
<1>7. \A i \in 1 .. n + 1 : i > j => i - 1 \in 1 .. n /\ t[i] = s[i - 1] /\ i - 1 >= j
  <2> SUFFICES ASSUME NEW i \in 1 .. n + 1, i > j PROVE i - 1 \in 1 .. n /\ t[i] = s[i - 1] /\ i - 1 >= j
    OBVIOUS
  <2> DEFINE m == i - 1
  <2>1. m \in 1 .. n /\ ~(m < j) /\ m >= j /\ m + 1 = i
    BY <1>1, <1>2
  <2> HIDE DEF m
  <2>2. t[i] = s[m]
    BY <1>5, <2>1
  <2> QED BY <2>1, <2>2 DEF m
<1>8. \A i \in 1 .. n + 1 : i < j => i \in 1 .. n /\ t[i] = s[i]
  <2> SUFFICES ASSUME NEW i \in 1 .. n + 1, i < j PROVE i \in 1 .. n /\ t[i] = s[i]
    OBVIOUS
  <2>1. i \in 1 .. n
    BY <1>1, <1>2
  <2> QED BY <1>5, <2>1
<1>9. \A i \in 1 .. n + 1 : i < j \/ i = j \/ i > j
  BY <1>1, <1>2
<1>10. \A i \in 1 .. n + 1 : v.lo < t[i].key /\ Before(t[i].key, v.hi)
  <2> TAKE i \in 1 .. n + 1
  <2>1. CASE i < j
    BY <1>3, <1>8, <2>1
  <2>2. CASE i = j
    BY <1>6, <1>50, <2>2
  <2>3. CASE i > j
    BY <1>3, <1>7, <2>3
  <2> QED BY <1>9, <2>1, <2>2, <2>3
<1>11. \A i \in 1 .. n + 2 : i > j + 1 => i - 1 \in 1 .. n + 1 /\ M[i] = L[i - 1]
  <2> SUFFICES ASSUME NEW i \in 1 .. n + 2, i > j + 1 PROVE i - 1 \in 1 .. n + 1 /\ M[i] = L[i - 1]
    OBVIOUS
  <2> DEFINE m == i - 1
  <2>1. m \in 1 .. n + 1 /\ ~(m < j) /\ m # j /\ m + 1 = i
    BY <1>1, <1>2
  <2> HIDE DEF m
  <2>2. M[i] = L[m]
    BY <1>5, <2>1
  <2> QED BY <2>1, <2>2 DEF m
<1>12. \A i \in 1 .. n + 2 : i < j => i \in 1 .. n + 1 /\ M[i] = L[i]
  <2> SUFFICES ASSUME NEW i \in 1 .. n + 2, i < j PROVE i \in 1 .. n + 1 /\ M[i] = L[i]
    OBVIOUS
  <2>1. i \in 1 .. n + 1 /\ i # j
    BY <1>1, <1>2
  <2> QED BY <1>5, <2>1
<1>13. \A i \in 1 .. n + 2 : i < j \/ i = j \/ i = j + 1 \/ i > j + 1
  BY <1>1, <1>2
<1>14. \A i \in 1 .. n + 2 : M[i] \in Label /\ M[i].h = v.h - 1
  BY <1>3, <1>4, <1>11, <1>12, <1>13, <1>50
<1>15. M[1].lo = v.lo /\ M[n + 2].hi = v.hi
  <2>1. M[1].lo = v.lo
    <3>1. 1 \in 1 .. n + 2 /\ (1 < j \/ j = 1)
      BY <1>1, <1>2
    <3> QED BY <1>3, <1>4, <1>12, <1>50, <3>1
  <2>2. M[n + 2].hi = v.hi
    <3>1. n + 2 \in 1 .. n + 2 /\ (n + 2 > j + 1 \/ (n + 2 = j + 1 /\ j = n + 1)) /\ n + 2 - 1 = n + 1
      BY <1>1, <1>2
    <3>2. n + 2 > j + 1 => M[n + 2] = L[n + 1]
      <4> DEFINE m == n + 2
      <4>1. m \in 1 .. n + 2 /\ m - 1 = n + 1
        BY <1>1
      <4> HIDE DEF m
      <4>2. m > j + 1 => M[m] = L[m - 1]
        BY <1>11, <4>1
      <4> QED BY <4>1, <4>2 DEF m
    <3>3. n + 2 = j + 1 => M[n + 2] = b
      BY <1>50
    <3> QED BY <1>3, <1>4, <3>1, <3>2, <3>3
  <2> QED BY <2>1, <2>2
<1>16. \A i \in 1 .. n + 1 : M[i].hi = t[i].key /\ M[i + 1].lo = t[i].key
  <2> TAKE i \in 1 .. n + 1
  <2>0. i \in 1 .. n + 2 /\ i + 1 \in 1 .. n + 2 /\ i + 1 - 1 = i
    BY <1>1
  <2>1. CASE i < j
    <3>1. i \in 1 .. n /\ t[i] = s[i] /\ M[i] = L[i] /\ (i + 1 < j \/ i + 1 = j)
      BY <1>2, <1>8, <1>12, <2>0, <2>1
    <3>2. L[i].hi = s[i].key /\ L[i + 1].lo = s[i].key
      BY <1>3, <3>1
    <3>3. CASE i + 1 < j
      <4>1. M[i + 1] = L[i + 1]
        BY <1>12, <2>0, <3>3
      <4> QED BY <3>1, <3>2, <4>1
    <3>4. CASE i + 1 = j
      BY <1>4, <1>50, <3>1, <3>2, <3>4
    <3> QED BY <3>1, <3>3, <3>4
  <2>2. CASE i = j
    BY <1>4, <1>50, <2>2
  <2>3. CASE i > j
    <3> DEFINE m == i - 1
    <3>1. m \in 1 .. n /\ m + 1 = i /\ t[i] = s[m]
      BY <1>1, <1>7, <2>3
    <3>2. L[m].hi = s[m].key /\ L[m + 1].lo = s[m].key
      BY <1>3, <3>1
    <3>3. M[i + 1] = L[i]
      <4>1. i + 1 > j + 1
        BY <1>1, <1>2, <2>3
      <4> QED BY <1>11, <2>0, <4>1
    <3>4. M[i].hi = L[m].hi
      <4>1. CASE i = j + 1
        <5>1. m = j
          BY <1>2, <4>1
        <5> QED BY <1>4, <1>50, <4>1, <5>1
      <4>2. CASE i # j + 1
        <5>1. i > j + 1
          BY <1>1, <1>2, <2>3, <4>2
        <5> QED BY <1>11, <2>0, <5>1
      <4> QED BY <4>1, <4>2
    <3> HIDE DEF m
    <3> QED BY <3>1, <3>2, <3>3, <3>4
  <2> QED BY <1>9, <2>1, <2>2, <2>3
<1>17. ASSUME NEW x PROVE x \in v.c <=> \E i \in 1 .. n + 2 : x \in M[i].c
  <2>1. ASSUME NEW i \in 1 .. n + 2, x \in M[i].c PROVE x \in v.c
    <3>1. CASE i < j
      BY <1>3, <1>12, <2>1, <3>1
    <3>2. CASE i = j \/ i = j + 1
      <4>1. x \in L[j].c
        <5>1. CASE i = j
          BY <1>4, <1>50, <2>1, <5>1
        <5>2. CASE i = j + 1
          BY <1>4, <1>50, <2>1, <5>2
        <5> QED BY <3>2, <5>1, <5>2
      <4>2. j \in 1 .. n + 1
        BY <1>1, <1>2
      <4> QED BY <1>3, <4>1, <4>2
    <3>3. CASE i > j + 1
      BY <1>3, <1>11, <2>1, <3>3
    <3> QED BY <1>13, <3>1, <3>2, <3>3
  <2>2. ASSUME x \in v.c PROVE \E i \in 1 .. n + 2 : x \in M[i].c
    <3>1. PICK i \in 1 .. n + 1 : x \in L[i].c
      BY <1>3, <2>2
    <3>0. i \in 1 .. n + 2 /\ i + 1 \in 1 .. n + 2 /\ j \in 1 .. n + 2 /\ j + 1 \in 1 .. n + 2
          /\ i + 1 - 1 = i
      BY <1>1, <1>2
    <3>2. CASE i < j
      BY <1>12, <3>0, <3>1, <3>2
    <3>3. CASE i = j
      <4>1. x.key < k \/ k =< x.key
        BY <1>2, <1>4, <3>1, <3>3
      <4> QED BY <1>4, <1>50, <3>0, <3>1, <3>3, <4>1
    <3>4. CASE i > j
      <4>1. i + 1 > j + 1
        BY <1>1, <1>2, <3>4
      <4>2. M[i + 1] = L[i]
        BY <1>11, <3>0, <4>1
      <4> QED BY <3>0, <3>1, <4>2
    <3> QED BY <1>9, <3>2, <3>3, <3>4
  <2> QED BY <2>1, <2>2
<1>18. Rising(t)
  <2> SUFFICES ASSUME NEW i \in 1 .. n + 1, NEW m \in 1 .. n + 1, i < m PROVE t[i].key < t[m].key
    BY <1>5 DEF Rising
  <2>1. CASE i < j
    <3>1. i \in 1 .. n /\ t[i] = s[i]
      BY <1>8, <2>1
    <3>2. CASE m < j
      BY <1>1, <1>8, <3>1, <3>2
    <3>3. CASE m = j
      BY <1>6, <1>50, <2>1, <3>1, <3>3
    <3>4. CASE m > j
      <4> DEFINE x == s[i].key
                 y == s[m - 1].key
      <4>1. x \in Nat /\ y \in Nat /\ x < k /\ k < y /\ t[m].key = y
        BY <1>1, <1>6, <1>7, <2>1, <3>1, <3>4
      <4>2. t[i].key = x
        BY <3>1
      <4> HIDE DEF x, y
      <4> QED BY <1>2, <4>1, <4>2
    <3> QED BY <1>9, <3>2, <3>3, <3>4
  <2>2. CASE i = j
    BY <1>6, <1>7, <1>50, <2>2
  <2>3. CASE i > j
    <3>1. m > j /\ i - 1 < m - 1
      BY <1>1, <1>2, <2>3
    <3> QED BY <1>1, <1>7, <2>3, <3>1
  <2> QED BY <1>9, <2>1, <2>2, <2>3
<1>19. Len(t) + 1 = n + 2
  BY <1>1, <1>5
<1> QED BY <1>3, <1>5, <1>10, <1>14, <1>15, <1>16, <1>17, <1>18, <1>19 DEF Spans

(* Two neighbouring children share their records anew, at key e.key.       *)
LEMMA ShareSpans ==
    ASSUME NEW s, NEW L, NEW v \in Label, Rising(s), Spans(s, L, v),
           NEW j, NEW t, NEW M, Besides(s, L, j, t, M),
           L[j].lo < t[j].key, Before(t[j].key, L[j + 1].hi),
           M[j] = Under(Join(L[j], L[j + 1]), t[j].key),
           M[j + 1] = From(Join(L[j], L[j + 1]), t[j].key)
    PROVE  Spans(t, M, v) /\ Rising(t)
<1> DEFINE n == Len(s)
           w == Join(L[j], L[j + 1])
           u == RemoveAt(s, j)
           N == [i \in 1 .. n |-> IF i < j THEN L[i] ELSE IF i = j THEN w ELSE L[i + 1]]
<1>1. /\ s \in Seq(Ent) /\ t \in Seq(Ent) /\ Len(t) = n
      /\ \A i \in 1 .. n : i # j => t[i] = s[i]
      /\ \A i \in 1 .. n + 1 : i # j /\ i # j + 1 => M[i] = L[i]
      /\ j \in 1 .. n
  BY DEF Besides
<1>2. n \in Nat /\ j \in Nat /\ 1 =< j /\ j =< n
  BY <1>1, LenProperties
<1>3. u \in Seq(Ent) /\ Len(u) = n - 1 /\ \A i \in 1 .. n - 1 : u[i] = IF i < j THEN s[i] ELSE s[i + 1]
  BY <1>1, RemoveAtIs
<1>4. \A i \in 1 .. n : N[i] = IF i < j THEN L[i] ELSE IF i = j THEN w ELSE L[i + 1]
  OBVIOUS
<1>5. w.lo = L[j].lo /\ w.hi = L[j + 1].hi
  BY DEF Join
<1> HIDE DEF u, N, n
<1>6. N[j] = w
  <2>1. j \in 1 .. n /\ ~(j < j)
    BY <1>2
  <2> QED BY <1>4, <2>1
<1>7. Without(s, L, j, u, N)
  BY <1>1, <1>3, <1>4 DEF Without, n
<1>8. Spans(u, N, v) /\ Rising(u)
  BY <1>6, <1>7, MergeSpans DEF w
<1>9. \A i \in 1 .. n - 1 : u[i] = IF i < j THEN t[i] ELSE t[i + 1]
  <2>1. \A i \in 1 .. n - 1 : i \in 1 .. n /\ i + 1 \in 1 .. n /\ (i < j => i # j) /\ (~(i < j) => i + 1 # j)
    BY <1>2
  <2> QED BY <1>1, <1>3, <2>1
<1>10. \A i \in 1 .. n : i # j => N[i] = IF i < j THEN M[i] ELSE M[i + 1]
  <2>1. \A i \in 1 .. n : i # j => /\ i \in 1 .. n + 1 /\ i + 1 \in 1 .. n + 1
                                   /\ (i < j => i # j + 1) /\ (~(i < j) => i + 1 # j /\ i + 1 # j + 1)
    BY <1>2
  <2> QED BY <1>1, <1>4, <2>1
<1>11. Without(t, M, j, u, N)
  BY <1>1, <1>3, <1>9, <1>10 DEF Without
<1> QED BY <1>5, <1>6, <1>8, <1>11, SplitSpans DEF w

(* A label with the record of key o.key put, or deleted when o.size is 0.  *)
Upd(v, o) ==
    [v EXCEPT !.c = {e \in v.c : e.key # o.key} \cup (IF o.size = 0 THEN {} ELSE {o})]

LEMMA UpdLabel ==
    ASSUME NEW v \in Label, NEW o, o.key \in Nat, o.size # 0 => o \in Ent, Within(v, o.key)
    PROVE  /\ Upd(v, o) \in Label /\ Upd(v, o).h = v.h /\ Upd(v, o).lo = v.lo /\ Upd(v, o).hi = v.hi
           /\ \A e : e \in Upd(v, o).c <=> (e \in v.c /\ e.key # o.key) \/ (o.size # 0 /\ e = o)
<1> DEFINE c == {e \in v.c : e.key # o.key} \cup (IF o.size = 0 THEN {} ELSE {o})
           u == Upd(v, o)
<1>1. \A e : e \in c <=> (e \in v.c /\ e.key # o.key) \/ (o.size # 0 /\ e = o)
  OBVIOUS
<1>2. u = [v EXCEPT !.c = c]
  BY DEF Upd
<1> HIDE DEF c, u
<1>3. u.h = v.h /\ u.lo = v.lo /\ u.hi = v.hi /\ u.c = c
  BY <1>2 DEF Label
<1>4. c \in SUBSET Ent
  BY <1>1, LabelIs
<1>5. \A e \in c : Within(v, e.key)
  BY <1>1 DEF Label
<1>6. u \in [h : Nat \ {0}, lo : Nat, hi : Nat \cup {-1}, c : SUBSET Ent]
  BY <1>2, <1>4 DEF Label
<1>7. Before(u.lo, u.hi) /\ \A e \in u.c : Within(u, e.key)
  BY <1>3, <1>5, LabelIs DEF Within
<1>8. u \in Label
  BY <1>6, <1>7 DEF Label
<1> QED BY <1>1, <1>3, <1>8 DEF u

(* The record of key o.key changes in child j.                             *)
LEMMA UpdSpans ==
    ASSUME NEW s \in Seq(Ent), Rising(s), NEW L, NEW v \in Label, Spans(s, L, v),
           NEW o, o.key \in Nat, o.size # 0 => o \in Ent, Within(v, o.key),
           NEW j \in 1 .. Len(s) + 1, Within(L[j], o.key),
           NEW M, \A i \in 1 .. Len(s) + 1 : M[i] = IF i = j THEN Upd(L[j], o) ELSE L[i]
    PROVE  Spans(s, M, Upd(v, o))
<1> DEFINE n == Len(s)
           k == o.key
           a == Upd(L[j], o)
           u == Upd(v, o)
<1>1. /\ n \in Nat /\ \A i \in 1 .. n : s[i].key \in Nat
      /\ \A p \in 1 .. n : \A i \in 1 .. n + 1 : \A e \in L[i].c :
           e.key \in Nat /\ (i =< p => e.key < s[p].key) /\ (i > p => s[p].key =< e.key)
  BY SpansIs
<1>2. /\ v.h > 1 /\ \A i \in 1 .. n : v.lo < s[i].key /\ Before(s[i].key, v.hi)
      /\ \A i \in 1 .. n + 1 : L[i] \in Label /\ L[i].h = v.h - 1
      /\ L[1].lo = v.lo /\ L[n + 1].hi = v.hi
      /\ \A i \in 1 .. n : L[i].hi = s[i].key /\ L[i + 1].lo = s[i].key
      /\ \A e : e \in v.c <=> \E i \in 1 .. n + 1 : e \in L[i].c
  BY DEF Spans
<1>3. /\ a \in Label /\ a.h = L[j].h /\ a.lo = L[j].lo /\ a.hi = L[j].hi
      /\ \A e : e \in a.c <=> (e \in L[j].c /\ e.key # k) \/ (o.size # 0 /\ e = o)
  BY <1>2, UpdLabel
<1>4. /\ u.h = v.h /\ u.lo = v.lo /\ u.hi = v.hi
      /\ \A e : e \in u.c <=> (e \in v.c /\ e.key # k) \/ (o.size # 0 /\ e = o)
  BY UpdLabel
<1>5. \A i \in 1 .. n + 1 : M[i] = IF i = j THEN a ELSE L[i]
  OBVIOUS
<1>6. j \in 1 .. n + 1 /\ L[j].lo =< k /\ Before(k, L[j].hi) /\ k \in Nat
  BY DEF Within
<1> HIDE DEF n, k, a, u
<1>7. ASSUME NEW i \in 1 .. n + 1, i # j, NEW e \in L[i].c PROVE e.key # k
  <2>1. CASE i < j
    <3> DEFINE m == j - 1
               x == s[m].key
    <3>1. m \in 1 .. n /\ i =< m /\ m + 1 = j
      BY <1>1, <1>6, <2>1
    <3>2. e.key < x /\ e.key \in Nat /\ x \in Nat /\ L[m + 1].lo = x
      BY <1>1, <1>2, <3>1
    <3> HIDE DEF m, x
    <3> QED BY <1>6, <3>1, <3>2
  <2>2. CASE i > j
    <3> DEFINE x == s[j].key
    <3>1. j \in 1 .. n
      BY <1>1, <1>6, <2>2
    <3>2. x =< e.key /\ e.key \in Nat /\ x \in Nat /\ L[j].hi = x
      BY <1>1, <1>2, <2>2, <3>1
    <3> HIDE DEF x
    <3>3. k < x
      BY <1>6, <3>2 DEF Before
    <3> QED BY <1>6, <3>2, <3>3
  <2> QED BY <1>1, <1>6, <1>7, <2>1, <2>2
<1>8. \A i \in 1 .. n + 1 : M[i] \in Label /\ M[i].h = u.h - 1 /\ M[i].lo = L[i].lo /\ M[i].hi = L[i].hi
  BY <1>2, <1>3, <1>4, <1>5
<1>9. ASSUME NEW e PROVE e \in u.c <=> \E i \in 1 .. n + 1 : e \in M[i].c
  <2>1. ASSUME NEW i \in 1 .. n + 1, e \in M[i].c PROVE e \in u.c
    <3>1. CASE i = j
      BY <1>2, <1>3, <1>4, <1>5, <2>1, <3>1
    <3>2. CASE i # j
      BY <1>2, <1>4, <1>5, <1>7, <2>1, <3>2
    <3> QED BY <3>1, <3>2
  <2>2. ASSUME e \in v.c, e.key # k PROVE \E i \in 1 .. n + 1 : e \in M[i].c
    <3>1. PICK i \in 1 .. n + 1 : e \in L[i].c
      BY <1>2, <2>2
    <3>2. e \in M[i].c
      BY <1>3, <1>5, <2>2, <3>1
    <3> QED BY <3>2
  <2>3. ASSUME o.size # 0, e = o PROVE \E i \in 1 .. n + 1 : e \in M[i].c
    <3>1. e \in M[j].c
      BY <1>3, <1>5, <1>6, <2>3
    <3> QED BY <1>6, <3>1
  <2> QED BY <1>4, <2>1, <2>2, <2>3
<1>10. M[1].lo = u.lo /\ M[n + 1].hi = u.hi
  <2>1. 1 \in 1 .. n + 1 /\ n + 1 \in 1 .. n + 1
    BY <1>1
  <2> QED BY <1>2, <1>4, <1>8, <2>1
<1>11. \A i \in 1 .. n : M[i].hi = s[i].key /\ M[i + 1].lo = s[i].key
  <2>1. \A i \in 1 .. n : i \in 1 .. n + 1 /\ i + 1 \in 1 .. n + 1
    BY <1>1
  <2> QED BY <1>2, <1>8, <2>1
<1>12. u.h > 1 /\ \A i \in 1 .. n : u.lo < s[i].key /\ Before(s[i].key, u.hi)
  BY <1>2, <1>4
<1> QED BY <1>8, <1>9, <1>10, <1>11, <1>12 DEF Spans, n, u

-----------------------------------------------------------------------------
(* _scanpg(): the entries below a key come first.                          *)
LEMMA BelowIs ==
    ASSUME NEW s \in Seq(Ent), Rising(s), NEW k \in Nat
    PROVE  /\ Below(s, k) \in 0 .. Len(s)
           /\ \A i \in 1 .. Len(s) : s[i].key < k <=> i =< Below(s, k)
<1> DEFINE n == Len(s)
<1>1. n \in Nat /\ DOMAIN s = 1 .. n /\ \A i \in 1 .. n : s[i] \in Ent
  BY ElementOfSeq
<1>2. \A i \in 1 .. n : s[i].key \in Nat
  BY <1>1 DEF Ent
<1>3. \A i, j \in 1 .. n : i < j => s[i].key < s[j].key
  BY DEF Rising
<1> HIDE DEF n
<1> DEFINE S == {i \in 0 .. n : \A j \in 1 .. n : j > i => k =< s[j].key}
<1>4. S \in SUBSET Nat /\ S # {}
  <2>1. n \in S
    BY <1>1
  <2>2. 0 .. n \subseteq Nat
    BY <1>1
  <2> QED  BY <2>1, <2>2
<1>5. PICK m \in S : \A i \in S : m =< i
  BY <1>4, LeastNumber
<1>6. m \in 0 .. n /\ \A j \in 1 .. n : j > m => k =< s[j].key
  BY <1>5
<1>7. ASSUME m > 0
      PROVE  s[m].key < k
  <2>1. m - 1 \notin S /\ m - 1 \in 0 .. n
    BY <1>5, <1>6, <1>7, <1>1
  <2>2. PICK j \in 1 .. n : j > m - 1 /\ ~(k =< s[j].key)
    BY <2>1
  <2>3. j = m
    BY <2>2, <1>6, <1>1
  <2> QED  BY <2>2, <2>3, <1>2
<1>8. \A i \in 1 .. n : s[i].key < k <=> i =< m
  <2> TAKE i \in 1 .. n
  <2>1. CASE i =< m
    <3>1. m > 0 /\ m \in 1 .. n /\ s[m].key < k
      BY <2>1, <1>6, <1>7, <1>1
    <3>2. i = m \/ s[i].key < s[m].key
      BY <2>1, <3>1, <1>3, <1>1
    <3> QED  BY <2>1, <3>1, <3>2, <1>2
  <2>2. CASE ~(i =< m)
    BY <2>2, <1>6, <1>2, <1>1
  <2> QED  BY <2>1, <2>2
<1>9. {i \in DOMAIN s : s[i].key < k} = 1 .. m
  BY <1>8, <1>6, <1>1
<1>10. Below(s, k) = m
  <2>1. Cardinality(1 .. m) = m
    BY <1>6, FS_Interval
  <2> QED  BY <1>9, <2>1 DEF Below
<1> QED  BY <1>10, <1>8, <1>6, <1>1 DEF n

LEMMA ChildIs ==
    ASSUME NEW s \in Seq(Ent), Rising(s), NEW k \in Nat
    PROVE  /\ ChildIndex(s, k) \in 0 .. Len(s)
           /\ \A i \in 1 .. Len(s) : s[i].key =< k <=> i =< ChildIndex(s, k)
           /\ Found(s, k) => /\ Below(s, k) + 1 \in 1 .. Len(s) /\ s[Below(s, k) + 1].key = k
                             /\ ChildIndex(s, k) = Below(s, k) + 1
           /\ ~Found(s, k) => ChildIndex(s, k) = Below(s, k)
<1> DEFINE n == Len(s)
           b == Below(s, k)
<1>1. n \in Nat /\ DOMAIN s = 1 .. n /\ \A i \in 1 .. n : s[i] \in Ent
  BY ElementOfSeq
<1>2. \A i \in 1 .. n : s[i].key \in Nat
  BY <1>1 DEF Ent
<1>3. \A i, j \in 1 .. n : i < j => s[i].key < s[j].key
  BY DEF Rising
<1>4. b \in 0 .. n /\ \A i \in 1 .. n : s[i].key < k <=> i =< b
  BY BelowIs
<1>5. Found(s, k) <=> \E i \in 1 .. n : s[i].key = k
  BY <1>1 DEF Found
<1>6. ChildIndex(s, k) = IF Found(s, k) THEN b + 1 ELSE b
  BY <1>4 DEF ChildIndex
<1> HIDE DEF n, b
<1>7. CASE Found(s, k)
  <2>1. PICK i \in 1 .. n : s[i].key = k
    BY <1>5, <1>7
  <2>2. i > b
    BY <2>1, <1>4, <1>1
  <2>3. ~(b + 1 < i)
    <3> SUFFICES ASSUME b + 1 < i PROVE FALSE
      OBVIOUS
    <3>1. b + 1 \in 1 .. n
      BY <1>4, <2>1, <1>1
    <3>2. s[b + 1].key < k
      BY <3>1, <1>3, <2>1
    <3> QED  BY <3>1, <3>2, <1>4
  <2>4. b + 1 = i
    BY <2>2, <2>3, <1>4, <2>1, <1>1
  <2>5. \A j \in 1 .. n : s[j].key =< k <=> j =< b + 1
    <3> TAKE j \in 1 .. n
    <3>1. CASE j = i
      BY <3>1, <2>1, <2>4, <1>2, <1>1
    <3>2. CASE j > i
      <4>1. k < s[j].key
        BY <3>2, <1>3, <2>1
      <4> QED  BY <4>1, <3>2, <2>4, <1>2, <1>1, <2>1
    <3>3. CASE j < i
      <4>1. s[j].key < k
        BY <3>3, <1>3, <2>1
      <4> QED  BY <4>1, <3>3, <2>4, <1>2, <1>1, <2>1
    <3> QED  BY <3>1, <3>2, <3>3, <1>1, <2>1
  <2> QED  BY <2>1, <2>4, <2>5, <1>6, <1>7, <1>1, <1>4 DEF n, b
<1>8. CASE ~Found(s, k)
  <2>1. \A j \in 1 .. n : s[j].key =< k <=> j =< b
    <3> TAKE j \in 1 .. n
    <3>1. s[j].key # k
      BY <1>5, <1>8
    <3> QED  BY <3>1, <1>4, <1>2
  <2> QED  BY <2>1, <1>6, <1>8, <1>4 DEF n, b
<1> QED  BY <1>7, <1>8

(* The child to follow for a key is the only one that can have it.         *)
LEMMA ChildWithin ==
    ASSUME NEW s \in Seq(Ent), Rising(s), NEW L, NEW v \in Label, Spans(s, L, v),
           NEW k \in Nat
    PROVE  /\ Within(v, k) => Within(L[ChildIndex(s, k) + 1], k)
           /\ \A i \in 1 .. Len(s) + 1 :
                 Within(L[i], k) => Within(v, k) /\ i = ChildIndex(s, k) + 1
<1> DEFINE n == Len(s)
           c == ChildIndex(s, k)
<1>1. n \in Nat /\ \A i \in 1 .. n : s[i] \in Ent
  BY ElementOfSeq
<1>2. \A i \in 1 .. n : s[i].key \in Nat
  BY <1>1 DEF Ent
<1>3. c \in 0 .. n /\ \A i \in 1 .. n : s[i].key =< k <=> i =< c
  BY ChildIs
<1>4. /\ \A i \in 1 .. n : v.lo < s[i].key /\ Before(s[i].key, v.hi)
      /\ L[1].lo = v.lo /\ L[n + 1].hi = v.hi
      /\ \A i \in 1 .. n : L[i].hi = s[i].key /\ L[i + 1].lo = s[i].key
  BY DEF Spans
<1>5. v.lo \in Nat /\ v.hi \in Nat \cup {-1}
  BY LabelIs
<1> HIDE DEF n, c
<1>6. \A i \in 1 .. n + 1 : i > 1 => i - 1 \in 1 .. n /\ L[i].lo = s[i - 1].key
  <2> TAKE i \in 1 .. n + 1
  <2> HAVE i > 1
  <2>1. i - 1 \in 1 .. n /\ (i - 1) + 1 = i
    BY <1>1
  <2> QED  BY <2>1, <1>4
<1>7. Within(v, k) => Within(L[c + 1], k)
  <2> HAVE Within(v, k)
  <2>1. L[c + 1].lo =< k
    <3>1. CASE c = 0
      BY <3>1, <1>4 DEF Within
    <3>2. CASE c # 0
      <4>1. c \in 1 .. n
        BY <3>2, <1>3, <1>1
      <4> QED  BY <4>1, <1>3, <1>4
    <3> QED  BY <3>1, <3>2
  <2>2. Before(k, L[c + 1].hi)
    <3>1. CASE c = n
      BY <3>1, <1>4 DEF Within
    <3>2. CASE c # n
      <4>1. c + 1 \in 1 .. n /\ ~(c + 1 =< c)
        BY <3>2, <1>3, <1>1
      <4>2. ~(s[c + 1].key =< k) /\ L[c + 1].hi = s[c + 1].key /\ s[c + 1].key \in Nat
        BY <4>1, <1>3, <1>4, <1>2
      <4>3. k < s[c + 1].key
        BY <4>2
      <4> QED  BY <4>2, <4>3 DEF Before
    <3> QED  BY <3>1, <3>2
  <2> QED  BY <2>1, <2>2 DEF Within
<1>8. ASSUME NEW i \in 1 .. n + 1, Within(L[i], k)
      PROVE  Within(v, k) /\ i = c + 1
  <2>1. L[i].lo =< k /\ Before(k, L[i].hi)
    BY <1>8 DEF Within
  <2>2. v.lo =< k /\ i =< c + 1
    <3>1. CASE i = 1
      BY <3>1, <1>4, <2>1, <1>3, <1>1
    <3>2. CASE i # 1
      <4>1. i > 1
        BY <3>2, <1>1
      <4>2. i - 1 \in 1 .. n /\ s[i - 1].key =< k
        BY <4>1, <1>6, <2>1
      <4>3. v.lo < s[i - 1].key /\ s[i - 1].key \in Nat /\ i - 1 =< c
        BY <4>2, <1>4, <1>2, <1>3
      <4> QED  BY <4>2, <4>3, <1>5, <1>3, <1>1, SMTT(30)
    <3> QED  BY <3>1, <3>2
  <2>3. Before(k, v.hi) /\ i >= c + 1
    <3>1. CASE i = n + 1
      BY <3>1, <1>4, <2>1, <1>3, <1>1
    <3>2. CASE i # n + 1
      <4>1. i \in 1 .. n
        BY <3>2, <1>1
      <4>2. L[i].hi = s[i].key /\ s[i].key \in Nat /\ Before(s[i].key, v.hi)
        BY <4>1, <1>2, <1>4
      <4>3. k < s[i].key
        BY <4>2, <2>1 DEF Before
      <4>4. ~(i =< c)
        BY <4>1, <4>2, <4>3, <1>3
      <4>5. Before(k, v.hi)
        BY <4>2, <4>3, <1>5 DEF Before
      <4> QED  BY <4>4, <4>5, <4>1, <1>3, <1>1
    <3> QED  BY <3>1, <3>2
  <2> QED  BY <2>2, <2>3, <1>3, <1>1 DEF Within
<1> QED  BY <1>7, <1>8 DEF n, c

(* _diffkey() finds a separator. *)
LEMMA DiffkeyIs ==
    ASSUME NEW a \in Nat, NEW b \in Nat, a < b
    PROVE  /\ Diffkey(a, b) \in Ent /\ Diffkey(a, b).size \in {KeySize, CutSize}
           /\ a < Diffkey(a, b).key /\ Diffkey(a, b).key =< b
<1>1. Width \in Nat \ {0} /\ KeySize \in Nat \ {0} /\ CutSize \in Nat \ {0}
  BY SizesAssumption
<1>2. CASE CutKeys /\ a \div Width # b \div Width
  <2> DEFINE w == Width
             p == a \div w
             q == b \div w
             r == a % w
             t == b % w
             wp == w * p
             wq == w * q
  <2>1. w \in Nat /\ w > 0
    BY <1>1
  <2>2. a = wp + r /\ r \in 0 .. w - 1 /\ p \in Nat
    BY <1>1, DivMod
  <2>3. b = wq + t /\ t \in 0 .. w - 1 /\ q \in Nat
    BY <1>1, DivMod
  <2>4. p # q
    BY <1>2
  <2>5. Diffkey(a, b) = [key |-> b - t, size |-> CutSize]
    BY <1>2 DEF Diffkey
  <2> HIDE DEF p, q, r, t, w
  <2>6. wp \in Nat /\ wq \in Nat
    BY <2>1, <2>2, <2>3
  <2>7. p < q => wp + w =< wq
    <3> HAVE p < q
    <3>1. PICK d \in Nat : q = p + 1 + d
      <4>1. q - p - 1 \in Nat /\ q = p + 1 + (q - p - 1)
        BY <2>2, <2>3
      <4> QED  BY <4>1
    <3>2. w * q = w * p + w + w * d /\ w * d \in Nat
      BY <3>1, <2>1, <2>2
    <3> QED  BY <3>2, <2>6, <2>1
  <2>8. q < p => wq + w =< wp
    <3> HAVE q < p
    <3>1. PICK d \in Nat : p = q + 1 + d
      <4>1. p - q - 1 \in Nat /\ p = q + 1 + (p - q - 1)
        BY <2>2, <2>3
      <4> QED  BY <4>1
    <3>2. w * p = w * q + w + w * d /\ w * d \in Nat
      BY <3>1, <2>1, <2>3
    <3> QED  BY <3>2, <2>6, <2>1
  <2> HIDE DEF wp, wq
  <2>9. ~(q < p)
    BY <2>8, <2>2, <2>3, <2>6, <2>1
  <2>10. p < q
    BY <2>9, <2>4, <2>2, <2>3
  <2>11. a < b - t /\ b - t =< b /\ b - t \in Nat
    BY <2>10, <2>7, <2>2, <2>3, <2>6, <2>1
  <2> QED  BY <2>5, <2>11, <1>1 DEF Ent
<1>3. CASE ~(CutKeys /\ a \div Width # b \div Width)
  <2>1. Diffkey(a, b) = [key |-> b, size |-> KeySize]
    BY <1>3 DEF Diffkey
  <2> QED  BY <2>1, <1>1 DEF Ent
<1> QED  BY <1>2, <1>3

-----------------------------------------------------------------------------
(* Page or node pg is right for label v, its children, if any, labelled by *)
(* z. Each of its entries fits an empty page.                              *)
Overhead(leaf) == IF leaf THEN LeafOvh ELSE FreshOvh
Roomy(pg) ==
    \A i \in 1 .. Len(pg.ents) : Base(pg.leaf) + Overhead(pg.leaf) + pg.ents[i].size =< PgSize
Kids(z, pg) == [i \in 1 .. Len(pg.kids) |-> z[pg.kids[i]]]
Sound(z, pg, v) ==
    /\ v \in Label /\ pg.leaf \in BOOLEAN /\ pg.ents \in Seq(Ent) /\ pg.kids \in Seq(Int)
    /\ Rising(pg.ents) /\ Roomy(pg)
    /\ pg.leaf => pg.kids = <<>> /\ Holds(pg.ents, v)
    /\ ~pg.leaf => /\ Len(pg.kids) = Len(pg.ents) + 1
                   /\ \A i \in 1 .. Len(pg.kids) : pg.kids[i] \in DOMAIN z
                   /\ Spans(pg.ents, Kids(z, pg), v)

Short(nd) == nd.end =< Base(nd.leaf) + Bytes(nd.ents) + Len(nd.ents) * nd.ovh

(* The left one of two neighbours counts its bytes, or fewer when the right *)
(* one counts its entries for more.                                        *)
LEMMA LeftEnd ==
    ASSUME NEW b \in Neighbours, NEW p \in 0 .. Len(b.ents), NEW l, IsLeft(l, b, p),
           b.base = Base(b.leaf)
    PROVE  /\ b.lovh = b.rovh /\ b.tot = b.base + Over(b, 0) => Exact(l)
           /\ b.lovh =< b.rovh /\ b.tot =< b.base + Bytes(b.ents) + Len(b.ents) * b.lovh
                 => Short(l)
<1> DEFINE n == Len(b.ents)
           s1 == SubSeq(b.ents, 1, p)
           s2 == SubSeq(b.ents, p + 1, n)
           x == Bytes(s1)
           y == Bytes(s2)
           lo == b.lovh
           ro == b.rovh
           base == Base(b.leaf)
           np == n - p
<1>1. b.ents \in Seq(Ent) /\ n \in Nat /\ lo \in Nat /\ ro \in Nat /\ b.tot \in Int
  BY LenProperties DEF Neighbours
<1>2. s1 \in Seq(Ent) /\ Len(s1) = p /\ s2 \in Seq(Ent) /\ Len(s2) = np
  <2>1. 1 \in Nat /\ p + 1 \in Nat /\ 1 =< p + 1 /\ p =< n /\ p + 1 =< n + 1 /\ p \in Nat
    BY <1>1
  <2>2. s1 \in Seq(Ent) /\ Len(s1) = p - 1 + 1
    BY <2>1, <1>1, PartType
  <2>3. s2 \in Seq(Ent) /\ Len(s2) = n - (p + 1) + 1
    BY <2>1, <1>1, PartType
  <2> QED  BY <2>2, <2>3, <1>1
<1>3. x \in Nat /\ y \in Nat
  BY <1>2, BytesAdd
<1>4. Bytes(b.ents) = x + y
  <2>1. s1 \o s2 = SubSeq(b.ents, 1, n)
    <3>1. 1 \in Nat /\ p \in Nat /\ n \in Nat /\ 1 =< 1 /\ 1 =< p + 1 /\ p =< n /\ n =< Len(b.ents)
      BY <1>1
    <3>2. b.ents \in Seq(Ent)
      BY <1>1
    <3> HIDE DEF n
    <3> QED  BY <3>1, <3>2, PartsJoin
  <2>2. SubSeq(b.ents, 1, n) = b.ents
    BY <1>1, SubSeqFull
  <2> QED  BY <2>1, <2>2, <1>2, BytesAdd, ZenonT(60)
<1>5. Over(b, p) = y + np * ro
  BY DEF Over
<1>6. Over(b, 0) = x + y + n * ro
  <2>1. Over(b, 0) = Bytes(SubSeq(b.ents, 0 + 1, n)) + (n - 0) * ro
    BY DEF Over
  <2>2. SubSeq(b.ents, 0 + 1, n) = b.ents
    BY <1>1, SubSeqFull
  <2>3. (n - 0) * ro = n * ro
    BY <1>1
  <2> QED  BY <2>1, <2>2, <2>3, <1>4
<1>7. l.leaf = b.leaf /\ l.ovh = lo /\ l.ents = s1 /\ l.end = b.tot - Over(b, p)
  BY DEF IsLeft
<1>8. base \in Nat
  BY SizesAssumption DEF Base
<1>10. np \in Nat /\ p \in Nat
  BY <1>1
<1> HIDE DEF x, y, s1, s2, lo, ro, n, base
<1>9. n * ro = np * ro + p * ro /\ n * lo = np * lo + p * lo
  <2>1. \A c \in Nat : n * c = (n - p) * c + p * c
    BY <1>1
  <2> QED  BY <2>1, <1>1
<1>11. lo =< ro => np * lo =< np * ro
  <2> HAVE lo =< ro
  <2>1. PICK d \in Nat : ro = lo + d
    <3>1. ro - lo \in Nat /\ ro = lo + (ro - lo)
      BY <1>1
    <3> QED  BY <3>1
  <2>2. np * ro = np * lo + np * d /\ np * d \in Nat /\ np * lo \in Nat
    BY <2>1, <1>1, <1>10
  <2> QED  BY <2>2
<1> HIDE DEF np
<1>12. np * ro \in Nat /\ np * lo \in Nat /\ p * ro \in Nat /\ p * lo \in Nat
  BY <1>10, <1>1
<1>13. ASSUME lo = ro, b.tot = base + Over(b, 0)
       PROVE  l.end = base + x + p * lo
  BY <1>13, <1>5, <1>6, <1>7, <1>9, <1>12, <1>3, <1>8
<1>14. ASSUME lo =< ro, b.tot =< base + (x + y) + n * lo
       PROVE  l.end =< base + x + p * lo
  <2> DEFINE A == np * ro
             B == np * lo
             C == p * lo
  <2>1. A \in Nat /\ B \in Nat /\ C \in Nat /\ n * lo = B + C /\ B =< A
    BY <1>14, <1>12, <1>9, <1>11
  <2>2. l.end = b.tot - (y + A) /\ b.tot =< base + (x + y) + (B + C)
    BY <1>14, <1>5, <1>7, <2>1
  <2> HIDE DEF A, B, C
  <2>3. l.end =< base + x + C
    BY <2>1, <2>2, <1>1, <1>3, <1>8
  <2> QED  BY <2>3 DEF C
<1> USE DEF base
<1>15. b.base = base
  OBVIOUS
<1>16. ASSUME b.lovh = b.rovh, b.tot = b.base + Over(b, 0)
       PROVE  Exact(l)
  <2>1. l.end = base + x + p * lo
    BY <1>16, <1>13 DEF lo, ro
  <2> QED  BY <2>1, <1>2, <1>7 DEF Exact, x, lo
<1>17. ASSUME b.lovh =< b.rovh, b.tot =< b.base + Bytes(b.ents) + n * b.lovh
       PROVE  Short(l)
  <2>1. l.end =< base + x + p * lo
    BY <1>17, <1>14, <1>4 DEF lo, ro
  <2> QED  BY <2>1, <1>2, <1>7 DEF Short, x, lo
<1> QED  BY <1>16, <1>17 DEF n

(* The right one always counts them exactly.                               *)
LEMMA RightEnd ==
    ASSUME NEW b \in Neighbours, NEW p \in 0 .. Len(b.ents), NEW r, IsRight(r, b, p),
           b.base = Base(b.leaf)
    PROVE  Exact(r)
<1>1. b.ents \in Seq(Ent) /\ Len(b.ents) \in Nat
  BY LenProperties DEF Neighbours
<1>2. Len(SubSeq(b.ents, p + 1, Len(b.ents))) = Len(b.ents) - p
  <2>1. p + 1 \in Nat /\ 1 =< p + 1 /\ p + 1 =< Len(b.ents) + 1
    BY <1>1
  <2>2. Len(SubSeq(b.ents, p + 1, Len(b.ents))) = Len(b.ents) - (p + 1) + 1
    BY <2>1, <1>1, PartType
  <2> QED  BY <2>2, <1>1
<1> DEFINE x == Bytes(SubSeq(b.ents, p + 1, Len(b.ents)))
           y == (Len(b.ents) - p) * b.rovh
<1>3. x \in Nat
  <2>1. p \in Nat /\ p =< Len(b.ents) /\ 0 \in Nat /\ Len(b.ents) \in Nat
    BY <1>1
  <2>2. SubSeq(b.ents, p + 1, Len(b.ents)) \in Seq(Ent)
    <3>1. p + 1 \in Nat /\ 1 =< p + 1 /\ p + 1 =< Len(b.ents) + 1
      BY <1>1
    <3> QED  BY <3>1, <1>1, PartType
  <2> QED  BY <2>2, BytesAdd
<1>4. y \in Nat /\ b.base \in Nat
  <2>1. b.rovh \in Nat /\ b.base \in Nat /\ Len(b.ents) - p \in Nat
    BY <1>1 DEF Neighbours
  <2> QED  BY <2>1
<1>5. /\ r.leaf = b.leaf /\ r.ovh = b.rovh /\ r.ents = SubSeq(b.ents, p + 1, Len(b.ents))
      /\ r.end = b.base + (x + y)
  BY DEF IsRight, Over
<1>6. Bytes(r.ents) = x /\ Len(r.ents) * r.ovh = y
  BY <1>5, <1>2
<1> HIDE DEF x, y
<1>7. r.end = b.base + x + y
  BY <1>5, <1>3, <1>4
<1> QED  BY <1>5, <1>6, <1>7 DEF Exact

(* A separator fits an index page.                                         *)
Sep(e) == e \in Ent /\ IndexBase + FreshOvh + e.size =< PgSize

(* _promote() of two neighbours: each one's label.                         *)
LEMMA DivideIs ==
    ASSUME NEW z, NEW b \in Neighbours, NEW v, Sound(z, b, v),
           NEW q \in 1 .. Len(b.ents) - 1, NEW m, IsPair(m, b, q)
    PROVE  LET p == Promote(m)
           IN  /\ Sep(p.entry) /\ v.lo < p.entry.key /\ Before(p.entry.key, v.hi)
               /\ p.left \in NodeType /\ Same(p.left, m.left) /\ p.right = m.right
               /\ p.left.end =< m.left.end
               /\ Sound(z, p.left, Under(v, p.entry.key))
               /\ Sound(z, p.right, From(v, p.entry.key))
               /\ Exact(m.left) => Exact(p.left)
               /\ Short(m.left) => Short(p.left)
<1> DEFINE s == b.ents
           n == Len(s)
           l == m.left
           r == m.right
           P == Promote(m)
<1>1. /\ s \in Seq(Ent) /\ n \in Nat /\ q \in Nat /\ 1 =< q /\ q < n /\ q \in 1 .. n
      /\ q + 1 \in 1 .. n /\ q \in 0 .. n /\ \A i \in 1 .. n : s[i] \in Ent
  BY ElementOfSeq DEF Neighbours
<1>2. \A i \in 1 .. n : s[i].key \in Nat
  BY <1>1 DEF Ent
<1>3. Rising(s) /\ Roomy(b) /\ v \in Label /\ b.leaf \in BOOLEAN
  BY DEF Sound
<1>4. /\ Len(l.ents) = q /\ Len(r.ents) = n - q
      /\ \A i \in 1 .. q : l.ents[i] = s[i]
      /\ \A i \in 1 .. n - q : r.ents[i] = s[q + i]
      /\ Last(l.ents) = s[q] /\ Head(r.ents) = s[q + 1]
  <2>1. q \in 0 .. Len(b.ents) /\ q > 0 /\ q < Len(b.ents) /\ IsPair(m, b, q)
    BY <1>1
  <2> QED  BY <2>1, PairEnds
<1>5. IsLeft(l, b, q) /\ IsRight(r, b, q) /\ l \in NodeType /\ r \in NodeType
  BY DEF IsPair, IsLeft, IsRight
<1>6. l.leaf = b.leaf /\ r.leaf = b.leaf
  BY <1>5 DEF IsLeft, IsRight
<1>7. l.ents \in Seq(Ent) /\ r.ents \in Seq(Ent) /\ l.kids \in Seq(Int) /\ r.kids \in Seq(Int)
  BY <1>5 DEF NodeType
<1>8. \A i \in 1 .. n : Base(b.leaf) + Overhead(b.leaf) + s[i].size =< PgSize
  BY <1>3 DEF Roomy
<1>9. Roomy(r)
  <2>1. \A i \in 1 .. n - q : q + i \in 1 .. n
    BY <1>1
  <2> QED  BY <2>1, <1>4, <1>6, <1>8 DEF Roomy
<1>10. s[q].key < s[q + 1].key
  BY <1>1, <1>3 DEF Rising
<1>11. CASE b.leaf
  <2>1. P = [left |-> l, right |-> r, entry |-> Diffkey(s[q].key, s[q + 1].key)]
    BY <1>11, <1>6, <1>4 DEF Promote
  <2> DEFINE e == Diffkey(s[q].key, s[q + 1].key)
  <2>2. e \in Ent /\ e.size \in {KeySize, CutSize} /\ s[q].key < e.key /\ e.key =< s[q + 1].key
    BY <1>1, <1>2, <1>10, DiffkeyIs
  <2> HIDE DEF e
  <2>3. Sep(e)
    BY <2>2, SizesAssumption DEF Sep
  <2>4. Holds(s, v)
    BY <1>11 DEF Sound
  <2>5. e.key \in Nat
    BY <2>2 DEF Ent
  <2>6. Parts(s, q, l.ents, r.ents)
    BY <1>1, <1>4, <1>7 DEF Parts
  <2>7. /\ Holds(l.ents, Under(v, e.key)) /\ Holds(r.ents, From(v, e.key))
        /\ Rising(l.ents) /\ Rising(r.ents)
    <3> DEFINE k == e.key
               s1 == l.ents
               s2 == r.ents
    <3>1. /\ Rising(s) /\ Holds(s, v) /\ Parts(s, q, s1, s2) /\ 0 < q /\ q < Len(s)
          /\ k \in Nat /\ s[q].key < k /\ k =< s[q + 1].key
      BY <2>2, <2>4, <2>5, <2>6, <1>1, <1>3
    <3> HIDE DEF k, s1, s2, s
    <3>2. Holds(s1, Under(v, k)) /\ Holds(s2, From(v, k)) /\ Rising(s1) /\ Rising(s2)
      BY <3>1, CutHolds
    <3> QED  BY <3>2 DEF k, s1, s2
  <2>8. v.lo < e.key /\ Before(e.key, v.hi)
    <3>1. s[q] \in v.c /\ s[q + 1] \in v.c
      BY <2>4, <1>1 DEF Holds
    <3>2. v.lo \in Nat /\ v.hi \in Nat \cup {-1} /\ v.lo =< s[q].key /\ Before(s[q + 1].key, v.hi)
      BY <3>1, <1>3, LabelIs
    <3>3. v.lo < e.key
      BY <3>2, <2>2, <2>5, <1>1, <1>2
    <3>4. Before(e.key, v.hi)
      BY <3>2, <2>2, <2>5, <1>1, <1>2 DEF Before
    <3> QED  BY <3>3, <3>4
  <2>9. Under(v, e.key) \in Label /\ From(v, e.key) \in Label
    BY <2>8, <2>5, <1>3, CutLabel
  <2>10. Roomy(l)
    <3>1. \A i \in 1 .. q : i \in 1 .. n
      BY <1>1
    <3> QED  BY <3>1, <1>4, <1>6, <1>8 DEF Roomy
  <2>11. l.kids = <<>> /\ r.kids = <<>>
    BY <1>11, <1>5 DEF IsLeft, IsRight
  <2>12. Sound(z, l, Under(v, e.key)) /\ Sound(z, r, From(v, e.key))
    BY <2>7, <2>9, <2>10, <2>11, <1>9, <1>7, <1>6, <1>11 DEF Sound
  <2>13. P.left = l /\ P.right = r /\ P.entry = e /\ Same(l, l) /\ l.end =< l.end
    <3>1. l.end \in Int
      BY <1>5 DEF NodeType
    <3> QED  BY <2>1, <3>1 DEF e, Same
  <2> QED  BY <2>3, <2>8, <2>12, <2>13, <1>5
<1>12. CASE ~b.leaf
  <2> DEFINE d == Delpage(l, q - 1)
             L == Kids(z, b)
             e == s[q]
  <2>1. P = [left |-> d, right |-> r, entry |-> e]
    BY <1>12, <1>6, <1>4 DEF Promote, Count
  <2>2. /\ Len(b.kids) = n + 1 /\ b.kids \in Seq(Int)
        /\ \A i \in 1 .. n + 1 : b.kids[i] \in DOMAIN z
        /\ Spans(s, L, v)
    BY <1>12 DEF Sound
  <2>3. /\ l.kids = SubSeq(b.kids, 1, q + 1)
        /\ r.kids = SubSeq(b.kids, q + 1, n + 1)
    BY <1>12, <1>5, <1>1 DEF IsLeft, IsRight
  <2>4. Len(l.kids) = q + 1 /\ \A i \in 1 .. q + 1 : l.kids[i] = b.kids[i]
    <3>1. 1 \in Nat /\ q + 1 \in Nat /\ 1 =< 1 /\ q + 1 =< Len(b.kids) /\ 1 =< (q + 1) + 1
      BY <1>1, <2>2
    <3>2. /\ Len(SubSeq(b.kids, 1, q + 1)) = (q + 1) - 1 + 1
          /\ \A i \in 1 .. (q + 1) - 1 + 1 : SubSeq(b.kids, 1, q + 1)[i] = b.kids[1 + i - 1]
      <4> DEFINE T == Int
      <4>1. b.kids \in Seq(T)
        BY <2>2
      <4> HIDE DEF T
      <4> QED  BY ONLY <3>1, <4>1, PartType
    <3>3. (q + 1) - 1 + 1 = q + 1 /\ \A i \in 1 .. q + 1 : 1 + i - 1 = i
      BY <1>1
    <3> QED  BY <3>2, <3>3, <2>3
  <2>5. Len(r.kids) = n - q + 1 /\ \A i \in 1 .. n - q + 1 : r.kids[i] = b.kids[q + i]
    <3>1. q + 1 \in Nat /\ n + 1 \in Nat /\ 1 =< q + 1 /\ n + 1 =< Len(b.kids) /\ q + 1 =< (n + 1) + 1
      BY <1>1, <2>2
    <3>2. /\ Len(SubSeq(b.kids, q + 1, n + 1)) = (n + 1) - (q + 1) + 1
          /\ \A i \in 1 .. (n + 1) - (q + 1) + 1 :
                SubSeq(b.kids, q + 1, n + 1)[i] = b.kids[(q + 1) + i - 1]
      <4> DEFINE T == Int
      <4>1. b.kids \in Seq(T)
        BY <2>2
      <4> HIDE DEF T
      <4> QED  BY ONLY <3>1, <4>1, PartType
    <3>3. (n + 1) - (q + 1) + 1 = n - q + 1 /\ \A i \in 1 .. n - q + 1 : (q + 1) + i - 1 = q + i
      BY <1>1
    <3> QED  BY <3>2, <3>3, <2>3
  <2>6. Grown(l) /\ q - 1 \in 0 .. Len(l.ents) - 1
    BY <2>4, <1>4, <1>1 DEF Grown
  <2>7. /\ d \in NodeType /\ Same(d, l) /\ Len(d.ents) = q - 1
        /\ \A j \in 1 .. q - 1 : d.ents[j] = IF j < (q - 1) + 1 THEN l.ents[j] ELSE l.ents[j + 1]
        /\ Len(d.kids) = q
        /\ \A j \in 1 .. q : d.kids[j] = IF j < (q - 1) + 2 THEN l.kids[j] ELSE l.kids[j + 1]
        /\ d.end = l.end - l.ovh - l.ents[(q - 1) + 1].size
        /\ Bytes(d.ents) = Bytes(l.ents) - l.ents[(q - 1) + 1].size
        /\ Exact(l) => Exact(d)
    BY <2>6, <1>5, <1>4, <1>6, <1>12, DelpageIs
  <2> HIDE DEF d
  <2>8. \A j \in 1 .. q - 1 : d.ents[j] = s[j]
    <3>1. \A j \in 1 .. q - 1 : j < (q - 1) + 1 /\ j \in 1 .. q
      BY <1>1
    <3> QED  BY <3>1, <2>7, <1>4
  <2>9. \A j \in 1 .. q : d.kids[j] = b.kids[j]
    <3>1. \A j \in 1 .. q : j < (q - 1) + 2 /\ j \in 1 .. q + 1
      BY <1>1
    <3> QED  BY <3>1, <2>7, <2>4
  <2>10. d.ents \in Seq(Ent) /\ d.kids \in Seq(Int) /\ d.leaf = b.leaf
    BY <2>7, <1>6 DEF NodeType, Same
  <2>11. CutAt(s, L, q, d.ents, Kids(z, d), r.ents, Kids(z, r))
    <3>1. \A i \in 1 .. q : Kids(z, d)[i] = L[i]
      <4>1. \A i \in 1 .. q : i \in 1 .. n + 1
        BY <1>1
      <4> QED  BY <4>1, <2>7, <2>9, <2>2 DEF Kids
    <3>2. \A i \in 1 .. n - q + 1 : Kids(z, r)[i] = L[q + i]
      <4>1. \A i \in 1 .. n - q + 1 : q + i \in 1 .. n + 1
        BY <1>1
      <4> QED  BY <4>1, <2>5, <2>2 DEF Kids
    <3> QED  BY <3>1, <3>2, <2>10, <2>7, <2>8, <1>1, <1>4, <1>7 DEF CutAt
  <2>12. /\ Spans(d.ents, Kids(z, d), Under(v, e.key)) /\ Rising(d.ents)
         /\ Spans(r.ents, Kids(z, r), From(v, e.key)) /\ Rising(r.ents)
    BY <2>11, <2>2, <1>3, CutSpans
  <2>13. v.lo < e.key /\ Before(e.key, v.hi)
    BY <2>2, <1>1 DEF Spans
  <2>14. Under(v, e.key) \in Label /\ From(v, e.key) \in Label
    BY <2>13, <1>1, <1>2, <1>3, CutLabel
  <2>15. Roomy(d)
    <3>1. \A j \in 1 .. q - 1 : j \in 1 .. n
      BY <1>1
    <3> QED  BY <3>1, <2>7, <2>8, <2>10, <1>8 DEF Roomy
  <2>16. Sound(z, d, Under(v, e.key))
    <3>1. \A i \in 1 .. q : d.kids[i] \in DOMAIN z
      <4>1. \A i \in 1 .. q : i \in 1 .. n + 1
        BY <1>1
      <4> QED  BY <4>1, <2>9, <2>2
    <3>2. Len(d.kids) = Len(d.ents) + 1
      BY <2>7, <1>1
    <3> QED  BY <3>1, <3>2, <2>7, <2>10, <2>12, <2>14, <2>15, <1>12 DEF Sound
  <2>17. Sound(z, r, From(v, e.key))
    <3>1. \A i \in 1 .. n - q + 1 : r.kids[i] \in DOMAIN z
      <4>1. \A i \in 1 .. n - q + 1 : q + i \in 1 .. n + 1
        BY <1>1
      <4> QED  BY <4>1, <2>5, <2>2
    <3>2. Len(r.kids) = Len(r.ents) + 1
      BY <2>5, <1>4
    <3> QED  BY <3>1, <3>2, <2>5, <2>12, <2>14, <1>9, <1>6, <1>7, <1>12 DEF Sound
  <2>18. Sep(e)
    <3>1. e \in Ent /\ Base(FALSE) + Overhead(FALSE) + e.size =< PgSize
      BY <1>1, <1>8, <1>12, <1>3
    <3> QED  BY <3>1 DEF Sep, Base, Overhead
  <2>19. d.end =< l.end /\ (Short(l) => Short(d))
    <3> DEFINE ov == l.ovh
               x == l.ents[q].size
               y == Bytes(d.ents)
               p1 == (q - 1) * ov
               bs == Base(b.leaf)
    <3>1. (q - 1) + 1 = q /\ q \in 1 .. q
      BY <1>1
    <3>2. l.ents[q] \in Ent
      BY <1>1, <1>4
    <3>3. ov \in Nat /\ l.end \in Int /\ d.end \in Int
      BY <1>5, <2>7 DEF NodeType
    <3>4. x \in Nat
      BY <3>2 DEF Ent
    <3>5. y \in Nat
      BY <2>10, BytesAdd
    <3>6. d.end = l.end - ov - x /\ y = Bytes(l.ents) - x /\ d.ovh = ov
      BY <2>7, <3>1 DEF Same
    <3>7. Bytes(l.ents) \in Nat
      BY <1>7, BytesAdd
    <3>8. q * ov = p1 + ov /\ p1 \in Nat
      BY <1>1, <3>3, SMTT(30)
    <3>9. bs \in Nat
      BY SizesAssumption DEF Base
    <3> HIDE DEF ov, x, y, p1, bs
    <3>10. d.end =< l.end
      BY <3>3, <3>4, <3>6
    <3>11. Short(l) <=> l.end =< bs + Bytes(l.ents) + (p1 + ov)
      BY <3>8, <1>4, <1>6 DEF Short, ov, bs
    <3>12. Short(d) <=> d.end =< bs + y + p1
      BY <2>7, <2>10, <3>6 DEF Short, bs, y, p1
    <3>13. p1 \in Nat
      BY <3>8
    <3>14. l.end =< bs + Bytes(l.ents) + (p1 + ov) => d.end =< bs + y + p1
      <4> DEFINE B == Bytes(l.ents)
                 E == l.end
                 D == d.end
      <4>1. /\ p1 \in Nat /\ ov \in Nat /\ E \in Int /\ D \in Int /\ x \in Nat /\ y \in Nat
            /\ B \in Nat /\ bs \in Nat /\ D = E - ov - x /\ y = B - x
        BY <3>13, <3>3, <3>4, <3>5, <3>6, <3>7, <3>9
      <4> HIDE DEF B, E, D
      <4>2. E =< bs + B + (p1 + ov) => D =< bs + y + p1
        BY <4>1
      <4> QED  BY <4>2 DEF B, E, D
    <3>15. Short(l) => Short(d)
      BY <3>11, <3>12, <3>14
    <3> QED  BY <3>10, <3>15
  <2> QED  BY <2>1, <2>7, <2>13, <2>16, <2>17, <2>18, <2>19
<1> QED  BY <1>11, <1>12, <1>3

-----------------------------------------------------------------------------
(* A node and its sibling as neighbours in one row. *)

LEMMA PartIs ==
    ASSUME NEW S, NEW s \in Seq(S), NEW p \in Nat, NEW q \in Nat, 1 =< p, q =< Len(s), p =< q + 1,
           NEW t \in Seq(S), Len(t) = q - p + 1, \A i \in 1 .. q - p + 1 : t[i] = s[p + i - 1]
    PROVE  t = SubSeq(s, p, q)
<1> DEFINE u == SubSeq(s, p, q)
<1>1. /\ u \in Seq(S) /\ Len(u) = q - p + 1
      /\ \A i \in 1 .. q - p + 1 : u[i] = s[p + i - 1]
  BY PartType
<1> HIDE DEF u
<1>2. Len(t) = Len(u) /\ \A i \in 1 .. Len(t) : t[i] = u[i]
  BY <1>1
<1>3. t = u
  BY ONLY <1>1, <1>2, t \in Seq(S), SeqEqual
<1> QED  BY <1>3 DEF u

Row(s, ks, leaf, ovh, lp, rp) ==
    [ents |-> s, kids |-> ks, last |-> IF leaf THEN <<0>> ELSE SubSeq(ks, Len(s) + 1, Len(s) + 1),
     leaf |-> leaf, lovh |-> ovh, rovh |-> ovh, tot |-> Base(leaf) + Bytes(s) + Len(s) * ovh,
     base |-> Base(leaf), lpage |-> lp, rpage |-> rp]

LEMMA RowIs ==
    ASSUME NEW s \in Seq(Ent), NEW ks \in Seq(Int), NEW leaf \in BOOLEAN, NEW ovh \in Nat,
           NEW lp \in Int, NEW rp \in Int, ~leaf => Len(ks) = Len(s) + 1
    PROVE  LET b == Row(s, ks, leaf, ovh, lp, rp)
           IN  b \in Neighbours /\ Alike(b) /\ b.tot = b.base + Over(b, 0)
<1> DEFINE b == Row(s, ks, leaf, ovh, lp, rp)
           last == IF leaf THEN <<0>> ELSE SubSeq(ks, Len(s) + 1, Len(s) + 1)
<1>1. Len(s) \in Nat /\ Bytes(s) \in Nat /\ Base(leaf) \in Nat
  BY LenProperties, BytesAdd, SizesAssumption DEF Base
<1>2. last \in Seq(Int) /\ Len(last) = 1
  <2>1. CASE leaf
    BY <2>1
  <2>2. CASE ~leaf
    <3> DEFINE T == Int
               k == Len(s) + 1
    <3>1. ks \in Seq(T) /\ k \in Nat /\ 1 =< k /\ k =< Len(ks) /\ k =< k + 1
      BY <2>2, <1>1
    <3> HIDE DEF T, k
    <3>2. SubSeq(ks, k, k) \in Seq(T) /\ Len(SubSeq(ks, k, k)) = k - k + 1
      BY ONLY <3>1, PartType
    <3>3. k - k + 1 = 1
      BY <3>1
    <3> QED  BY <3>2, <3>3, <2>2 DEF T, k
  <2> QED  BY <2>1, <2>2
<1>3. Base(leaf) + Bytes(s) + Len(s) * ovh \in Int
  <2>1. Len(s) * ovh \in Nat
    BY <1>1
  <2> QED  BY <2>1, <1>1
<1>4. b \in Neighbours
  BY <1>1, <1>2, <1>3 DEF Neighbours, Row
<1>5. Alike(b)
  BY DEF Alike, Row
<1>6. Over(b, 0) = Bytes(s) + Len(s) * ovh
  <2>1. Over(b, 0) = Bytes(SubSeq(s, 0 + 1, Len(s))) + (Len(s) - 0) * ovh
    BY DEF Over, Row
  <2>2. SubSeq(s, 0 + 1, Len(s)) = s
    BY SubSeqFull
  <2>3. (Len(s) - 0) * ovh = Len(s) * ovh
    BY <1>1
  <2> QED  BY <2>1, <2>2, <2>3
<1>7. b.tot = Base(leaf) + Bytes(s) + Len(s) * ovh /\ b.base = Base(leaf)
  BY DEF Row
<1>8. b.tot = b.base + Over(b, 0)
  <2> DEFINE y == Len(s) * ovh
  <2>1. y \in Nat
    BY <1>1
  <2> HIDE DEF y
  <2>2. Base(leaf) + Bytes(s) + y = Base(leaf) + (Bytes(s) + y)
    BY <2>1, <1>1
  <2> QED  BY <2>2, <1>6, <1>7 DEF y
<1> QED  BY <1>4, <1>5, <1>8

(* The nodes of a row that count their bytes exactly.                      *)
LEMMA RowEnds ==
    ASSUME NEW s \in Seq(Ent), NEW ks \in Seq(Int), NEW leaf \in BOOLEAN, NEW ovh \in Nat,
           NEW lp \in Int, NEW rp \in Int, ~leaf => Len(ks) = Len(s) + 1,
           NEW p \in 0 .. Len(s),
           NEW l \in NodeType, Exact(l), l.leaf = leaf, l.ovh = ovh, l.page = lp,
           l.ents = SubSeq(s, 1, p), l.kids = IF leaf THEN <<>> ELSE SubSeq(ks, 1, p + 1),
           NEW r \in NodeType, Exact(r), r.leaf = leaf, r.ovh = ovh, r.page = rp,
           r.ents = SubSeq(s, p + 1, Len(s)),
           r.kids = IF leaf THEN <<>> ELSE SubSeq(ks, p + 1, Len(s) + 1)
    PROVE  LET b == Row(s, ks, leaf, ovh, lp, rp) IN IsLeft(l, b, p) /\ IsRight(r, b, p)
<1> DEFINE b == Row(s, ks, leaf, ovh, lp, rp)
           n == Len(s)
           base == Base(leaf)
           x == Bytes(l.ents)
           y == Bytes(r.ents)
           po == p * ovh
           qo == (n - p) * ovh
<1>1. n \in Nat /\ p \in Nat /\ p =< n /\ base \in Nat
  BY LenProperties, SizesAssumption DEF Base
<1>2. l.ents \in Seq(Ent) /\ r.ents \in Seq(Ent) /\ l.end \in Int /\ r.end \in Int
  BY DEF NodeType
<1>3. x \in Nat /\ y \in Nat
  BY <1>2, BytesAdd
<1>4. Bytes(s) = x + y
  <2>1. l.ents \o r.ents = SubSeq(s, 1, n)
    <3>1. 1 \in Nat /\ p \in Nat /\ n \in Nat /\ 1 =< 1 /\ 1 =< p + 1 /\ p =< n /\ n =< Len(s)
      BY <1>1
    <3> HIDE DEF n
    <3>2. SubSeq(s, 1, p) \o SubSeq(s, p + 1, n) = SubSeq(s, 1, n)
      BY <3>1, PartsJoin, SMTT(30)
    <3> QED  BY <3>2 DEF n
  <2>2. SubSeq(s, 1, n) = s
    BY SubSeqFull
  <2>3. Bytes(l.ents \o r.ents) = Bytes(l.ents) + Bytes(r.ents)
    BY <1>2, BytesAdd
  <2> QED  BY <2>1, <2>2, <2>3
<1>5. Len(l.ents) = p /\ Len(r.ents) = n - p
  <2>1. 1 \in Nat /\ p + 1 \in Nat /\ 1 =< p + 1 /\ p =< n /\ p + 1 =< n + 1 /\ p \in Nat
    BY <1>1
  <2>2. Len(SubSeq(s, 1, p)) = p - 1 + 1
    BY <2>1, PartType
  <2>3. Len(SubSeq(s, p + 1, n)) = n - (p + 1) + 1
    BY <2>1, <1>1, PartType
  <2> QED  BY <2>2, <2>3, <1>1
<1>6. l.end = base + x + po /\ r.end = base + y + qo
  BY <1>5 DEF Exact
<1>7. po \in Nat /\ qo \in Nat
  <2>1. n - p \in Nat
    BY <1>1
  <2>2. \A c \in Nat : c * ovh \in Nat
    OBVIOUS
  <2> QED  BY <1>1, <2>1, <2>2
<1>8. n * ovh = po + qo
  <2>1. \A c \in Nat : n * c = p * c + (n - p) * c
    BY <1>1
  <2> QED  BY <2>1
<1>9. /\ b.ents = s /\ b.kids = ks /\ b.leaf = leaf /\ b.lovh = ovh /\ b.rovh = ovh
      /\ b.base = base /\ b.lpage = lp /\ b.rpage = rp /\ b.tot = base + Bytes(s) + n * ovh
      /\ b.last = IF leaf THEN <<0>> ELSE SubSeq(ks, n + 1, n + 1)
  BY DEF Row
<1>10. Over(b, p) = y + qo
  BY <1>9 DEF Over
<1> HIDE DEF b, x, y, po, qo, base
<1>11. b.tot = base + (x + y) + (po + qo)
  BY <1>9, <1>8, <1>4
<1> HIDE DEF n
<1>12. l.end = b.tot - Over(b, p) /\ r.end = b.base + Over(b, p)
  BY <1>11, <1>10, <1>9, <1>6, <1>7, <1>3, <1>1
<1> USE DEF n
<1>13. IsLeft(l, b, p)
  BY <1>9, <1>12 DEF IsLeft
<1>14. IsRight(r, b, p)
  <2>1. r.kids = IF leaf THEN <<>> ELSE IF p = n THEN b.last ELSE SubSeq(ks, p + 1, n + 1)
    BY <1>9
  <2> QED  BY <2>1, <1>9, <1>12 DEF IsRight
<1> QED  BY <1>13, <1>14 DEF b

(* Nodes l and r in a row, for index nodes with separator e between them.  *)
Both(l, r, e) == (IF l.leaf THEN l.ents ELSE Append(l.ents, e)) \o r.ents

InRow(s, l, r, e, k) ==
    /\ s \in Seq(Ent) /\ Len(s) = k + Len(r.ents)
    /\ Len(l.ents) \in Nat /\ Len(r.ents) \in Nat /\ k \in Nat
    /\ \A i \in 1 .. Len(l.ents) : s[i] = l.ents[i]
    /\ ~l.leaf => s[Len(l.ents) + 1] = e
    /\ \A i \in 1 .. Len(r.ents) : s[k + i] = r.ents[i]
KidsInRow(ks, l, r) ==
    /\ ks \in Seq(Int) /\ Len(ks) = Len(l.kids) + Len(r.kids)
    /\ \A i \in 1 .. Len(l.kids) : ks[i] = l.kids[i]
    /\ \A i \in 1 .. Len(r.kids) : ks[Len(l.kids) + i] = r.kids[i]

LEMMA BothIs ==
    ASSUME NEW l, NEW r, NEW e \in Ent, l.leaf \in BOOLEAN,
           l.ents \in Seq(Ent), r.ents \in Seq(Ent), l.kids \in Seq(Int), r.kids \in Seq(Int),
           NEW k, l.leaf => k = Len(l.ents), ~l.leaf => k = Len(l.ents) + 1
    PROVE  InRow(Both(l, r, e), l, r, e, k) /\ KidsInRow(l.kids \o r.kids, l, r)
<1> DEFINE s == Both(l, r, e)
           p == Len(l.ents)
           n == Len(r.ents)
           m == IF l.leaf THEN l.ents ELSE Append(l.ents, e)
<1>1. p \in Nat /\ n \in Nat /\ Len(l.kids) \in Nat /\ Len(r.kids) \in Nat
  BY LenProperties
<1>2. /\ m \in Seq(Ent) /\ Len(m) = k /\ (\A i \in 1 .. p : m[i] = l.ents[i])
      /\ ~l.leaf => m[p + 1] = e
  <2>1. CASE l.leaf
    BY <2>1, <1>1
  <2>2. CASE ~l.leaf
    BY <2>2, <1>1
  <2> QED  BY <2>1, <2>2
<1> HIDE DEF m
<1>3. /\ m \o r.ents \in Seq(Ent) /\ Len(m \o r.ents) = Len(m) + n
      /\ \A i \in 1 .. Len(m) + n :
            (m \o r.ents)[i] = IF i =< Len(m) THEN m[i] ELSE r.ents[i - Len(m)]
  BY <1>2, ConcatProperties
<1>4. s = m \o r.ents
  BY DEF Both, m
<1> HIDE DEF s, p, n
<1>5. k \in Nat /\ p =< k /\ (~l.leaf => k = p + 1)
  BY <1>1 DEF p
<1>6. s \in Seq(Ent) /\ Len(s) = k + n
  BY <1>2, <1>3, <1>4
<1>7. \A i \in 1 .. p : s[i] = l.ents[i]
  <2> TAKE i \in 1 .. p
  <2>1. i \in 1 .. k + n /\ i =< k
    BY <1>1, <1>5
  <2> QED  BY <2>1, <1>2, <1>3, <1>4
<1>8. ~l.leaf => s[p + 1] = e
  <2> HAVE ~l.leaf
  <2>1. p + 1 \in 1 .. k + n /\ p + 1 =< k
    BY <1>1, <1>5
  <2> QED  BY <2>1, <1>2, <1>3, <1>4
<1>9. \A i \in 1 .. n : s[k + i] = r.ents[i]
  <2> TAKE i \in 1 .. n
  <2>1. k + i \in 1 .. k + n /\ ~(k + i =< k) /\ k + i - k = i
    BY <1>1, <1>5
  <2> QED  BY ONLY <2>1, <1>1, <1>2, <1>3, <1>4, SMTT(30)
<1>10. /\ l.kids \o r.kids \in Seq(Int)
       /\ Len(l.kids \o r.kids) = Len(l.kids) + Len(r.kids)
       /\ \A i \in 1 .. Len(l.kids) + Len(r.kids) :
            (l.kids \o r.kids)[i] =
                IF i =< Len(l.kids) THEN l.kids[i] ELSE r.kids[i - Len(l.kids)]
  <2> DEFINE T == Int
             a == l.kids
             b == r.kids
  <2>1. a \in Seq(T) /\ b \in Seq(T)
    OBVIOUS
  <2> HIDE DEF T, a, b
  <2>2. /\ a \o b \in Seq(T) /\ Len(a \o b) = Len(a) + Len(b)
        /\ \A i \in 1 .. Len(a) + Len(b) :
              (a \o b)[i] = IF i =< Len(a) THEN a[i] ELSE b[i - Len(a)]
    BY ONLY <2>1, ConcatProperties
  <2> QED  BY <2>2 DEF T, a, b
<1> DEFINE x == Len(l.kids)
           y == Len(r.kids)
           ks == l.kids \o r.kids
<1>11. x \in Nat /\ y \in Nat
  BY <1>1
<1> HIDE DEF x, y, ks
<1>12. \A i \in 1 .. x : ks[i] = l.kids[i]
  <2> TAKE i \in 1 .. x
  <2>1. i \in 1 .. x + y /\ i =< x
    BY <1>11
  <2> QED  BY <2>1, <1>10 DEF x, y, ks
<1>13. \A i \in 1 .. y : ks[x + i] = r.kids[i]
  <2> TAKE i \in 1 .. y
  <2>1. x + i \in 1 .. x + y /\ ~(x + i =< x) /\ x + i - x = i
    BY <1>11
  <2> QED  BY <2>1, <1>10 DEF x, y, ks
<1>14. InRow(Both(l, r, e), l, r, e, k)
  BY <1>1, <1>5, <1>6, <1>7, <1>8, <1>9 DEF s, p, n, InRow
<1>15. KidsInRow(l.kids \o r.kids, l, r)
  BY <1>10, <1>12, <1>13 DEF x, y, ks, KidsInRow
<1> QED  BY <1>14, <1>15

(* The row is right for the label of both.                                 *)
LEMMA BothSound ==
    ASSUME NEW z, NEW l, NEW r, NEW a, NEW c, Sound(z, l, a), Sound(z, r, c), Meet(a, c),
           NEW e, Sep(e), e.key = a.hi, NEW ovh, NEW lp, NEW rp
    PROVE  /\ l.leaf = r.leaf
           /\ Sound(z, Row(Both(l, r, e), l.kids \o r.kids, l.leaf, ovh, lp, rp), Join(a, c))
<1> DEFINE s == Both(l, r, e)
           ks == l.kids \o r.kids
           b == Row(s, ks, l.leaf, ovh, lp, rp)
           p == Len(l.ents)
           n == Len(r.ents)
           k == IF l.leaf THEN Len(l.ents) ELSE Len(l.ents) + 1
<1>1. /\ l.leaf \in BOOLEAN /\ r.leaf \in BOOLEAN /\ a \in Label /\ c \in Label
      /\ l.ents \in Seq(Ent) /\ r.ents \in Seq(Ent) /\ l.kids \in Seq(Int) /\ r.kids \in Seq(Int)
      /\ Rising(l.ents) /\ Rising(r.ents)
  BY DEF Sound
<1>2. /\ l.leaf => l.kids = <<>> /\ Holds(l.ents, a)
      /\ r.leaf => r.kids = <<>> /\ Holds(r.ents, c)
      /\ ~l.leaf => /\ Len(l.kids) = p + 1
                    /\ \A i \in 1 .. p + 1 : l.kids[i] \in DOMAIN z
                    /\ Spans(l.ents, Kids(z, l), a)
      /\ ~r.leaf => /\ Len(r.kids) = n + 1
                    /\ \A i \in 1 .. n + 1 : r.kids[i] \in DOMAIN z
                    /\ Spans(r.ents, Kids(z, r), c)
  BY DEF Sound
<1>3. l.leaf = r.leaf
  <2>1. (l.leaf => a.h = 1) /\ (r.leaf => c.h = 1) /\ (~l.leaf => a.h > 1) /\ (~r.leaf => c.h > 1)
    BY <1>2 DEF Holds, Spans
  <2>2. a.h = c.h /\ ~(a.h = 1 /\ a.h > 1)
    BY DEF Meet
  <2> QED  BY <2>1, <2>2, <1>1
<1>4. Join(a, c) \in Label /\ a.hi \in Nat
  BY JoinLabel
<1>5. e \in Ent /\ IndexBase + FreshOvh + e.size =< PgSize
  BY DEF Sep
<1>0. (l.leaf => k = Len(l.ents)) /\ (~l.leaf => k = Len(l.ents) + 1)
  OBVIOUS
<1> HIDE DEF k
<1>14. InRow(s, l, r, e, k) /\ KidsInRow(ks, l, r)
  BY <1>0, <1>1, <1>5, BothIs
<1> HIDE DEF s, ks
<1>6. /\ s \in Seq(Ent) /\ Len(s) = k + n /\ p \in Nat /\ n \in Nat /\ k \in Nat
      /\ \A i \in 1 .. p : s[i] = l.ents[i]
      /\ ~l.leaf => s[p + 1] = e
      /\ \A i \in 1 .. n : s[k + i] = r.ents[i]
  BY <1>14 DEF InRow
<1>12. /\ ks \in Seq(Int) /\ Len(ks) = Len(l.kids) + Len(r.kids)
       /\ \A i \in 1 .. Len(l.kids) : ks[i] = l.kids[i]
       /\ \A i \in 1 .. Len(r.kids) : ks[Len(l.kids) + i] = r.kids[i]
  BY <1>14 DEF KidsInRow
<1>13. p \in Nat /\ n \in Nat
  BY <1>6
<1>11. (l.leaf => k = p) /\ (~l.leaf => k = p + 1)
  BY <1>0
<1>7. b.ents = s /\ b.kids = ks /\ b.leaf = l.leaf
  BY DEF Row
<1>8. /\ \A i \in 1 .. p : Base(l.leaf) + Overhead(l.leaf) + l.ents[i].size =< PgSize
      /\ \A i \in 1 .. n : Base(l.leaf) + Overhead(l.leaf) + r.ents[i].size =< PgSize
  BY <1>3 DEF Sound, Roomy
<1> HIDE DEF b, p, n
<1>9. CASE l.leaf
  <2>1. Len(s) = p + n /\ \A i \in 1 .. n : s[p + i] = r.ents[i]
    BY <1>6, <1>9, <1>11
  <2>2. Parts(s, p, l.ents, r.ents)
    <3>1. p + n - p = n /\ p \in 0 .. p + n
      BY <1>13
    <3>6. Len(s) = p + n
      BY <2>1
    <3>2. Len(s) - p = n /\ p \in 0 .. Len(s)
      BY ONLY <3>1, <3>6, <1>13
    <3>3. s \in Seq(Ent) /\ l.ents \in Seq(Ent) /\ r.ents \in Seq(Ent)
      BY <1>1, <1>6
    <3>4. Len(l.ents) = p /\ \A i \in 1 .. p : l.ents[i] = s[i]
      BY <1>6 DEF p
    <3>5. Len(r.ents) = Len(s) - p /\ \A i \in 1 .. Len(s) - p : r.ents[i] = s[p + i]
      BY <3>2, <2>1 DEF n
    <3> QED  BY <3>2, <3>3, <3>4, <3>5 DEF Parts
  <2>3. Holds(s, Join(a, c)) /\ Rising(s)
    BY <2>2, <1>1, <1>2, <1>3, <1>9, JoinHolds
  <2>4. ks = <<>>
    <3>11. Len(ks) = Len(l.kids) + Len(r.kids)
      BY <1>12
    <3>12. l.kids = <<>>
      BY <1>2, <1>9
    <3>13. r.kids = <<>>
      BY <1>2, <1>3, <1>9
    <3>1. Len(ks) = 0
      BY <3>11, <3>12, <3>13
    <3> QED  BY <3>1, <1>12
  <2>5. Roomy(b)
    <3>1. \A i \in 1 .. p + n : i \in 1 .. p \/ (i - p \in 1 .. n /\ i = p + (i - p))
      BY <1>13
    <3>2. \A i \in 1 .. p + n : Base(l.leaf) + Overhead(l.leaf) + s[i].size =< PgSize
      <4> TAKE i \in 1 .. p + n
      <4>1. CASE i \in 1 .. p
        BY <4>1, <1>6, <1>8
      <4>2. CASE i - p \in 1 .. n /\ i = p + (i - p)
        <5>1. s[i] = r.ents[i - p]
          BY <4>2, <2>1
        <5> QED  BY <5>1, <4>2, <1>8
      <4> QED  BY <3>1, <4>1, <4>2
    <3> QED  BY <3>2, <2>1, <1>7 DEF Roomy
  <2>6. s \in Seq(Ent) /\ ks \in Seq(Int)
    BY <1>6, <1>12
  <2>7. Sound(z, b, Join(a, c))
    BY <2>3, <2>4, <2>5, <2>6, <1>1, <1>4, <1>7, <1>9 DEF Sound
  <2> QED  BY <2>7, <1>3 DEF b, s, ks
<1>10. CASE ~l.leaf
  <2> DEFINE q == p + 1
             L == Kids(z, b)
  <2>1. /\ Len(s) = q + n /\ (\A i \in 1 .. n : s[q + i] = r.ents[i]) /\ s[q] = e /\ q \in Nat
        /\ q \in 1 .. q + n
    <3>1. k = q
      BY <1>10, <1>11
    <3>2. q \in Nat /\ q \in 1 .. q + n
      BY <1>13
    <3> HIDE DEF q
    <3>3. s[q] = e
      BY <1>6, <1>10 DEF q
    <3> QED  BY <3>1, <3>2, <3>3, <1>6
  <2>2. Len(l.kids) = q /\ Len(r.kids) = n + 1 /\ Len(ks) = q + n + 1
    <3>1. Len(l.kids) = q /\ Len(r.kids) = n + 1
      BY <1>2, <1>3, <1>10
    <3>2. Len(ks) = q + (n + 1)
      BY <3>1, <1>12
    <3> QED  BY <3>1, <3>2, <1>13
  <2>3. (\A i \in 1 .. q : ks[i] = l.kids[i]) /\ \A i \in 1 .. n + 1 : ks[q + i] = r.kids[i]
    BY <2>2, <1>12
  <2>4. (\A i \in 1 .. q : l.kids[i] \in DOMAIN z) /\ \A i \in 1 .. n + 1 : r.kids[i] \in DOMAIN z
    BY <1>2, <1>3, <1>10
  <2>5. (\A i \in 1 .. q : Kids(z, l)[i] = L[i]) /\ \A i \in 1 .. n + 1 : Kids(z, r)[i] = L[q + i]
    <3>1. (\A i \in 1 .. q : i \in 1 .. q + n + 1) /\ \A i \in 1 .. n + 1 : q + i \in 1 .. q + n + 1
      BY <1>13
    <3> QED  BY <3>1, <2>2, <2>3, <1>7 DEF Kids
  <2>6. CutAt(s, L, q, l.ents, Kids(z, l), r.ents, Kids(z, r))
    <3>1. p = q - 1 /\ q + n - q = n
      BY <1>13
    <3> HIDE DEF q, L
    <3>7. Len(s) = q + n
      BY <2>1
    <3>6. Len(s) - q = n
      BY ONLY <3>7, <1>13 DEF q
    <3>2. \A i \in 1 .. q - 1 : l.ents[i] = s[i]
      BY <3>1, <1>6
    <3>3. Len(l.ents) = q - 1 /\ Len(r.ents) = Len(s) - q
      BY <3>1, <3>6 DEF p, n
    <3>4. \A i \in 1 .. Len(s) - q : r.ents[i] = s[q + i]
      BY <3>6, <2>1
    <3>5. \A i \in 1 .. Len(s) - q + 1 : Kids(z, r)[i] = L[q + i]
      BY <3>6, <2>5
    <3> QED  BY <3>2, <3>3, <3>4, <3>5, <2>1, <2>5, <1>1, <1>6 DEF CutAt
  <2>7. Spans(s, L, Join(a, c)) /\ Rising(s)
    <3>1. s[q].key = a.hi
      BY <2>1
    <3> HIDE DEF q, L
    <3>2. Spans(l.ents, Kids(z, l), a) /\ Spans(r.ents, Kids(z, r), c)
      BY <1>2, <1>3, <1>10
    <3> QED  BY <3>1, <3>2, <2>6, <1>1, JoinSpans
  <2>8. Roomy(b)
    <3>1. \A i \in 1 .. q + n : i \in 1 .. p \/ i = q \/ (i - q \in 1 .. n /\ i = q + (i - q))
      BY <1>13
    <3>2. Base(l.leaf) + Overhead(l.leaf) + e.size =< PgSize
      BY <1>5, <1>10 DEF Base, Overhead
    <3>3. \A i \in 1 .. q + n : Base(l.leaf) + Overhead(l.leaf) + s[i].size =< PgSize
      <4> TAKE i \in 1 .. q + n
      <4>1. CASE i \in 1 .. p
        BY <4>1, <1>6, <1>8
      <4>2. CASE i - q \in 1 .. n /\ i = q + (i - q)
        <5>1. s[i] = r.ents[i - q]
          BY <4>2, <2>1
        <5> QED  BY <5>1, <4>2, <1>8
      <4>3. CASE i = q
        BY <4>3, <3>2, <2>1
      <4> QED  BY <3>1, <4>1, <4>2, <4>3
    <3> QED  BY <3>3, <2>1, <1>7 DEF Roomy
  <2>9. \A i \in 1 .. q + n + 1 : ks[i] \in DOMAIN z
    <3>1. \A i \in 1 .. q + n + 1 : i \in 1 .. q \/ (i - q \in 1 .. n + 1 /\ i = q + (i - q))
      BY <1>13
    <3> QED  BY <3>1, <2>3, <2>4
  <2>10. s \in Seq(Ent) /\ ks \in Seq(Int) /\ Len(ks) = Len(s) + 1
    BY <1>6, <1>12, <2>1, <2>2
  <2>11. \A i \in 1 .. Len(ks) : ks[i] \in DOMAIN z
    BY <2>9, <2>2
  <2> HIDE DEF L
  <2>12. Sound(z, b, Join(a, c))
    BY <2>7, <2>8, <2>10, <2>11, <1>1, <1>4, <1>7, <1>10 DEF Sound, L
  <2> QED  BY <2>12, <1>3 DEF b, s, ks
<1> QED  BY <1>9, <1>10, <1>1

(* Nodes l and r are the two ends of a row that is right for label v.      *)
InPair(z, b, p, l, r, v) ==
    /\ b \in Neighbours /\ Alike(b) /\ b.tot = b.base + Over(b, 0) /\ b.base = Base(b.leaf)
    /\ Sound(z, b, v) /\ p \in 0 .. Len(b.ents) /\ IsLeft(l, b, p) /\ IsRight(r, b, p)

(* Node l with label a and node r with label c, neighbours at separator e. *)
Adjoin(z, l, r, a, c, e) ==
    /\ l \in NodeType /\ r \in NodeType /\ Sound(z, l, a) /\ Sound(z, r, c)
    /\ Meet(a, c) /\ Sep(e) /\ e.key = a.hi
(* Nodes l2 and r2 are the first p entries of their row and the others.    *)
Ends(l2, r2, p, n, l, r, e) ==
    /\ l2 \in NodeType /\ r2 \in NodeType /\ Exact(l2) /\ Exact(r2) /\ l2.ovh = r2.ovh
    /\ l2.leaf = l.leaf /\ r2.leaf = l.leaf
    /\ p \in Nat /\ n \in Nat /\ n = Len(Both(l, r, e)) /\ p =< n
    /\ Len(l2.ents) = p /\ \A i \in 1 .. p : l2.ents[i] = Both(l, r, e)[i]
    /\ Len(r2.ents) = n - p /\ \A i \in 1 .. n - p : r2.ents[i] = Both(l, r, e)[p + i]
    /\ l.leaf => l2.kids = <<>> /\ r2.kids = <<>>
    /\ ~l.leaf => /\ Len(l2.kids) = p + 1
                  /\ \A i \in 1 .. p + 1 : l2.kids[i] = (l.kids \o r.kids)[i]
                  /\ Len(r2.kids) = n - p + 1
                  /\ \A i \in 1 .. n - p + 1 : r2.kids[i] = (l.kids \o r.kids)[p + i]

(* The row of l and r, its left end l2 and its right end r2.               *)
LEMMA RowPair ==
    ASSUME NEW z, NEW l, NEW r, NEW a, NEW c, NEW e, Adjoin(z, l, r, a, c, e),
           NEW l2, NEW r2, NEW p, NEW n, Ends(l2, r2, p, n, l, r, e)
    PROVE  \E b : InPair(z, b, p, l2, r2, Join(a, c)) /\ b.ents = Both(l, r, e)
                  /\ b.leaf = l.leaf /\ b.rovh = l2.ovh /\ b.lovh = l2.ovh
                  /\ b.lpage = l2.page /\ b.rpage = r2.page
<1>a. /\ l \in NodeType /\ r \in NodeType /\ Sound(z, l, a) /\ Sound(z, r, c)
      /\ Meet(a, c) /\ Sep(e) /\ e.key = a.hi
  BY DEF Adjoin
<1>b. /\ l2 \in NodeType /\ r2 \in NodeType /\ Exact(l2) /\ Exact(r2) /\ l2.ovh = r2.ovh
      /\ l2.leaf = l.leaf /\ r2.leaf = l.leaf
      /\ p \in Nat /\ n \in Nat /\ n = Len(Both(l, r, e)) /\ p =< n
      /\ Len(l2.ents) = p /\ \A i \in 1 .. p : l2.ents[i] = Both(l, r, e)[i]
      /\ Len(r2.ents) = n - p /\ \A i \in 1 .. n - p : r2.ents[i] = Both(l, r, e)[p + i]
      /\ l.leaf => l2.kids = <<>> /\ r2.kids = <<>>
      /\ ~l.leaf => /\ Len(l2.kids) = p + 1
                    /\ \A i \in 1 .. p + 1 : l2.kids[i] = (l.kids \o r.kids)[i]
                    /\ Len(r2.kids) = n - p + 1
                    /\ \A i \in 1 .. n - p + 1 : r2.kids[i] = (l.kids \o r.kids)[p + i]
  BY DEF Ends
<1> USE <1>a, <1>b
<1> DEFINE s == Both(l, r, e)
           ks == l.kids \o r.kids
           b == Row(s, ks, l.leaf, l2.ovh, l2.page, r2.page)
<1>1. /\ l.leaf \in BOOLEAN /\ l.ents \in Seq(Ent) /\ r.ents \in Seq(Ent)
      /\ l.kids \in Seq(Int) /\ r.kids \in Seq(Int)
      /\ l2.ents \in Seq(Ent) /\ r2.ents \in Seq(Ent) /\ l2.kids \in Seq(Int) /\ r2.kids \in Seq(Int)
      /\ l2.ovh \in Nat /\ l2.page \in Int /\ r2.page \in Int
  BY DEF NodeType
<1>2. e \in Ent
  BY DEF Sep
<1>3. l.leaf = r.leaf /\ Sound(z, b, Join(a, c))
  BY BothSound
<1>4. s \in Seq(Ent) /\ ks \in Seq(Int)
  <2> DEFINE k == IF l.leaf THEN Len(l.ents) ELSE Len(l.ents) + 1
  <2>1. (l.leaf => k = Len(l.ents)) /\ (~l.leaf => k = Len(l.ents) + 1)
    OBVIOUS
  <2> HIDE DEF k
  <2>2. InRow(s, l, r, e, k) /\ KidsInRow(ks, l, r)
    BY <2>1, <1>1, <1>2, BothIs
  <2> HIDE DEF s, ks
  <2> QED  BY <2>2 DEF InRow, KidsInRow
<1>5. ~l.leaf => Len(ks) = n + 1
  <2>1. b.leaf = l.leaf /\ b.kids = ks /\ b.ents = s
    BY DEF Row
  <2> HIDE DEF b, ks, s
  <2>2. ~l.leaf => Len(ks) = Len(s) + 1
    BY <1>3, <2>1 DEF Sound
  <2> QED  BY <2>2 DEF s
<1> HIDE DEF s, ks
<1>6. Len(s) = n
  BY DEF s
<1>7. b \in Neighbours /\ Alike(b) /\ b.tot = b.base + Over(b, 0)
  <2>1. ~l.leaf => Len(ks) = Len(s) + 1
    BY <1>5, <1>6
  <2> DEFINE f == l.leaf
             o == l2.ovh
             x == l2.page
             y == r2.page
  <2>2. f \in BOOLEAN /\ o \in Nat /\ x \in Int /\ y \in Int /\ (~f => Len(ks) = Len(s) + 1)
    BY <2>1, <1>1
  <2>3. b = Row(s, ks, f, o, x, y)
    OBVIOUS
  <2> HIDE DEF f, o, x, y, b
  <2> QED  BY <2>2, <2>3, <1>4, RowIs
<1>8. l2.ents = SubSeq(s, 1, p)
  <2> DEFINE t == l2.ents
  <2>1. /\ 1 \in Nat /\ 1 =< 1 /\ p =< Len(s) /\ 1 =< p + 1 /\ Len(t) = p - 1 + 1
        /\ \A i \in 1 .. p - 1 + 1 : t[i] = s[1 + i - 1]
    BY <1>6 DEF s
  <2> HIDE DEF t
  <2>2. t = SubSeq(s, 1, p)
    BY <2>1, <1>4, <1>1, PartIs DEF t
  <2> QED  BY <2>2 DEF t
<1>9. r2.ents = SubSeq(s, p + 1, n)
  <2> DEFINE t == r2.ents
             q == p + 1
  <2>1. /\ q \in Nat /\ 1 =< q /\ n =< Len(s) /\ q =< n + 1 /\ Len(t) = n - q + 1
        /\ \A i \in 1 .. n - q + 1 : t[i] = s[q + i - 1]
    <3>1. n - q + 1 = n - p /\ \A i \in 1 .. n - p : q + i - 1 = p + i
      OBVIOUS
    <3> QED  BY <3>1, <1>6 DEF s
  <2>3. t \in Seq(Ent)
    BY <1>1
  <2> HIDE DEF t, q
  <2>2. t = SubSeq(s, q, n)
    BY <2>1, <2>3, <1>4, PartIs
  <2> QED  BY <2>2 DEF t, q
<1>10. l2.kids = IF l.leaf THEN <<>> ELSE SubSeq(ks, 1, p + 1)
  <2>1. CASE l.leaf
    BY <2>1
  <2>2. CASE ~l.leaf
    <3> DEFINE T == Int
               t == l2.kids
               q == p + 1
    <3>1. /\ 1 \in Nat /\ 1 =< 1 /\ q \in Nat /\ q =< Len(ks) /\ 1 =< q + 1 /\ Len(t) = q - 1 + 1
          /\ \A i \in 1 .. q - 1 + 1 : t[i] = ks[1 + i - 1]
      <4>1. Len(ks) = n + 1 /\ Len(t) = q /\ \A i \in 1 .. q : t[i] = ks[i]
        BY <2>2, <1>5 DEF ks
      <4>2. q - 1 + 1 = q /\ q =< n + 1 /\ q \in Nat /\ 1 =< q + 1 /\ \A i \in 1 .. q : 1 + i - 1 = i
        OBVIOUS
      <4> QED  BY ONLY <4>1, <4>2
    <3>2. ks \in Seq(T) /\ t \in Seq(T)
      BY <1>4, <1>1
    <3> HIDE DEF T, t, q
    <3>3. t = SubSeq(ks, 1, q)
      BY ONLY <3>1, <3>2, PartIs
    <3> QED  BY <3>3, <2>2 DEF t, q
  <2> QED  BY <2>1, <2>2
<1>11. r2.kids = IF l.leaf THEN <<>> ELSE SubSeq(ks, p + 1, n + 1)
  <2>1. CASE l.leaf
    BY <2>1
  <2>2. CASE ~l.leaf
    <3> DEFINE T == Int
               t == r2.kids
               q == p + 1
               m == n + 1
    <3>1. /\ q \in Nat /\ 1 =< q /\ m \in Nat /\ m =< Len(ks) /\ q =< m + 1 /\ Len(t) = m - q + 1
          /\ \A i \in 1 .. m - q + 1 : t[i] = ks[q + i - 1]
      <4>1. m - q + 1 = n - p + 1 /\ \A i \in 1 .. n - p + 1 : q + i - 1 = p + i
        OBVIOUS
      <4>2. Len(ks) = m /\ Len(t) = n - p + 1 /\ \A i \in 1 .. n - p + 1 : t[i] = ks[p + i]
        BY <2>2, <1>5 DEF ks
      <4>3. q \in Nat /\ 1 =< q /\ m \in Nat /\ q =< m + 1
        OBVIOUS
      <4> QED  BY ONLY <4>1, <4>2, <4>3
    <3>2. ks \in Seq(T) /\ t \in Seq(T)
      BY <1>4, <1>1
    <3> HIDE DEF T, t, q, m
    <3>3. t = SubSeq(ks, q, m)
      BY ONLY <3>1, <3>2, PartIs
    <3> QED  BY <3>3, <2>2 DEF t, q, m
  <2> QED  BY <2>1, <2>2
<1>12. IsLeft(l2, b, p) /\ IsRight(r2, b, p)
  <2>1. p \in 0 .. Len(s) /\ (~l.leaf => Len(ks) = Len(s) + 1)
    BY <1>5, <1>6
  <2>2. r2.ents = SubSeq(s, p + 1, Len(s))
    BY <1>9, <1>6
  <2>3. r2.kids = IF l.leaf THEN <<>> ELSE SubSeq(ks, p + 1, Len(s) + 1)
    BY <1>11, <1>6
  <2> QED  BY <2>1, <2>2, <2>3, <1>1, <1>4, <1>8, <1>10, RowEnds, ZenonT(60)
<1>13. b.ents = s /\ b.leaf = l.leaf /\ b.rovh = l2.ovh /\ b.lovh = l2.ovh
       /\ b.lpage = l2.page /\ b.rpage = r2.page /\ b.base = Base(l.leaf)
  BY DEF Row
<1> HIDE DEF b
<1>14. InPair(z, b, p, l2, r2, Join(a, c))
  BY <1>3, <1>6, <1>7, <1>12, <1>13 DEF InPair
<1> QED  BY <1>13, <1>14 DEF s

(* What _spread() makes of the left and of the right sibling.              *)
Lefter(l, r, e) ==
    IF r.leaf THEN l ELSE SetKid(Addpage(l, Count(l), e), Count(l) + 1, Kid(r, 0))
Righter(l, r, e) ==
    IF l.leaf THEN r ELSE SetKid(Addpage(r, 0, e), 0, Kid(l, Count(l)))

LeafRow(s, l, r) ==
    /\ Len(s) = Len(l.ents) + Len(r.ents) /\ l.kids = <<>> /\ r.kids = <<>>
    /\ \A i \in 1 .. Len(r.ents) : s[Len(l.ents) + i] = r.ents[i]
IndexRow(s, ks, l, r, e) ==
    /\ Len(s) = Len(l.ents) + 1 + Len(r.ents) /\ s[Len(l.ents) + 1] = e
    /\ Len(l.kids) = Len(l.ents) + 1 /\ Len(r.kids) = Len(r.ents) + 1
    /\ \A i \in 1 .. Len(r.ents) : s[Len(l.ents) + 1 + i] = r.ents[i]
    /\ \A i \in 1 .. Len(l.ents) + 1 : ks[i] = l.kids[i]
    /\ \A i \in 1 .. Len(r.ents) + 1 : ks[Len(l.ents) + 1 + i] = r.kids[i]

LEMMA BothEnts ==
    ASSUME NEW z, NEW l, NEW r, NEW a, NEW c, NEW e, Adjoin(z, l, r, a, c, e)
    PROVE  /\ l.leaf = r.leaf /\ l.leaf \in BOOLEAN /\ Len(l.ents) \in Nat /\ Len(r.ents) \in Nat
           /\ l.leaf => LeafRow(Both(l, r, e), l, r)
           /\ ~l.leaf => IndexRow(Both(l, r, e), l.kids \o r.kids, l, r, e)
           /\ \A i \in 1 .. Len(l.ents) : Both(l, r, e)[i] = l.ents[i]
<1> DEFINE s == Both(l, r, e)
           ks == l.kids \o r.kids
           x == Len(l.ents)
           y == Len(r.ents)
           k == IF l.leaf THEN Len(l.ents) ELSE Len(l.ents) + 1
<1>1. /\ l.leaf \in BOOLEAN /\ l.ents \in Seq(Ent) /\ r.ents \in Seq(Ent)
      /\ l.kids \in Seq(Int) /\ r.kids \in Seq(Int)
  BY DEF NodeType, Adjoin
<1>2. e \in Ent
  BY DEF Sep, Adjoin
<1>3. l.leaf = r.leaf
  BY BothSound DEF Adjoin
<1>4. (l.leaf => k = Len(l.ents)) /\ (~l.leaf => k = Len(l.ents) + 1)
  OBVIOUS
<1> HIDE DEF k
<1>5. InRow(s, l, r, e, k) /\ KidsInRow(ks, l, r)
  BY <1>4, <1>1, <1>2, BothIs
<1>6. /\ l.leaf => l.kids = <<>>
      /\ r.leaf => r.kids = <<>>
      /\ ~l.leaf => Len(l.kids) = x + 1
      /\ ~r.leaf => Len(r.kids) = y + 1
  BY DEF Sound, Adjoin
<1> HIDE DEF s, ks
<1>7. /\ s \in Seq(Ent) /\ Len(s) = k + y /\ x \in Nat /\ y \in Nat
      /\ \A i \in 1 .. x : s[i] = l.ents[i]
      /\ ~l.leaf => s[x + 1] = e
      /\ \A i \in 1 .. y : s[k + i] = r.ents[i]
  BY <1>5 DEF InRow
<1>8. /\ \A i \in 1 .. Len(l.kids) : ks[i] = l.kids[i]
      /\ \A i \in 1 .. Len(r.kids) : ks[Len(l.kids) + i] = r.kids[i]
  BY <1>5 DEF KidsInRow
<1> HIDE DEF x, y
<1>9. ASSUME l.leaf
      PROVE  /\ Len(s) = x + y /\ l.kids = <<>> /\ r.kids = <<>>
             /\ \A i \in 1 .. y : s[x + i] = r.ents[i]
  <2>1. k = x
    BY <1>9, <1>4 DEF x
  <2>2. l.kids = <<>> /\ r.kids = <<>>
    BY <1>9, <1>6, <1>3
  <2> QED  BY <2>1, <2>2, <1>7
<1>10. ASSUME ~l.leaf
       PROVE  /\ Len(s) = x + 1 + y /\ Len(l.kids) = x + 1 /\ Len(r.kids) = y + 1
              /\ s[x + 1] = e
              /\ \A i \in 1 .. y : s[x + 1 + i] = r.ents[i]
              /\ \A i \in 1 .. x + 1 : ks[i] = l.kids[i]
              /\ \A i \in 1 .. y + 1 : ks[x + 1 + i] = r.kids[i]
  <2>1. k = x + 1
    BY <1>10, <1>4 DEF x
  <2>2. Len(l.kids) = x + 1 /\ Len(r.kids) = y + 1
    BY <1>10, <1>6, <1>3
  <2>3. s[x + 1] = e
    BY <1>7, <1>10
  <2>4. (\A i \in 1 .. x + 1 : ks[i] = l.kids[i]) /\ \A i \in 1 .. y + 1 : ks[x + 1 + i] = r.kids[i]
    BY <2>2, <1>8
  <2>5. Len(s) = x + 1 + y /\ \A i \in 1 .. y : s[x + 1 + i] = r.ents[i]
    BY <2>1, <1>7
  <2> QED  BY <2>2, <2>3, <2>4, <2>5
<1>11. l.leaf => LeafRow(s, l, r)
  BY <1>9 DEF LeafRow, x, y
<1>12. ~l.leaf => IndexRow(s, ks, l, r, e)
  BY <1>10 DEF IndexRow, x, y
<1>13. Len(l.ents) \in Nat /\ Len(r.ents) \in Nat
  BY <1>7 DEF x, y
<1>14. \A i \in 1 .. Len(l.ents) : s[i] = l.ents[i]
  BY <1>7 DEF x
<1> QED  BY <1>1, <1>3, <1>11, <1>12, <1>13, <1>14 DEF s, ks

LEMMA LeftPair ==
    ASSUME NEW z, NEW l, NEW r, NEW a, NEW c, NEW e, Adjoin(z, l, r, a, c, e),
           Exact(l), Exact(r), l.ovh = r.ovh
    PROVE  LET l2 == Lefter(l, r, e)
           IN  \E b, p : /\ InPair(z, b, p, l2, r, Join(a, c)) /\ l2.page = l.page
                         /\ b.rovh = l.ovh
                         /\ p > 0 => b.base + Over(b, 0) - Over(b, p - 1) =< l.end
<1> DEFINE s == Both(l, r, e)
           ks == l.kids \o r.kids
           x == Len(l.ents)
           y == Len(r.ents)
           l2 == Lefter(l, r, e)
           p == Len(l2.ents)
           n == Len(s)
<1>0. /\ l.leaf = r.leaf /\ l.leaf \in BOOLEAN /\ x \in Nat /\ y \in Nat
      /\ l.leaf => LeafRow(s, l, r)
      /\ ~l.leaf => IndexRow(s, ks, l, r, e)
      /\ \A i \in 1 .. x : s[i] = l.ents[i]
  BY BothEnts
<1> HIDE DEF s, ks
<1>1. l.leaf = r.leaf /\ l.leaf \in BOOLEAN /\ x \in Nat /\ y \in Nat
  BY <1>0
<1>10. \A i \in 1 .. x : s[i] = l.ents[i]
  BY <1>0
<1>11. ASSUME l.leaf
       PROVE  /\ Len(s) = x + y /\ l.kids = <<>> /\ r.kids = <<>>
              /\ \A i \in 1 .. y : s[x + i] = r.ents[i]
  BY <1>0, <1>11 DEF LeafRow
<1>12. ASSUME ~l.leaf
       PROVE  /\ Len(s) = x + 1 + y /\ Len(l.kids) = x + 1 /\ Len(r.kids) = y + 1
              /\ s[x + 1] = e
              /\ \A i \in 1 .. y : s[x + 1 + i] = r.ents[i]
              /\ \A i \in 1 .. x + 1 : ks[i] = l.kids[i]
              /\ \A i \in 1 .. y + 1 : ks[x + 1 + i] = r.kids[i]
  BY <1>0, <1>12 DEF IndexRow
<1>2. /\ l.end \in Int /\ l.ovh \in Nat /\ e \in Ent /\ e.size \in Nat /\ r.kids \in Seq(Int)
      /\ l \in NodeType /\ r \in NodeType
  BY DEF NodeType, Sep, Ent, Adjoin
<1> HIDE DEF x, y
(* The left end of the row. *)
<1>3. /\ l2 \in NodeType /\ Exact(l2) /\ l2.ovh = l.ovh /\ l2.page = l.page /\ l2.leaf = l.leaf
      /\ l.leaf => p = x /\ l2.kids = <<>> /\ l2.end = l.end
      /\ ~l.leaf => /\ p = x + 1 /\ Len(l2.kids) = p + 1 /\ l2.end = l.end + (e.size + l.ovh)
                    /\ \A i \in 1 .. p + 1 : l2.kids[i] = ks[i]
      /\ \A i \in 1 .. p : l2.ents[i] = s[i]
  <2>1. CASE l.leaf
    <3>1. l2 = l
      BY <2>1, <1>1 DEF Lefter
    <3>2. p = x
      BY <3>1 DEF x
    <3>3. l.kids = <<>>
      BY <2>1, <1>11
    <3>4. \A i \in 1 .. p : l2.ents[i] = s[i]
      BY <3>1, <3>2, <1>10
    <3>5. /\ l2 \in NodeType /\ Exact(l2) /\ l2.ovh = l.ovh /\ l2.page = l.page /\ l2.leaf = l.leaf
          /\ l2.kids = <<>> /\ l2.end = l.end
      BY <3>1, <3>3, <1>2
    <3> HIDE DEF l2, p
    <3> QED  BY <3>2, <3>4, <3>5, <2>1
  <2>2. CASE ~l.leaf
    <3>0. /\ Len(l.kids) = x + 1 /\ Len(r.kids) = y + 1
          /\ s[x + 1] = e
          /\ \A i \in 1 .. x + 1 : ks[i] = l.kids[i]
          /\ \A i \in 1 .. y + 1 : ks[x + 1 + i] = r.kids[i]
      BY <2>2, <1>12
    <3> DEFINE A == Addpage(l, x, e)
               kid == r.kids[1]
               B == SetKid(A, x + 1, kid)
    <3>1. l2 = B
      BY <2>2, <1>1 DEF Lefter, Count, Kid, x
    <3>2. Grown(l) /\ x \in 0 .. Len(l.ents) /\ x = Len(l.ents)
      BY <3>0, <1>1 DEF Grown, x
    <3>3. /\ A \in NodeType /\ Same(A, l) /\ Len(A.ents) = x + 1
          /\ \A j \in 1 .. x + 1 :
               A.ents[j] = IF j < x + 1 THEN l.ents[j] ELSE IF j = x + 1 THEN e ELSE l.ents[j - 1]
          /\ Len(A.kids) = x + 2
          /\ \A j \in 1 .. x + 2 : A.kids[j] = IF j < x + 2 THEN l.kids[j] ELSE l.kids[j - 1]
          /\ Exact(A)
      <4>1. l \in NodeType /\ e \in Ent /\ ~l.leaf
        BY <1>2, <2>2
      <4> QED  BY ONLY <3>2, <4>1, Exact(l), AddpageIs
    <3>4. A.end = l.end + (e.size + l.ovh)
      BY <1>2 DEF Addpage, NodeType
    <3> HIDE DEF A
    <3>5. kid \in Int
      <4>1. 1 \in 1 .. Len(r.kids)
        BY <3>0, <1>1
      <4> QED  BY <4>1, <1>2, ElementOfSeq
    <3>6. x + 1 \in 0 .. Len(A.kids) - 1
      BY <3>3, <1>1
    <3> HIDE DEF kid
    <3>7. /\ B \in NodeType /\ Same(B, A) /\ B.ents = A.ents /\ B.end = A.end
          /\ Len(B.kids) = Len(A.kids)
          /\ \A j \in 1 .. Len(A.kids) : B.kids[j] = IF j = (x + 1) + 1 THEN kid ELSE A.kids[j]
          /\ Exact(B)
      BY <3>3, <3>5, <3>6, SetKidIs
    <3> HIDE DEF B, l2
    <3>8. p = x + 1 /\ p \in Nat
      BY <3>1, <3>7, <3>3, <1>1
    <3>9. Len(l2.kids) = p + 1
      BY <3>1, <3>7, <3>3, <3>8, <1>1
    <3>10. \A i \in 1 .. p : l2.ents[i] = s[i]
      <4> TAKE i \in 1 .. p
      <4>1. i \in 1 .. x + 1 /\ (i < x + 1 => i \in 1 .. x) /\ (i < x + 1 \/ i = x + 1)
        BY <3>8, <1>1
      <4>2. l2.ents[i] = IF i < x + 1 THEN l.ents[i] ELSE e
        BY <4>1, <3>1, <3>7, <3>3
      <4>3. CASE i < x + 1
        BY <4>1, <4>2, <4>3, <1>10
      <4>4. CASE i = x + 1
        <5>1. ~(i < x + 1)
          BY <4>4, <1>1
        <5> QED  BY <4>2, <4>4, <5>1, <3>0
      <4> QED  BY <4>1, <4>3, <4>4
    <3>11. \A i \in 1 .. p + 1 : l2.kids[i] = ks[i]
      <4> TAKE i \in 1 .. p + 1
      <4>1. /\ i \in 1 .. x + 2 /\ (i < x + 2 => i \in 1 .. x + 1) /\ (i < x + 2 \/ i = x + 2)
            /\ (x + 1) + 1 = x + 2
        BY <3>8, <1>1
      <4>2. l2.kids[i] = IF i = x + 2 THEN kid ELSE l.kids[i]
        BY <4>1, <3>1, <3>7, <3>3
      <4>3. CASE i < x + 2
        <5>1. ks[i] = l.kids[i]
          BY <4>1, <4>3, <3>0
        <5>2. i # x + 2
          BY <4>3, <1>1
        <5> QED  BY <4>2, <5>1, <5>2
      <4>4. CASE i = x + 2
        <5>1. x + 1 + 1 = x + 2 /\ 1 \in 1 .. y + 1
          BY <1>1
        <5>2. ks[x + 1 + 1] = r.kids[1]
          BY <5>1, <3>0
        <5>3. ks[x + 2] = r.kids[1]
          BY <5>1, <5>2
        <5> QED  BY <4>2, <4>4, <5>3 DEF kid
      <4> QED  BY <4>1, <4>3, <4>4
    <3>12. /\ l2 \in NodeType /\ Exact(l2) /\ l2.ovh = l.ovh /\ l2.page = l.page /\ l2.leaf = l.leaf
           /\ l2.end = l.end + (e.size + l.ovh)
      BY <3>1, <3>3, <3>4, <3>7 DEF Same
    <3> QED  BY <3>8, <3>9, <3>10, <3>11, <3>12, <2>2
  <2> QED  BY <2>1, <2>2, <1>1
<1> HIDE DEF l2
(* The right end is r. *)
<1>4. /\ p \in Nat /\ n \in Nat /\ p =< n /\ Len(r.ents) = n - p
      /\ \A i \in 1 .. n - p : r.ents[i] = s[p + i]
  <2>1. CASE l.leaf
    <3>1. p = x /\ n = x + y /\ \A i \in 1 .. y : s[x + i] = r.ents[i]
      BY <2>1, <1>11, <1>3
    <3> HIDE DEF p, n
    <3>2. p \in Nat /\ n \in Nat /\ p =< n /\ n - p = y
      BY <3>1, <1>1
    <3> QED  BY <3>1, <3>2 DEF y
  <2>2. CASE ~l.leaf
    <3>1. p = x + 1 /\ n = x + 1 + y /\ \A i \in 1 .. y : s[x + 1 + i] = r.ents[i]
      BY <2>2, <1>12, <1>3
    <3> HIDE DEF p, n
    <3>2. p \in Nat /\ n \in Nat /\ p =< n /\ n - p = y
      BY <3>1, <1>1
    <3> QED  BY <3>1, <3>2 DEF y
  <2> QED  BY <2>1, <2>2, <1>1
<1>5. ~l.leaf => Len(r.kids) = n - p + 1 /\ \A i \in 1 .. n - p + 1 : r.kids[i] = ks[p + i]
  <2> HAVE ~l.leaf
  <2>1. p = x + 1 /\ n - p = y
    BY <1>4, <1>3 DEF y
  <2>2. /\ Len(r.kids) = y + 1
        /\ \A i \in 1 .. y + 1 : ks[x + 1 + i] = r.kids[i]
    BY <1>12
  <2> QED  BY <2>1, <2>2
<1> DEFINE pp == p
           nn == n
<1>6. \E b : InPair(z, b, p, l2, r, Join(a, c)) /\ b.ents = s
             /\ b.leaf = l.leaf /\ b.rovh = l2.ovh /\ b.lovh = l2.ovh
             /\ b.lpage = l2.page /\ b.rpage = r.page
  <2>0. n = Len(Both(l, r, e))
    BY DEF s
  <2>1. /\ Len(l2.ents) = p /\ \A i \in 1 .. p : l2.ents[i] = Both(l, r, e)[i]
    BY <1>3 DEF s
  <2>2. /\ Len(r.ents) = n - p /\ \A i \in 1 .. n - p : r.ents[i] = Both(l, r, e)[p + i]
    BY <1>4 DEF s
  <2>3. l.leaf => l2.kids = <<>> /\ r.kids = <<>>
    BY <1>11, <1>3
  <2>4. ~l.leaf => /\ Len(l2.kids) = p + 1
                   /\ \A i \in 1 .. p + 1 : l2.kids[i] = (l.kids \o r.kids)[i]
                   /\ Len(r.kids) = n - p + 1
                   /\ \A i \in 1 .. n - p + 1 : r.kids[i] = (l.kids \o r.kids)[p + i]
    BY <1>3, <1>5 DEF ks
  <2>5. p \in Nat /\ n \in Nat /\ p =< n /\ l2.leaf = l.leaf /\ r.leaf = l.leaf /\ l2.ovh = r.ovh
    BY <1>1, <1>3, <1>4
  <2>6. l2 \in NodeType /\ Exact(l2)
    BY <1>3
  <2>7. r \in NodeType /\ Exact(r)
    BY <1>2
  <2> HIDE DEF p, n
  <2>8. Ends(l2, r, p, n, l, r, e)
    BY <2>0, <2>1, <2>2, <2>3, <2>4, <2>5, <2>6, <2>7 DEF Ends
  <2> QED  BY <2>8, RowPair DEF s
<1>7. PICK b : InPair(z, b, p, l2, r, Join(a, c)) /\ b.ents = s /\ b.leaf = l.leaf /\ b.rovh = l2.ovh
  BY <1>6
<1>8. /\ b \in Neighbours /\ b.tot = b.base + Over(b, 0) /\ l2.end = b.tot - Over(b, p)
      /\ b.base \in Nat
  BY <1>7 DEF InPair, IsLeft, Neighbours
<1>9. p > 0 => b.base + Over(b, 0) - Over(b, p - 1) =< l.end
  <2> HAVE p > 0
  <2>1. p \in 1 .. Len(b.ents) /\ p - 1 \in 0 .. Len(b.ents) /\ 0 \in 0 .. Len(b.ents)
        /\ p \in 0 .. Len(b.ents)
    BY <1>4, <1>7
  <2>2. /\ Over(b, p - 1) = Over(b, p) + b.ents[p].size + b.rovh /\ b.ents[p] \in Ent
        /\ Over(b, p) \in Nat /\ Over(b, p - 1) \in Nat /\ Over(b, 0) \in Nat
    <3>1. Over(b, p - 1) = Over(b, p) + b.ents[p].size + b.rovh /\ b.ents[p] \in Ent
      BY <2>1, <1>8, OverStep
    <3>2. p - 1 =< p /\ 0 =< p
      BY <1>4
    <3> QED  BY <3>1, <3>2, <2>1, <1>8, OverStep
  <2> DEFINE O0 == Over(b, 0)
             O1 == Over(b, p)
             O2 == Over(b, p - 1)
             E == l2.end
             sz == b.ents[p].size
  <2>3. sz \in Nat /\ b.rovh \in Nat /\ O0 \in Nat /\ O1 \in Nat /\ O2 \in Nat
    BY <2>2, <1>8 DEF Ent, Neighbours
  <2>4. O2 = O1 + sz + b.rovh /\ E = b.base + O0 - O1
    BY <2>2, <1>8
  <2>5. CASE l.leaf
    <3>1. E = l.end
      BY <2>5, <1>3
    <3>4. l.end \in Int /\ b.base \in Nat
      BY <1>2, <1>8
    <3> HIDE DEF O0, O1, O2, E, sz
    <3>2. b.base + O0 - O2 =< l.end
      BY ONLY <3>1, <3>4, <2>3, <2>4
    <3> QED  BY <3>2 DEF O0, O2
  <2>6. CASE ~l.leaf
    <3>1. E = l.end + (e.size + l.ovh) /\ b.rovh = l.ovh
      BY <2>6, <1>3, <1>7
    <3>2. sz = e.size
      <4>1. p = x + 1 /\ s[x + 1] = e
        BY <2>6, <1>3, <1>12
      <4> QED  BY <4>1, <1>7
    <3> HIDE DEF O0, O1, O2, E, sz
    <3>4. e.size \in Nat /\ l.ovh \in Nat /\ l.end \in Int /\ b.base \in Nat
      BY <1>2, <1>8
    <3>3. b.base + O0 - O2 =< l.end
      BY ONLY <3>1, <3>2, <3>4, <2>3, <2>4
    <3> QED  BY <3>3 DEF O0, O2
  <2> QED  BY <2>5, <2>6, <1>1
<1> QED  BY <1>7, <1>9, <1>3 DEF l2, p

LEMMA RightPair ==
    ASSUME NEW z, NEW l, NEW r, NEW a, NEW c, NEW e, Adjoin(z, l, r, a, c, e),
           Exact(l), Exact(r), l.ovh = r.ovh
    PROVE  LET r2 == Righter(l, r, e)
           IN  \E b, p : /\ InPair(z, b, p, l, r2, Join(a, c)) /\ r2.page = r.page
                         /\ b.rovh = l.ovh
                         /\ p < Len(b.ents) => b.base + Over(b, p + 1) =< r.end
<1> DEFINE s == Both(l, r, e)
           ks == l.kids \o r.kids
           x == Len(l.ents)
           y == Len(r.ents)
           r2 == Righter(l, r, e)
           m == Len(r2.ents)
           n == Len(s)
<1>0. /\ l.leaf = r.leaf /\ l.leaf \in BOOLEAN /\ x \in Nat /\ y \in Nat
      /\ l.leaf => LeafRow(s, l, r)
      /\ ~l.leaf => IndexRow(s, ks, l, r, e)
      /\ \A i \in 1 .. x : s[i] = l.ents[i]
  BY BothEnts
<1> HIDE DEF s, ks
<1>1. l.leaf = r.leaf /\ l.leaf \in BOOLEAN /\ x \in Nat /\ y \in Nat
  BY <1>0
<1>10. \A i \in 1 .. x : s[i] = l.ents[i]
  BY <1>0
<1>11. ASSUME l.leaf
       PROVE  /\ Len(s) = x + y /\ l.kids = <<>> /\ r.kids = <<>>
              /\ \A i \in 1 .. y : s[x + i] = r.ents[i]
  BY <1>0, <1>11 DEF LeafRow
<1>12. ASSUME ~l.leaf
       PROVE  /\ Len(s) = x + 1 + y /\ Len(l.kids) = x + 1 /\ Len(r.kids) = y + 1
              /\ s[x + 1] = e
              /\ \A i \in 1 .. y : s[x + 1 + i] = r.ents[i]
              /\ \A i \in 1 .. x + 1 : ks[i] = l.kids[i]
              /\ \A i \in 1 .. y + 1 : ks[x + 1 + i] = r.kids[i]
  BY <1>0, <1>12 DEF IndexRow
<1>2. /\ r.end \in Int /\ r.ovh \in Nat /\ e \in Ent /\ e.size \in Nat /\ l.kids \in Seq(Int)
      /\ l \in NodeType /\ r \in NodeType
  BY DEF NodeType, Sep, Ent, Adjoin
<1> HIDE DEF x, y
(* The right end of the row. *)
<1>3. /\ r2 \in NodeType /\ Exact(r2) /\ r2.ovh = r.ovh /\ r2.page = r.page /\ r2.leaf = l.leaf
      /\ l.leaf => m = y /\ r2.kids = <<>> /\ r2.end = r.end
      /\ ~l.leaf => /\ m = y + 1 /\ Len(r2.kids) = m + 1 /\ r2.end = r.end + (e.size + r.ovh)
                    /\ \A i \in 1 .. m + 1 : r2.kids[i] = ks[x + i]
      /\ \A i \in 1 .. m : r2.ents[i] = s[x + i]
  <2>1. CASE l.leaf
    <3>1. r2 = r
      BY <2>1, <1>1 DEF Righter
    <3>2. m = y
      BY <3>1 DEF y
    <3>3. r.kids = <<>>
      BY <2>1, <1>11
    <3>4. \A i \in 1 .. m : r2.ents[i] = s[x + i]
      <4>1. \A i \in 1 .. y : s[x + i] = r.ents[i]
        BY <2>1, <1>11
      <4> QED  BY <4>1, <3>1, <3>2
    <3>5. /\ r2 \in NodeType /\ Exact(r2) /\ r2.ovh = r.ovh /\ r2.page = r.page /\ r2.leaf = l.leaf
          /\ r2.kids = <<>> /\ r2.end = r.end
      BY <3>1, <3>3, <1>2, <1>1
    <3> HIDE DEF r2, m
    <3> QED  BY <3>2, <3>4, <3>5, <2>1
  <2>2. CASE ~l.leaf
    <3>0. /\ Len(l.kids) = x + 1 /\ Len(r.kids) = y + 1
          /\ s[x + 1] = e
          /\ \A i \in 1 .. y : s[x + 1 + i] = r.ents[i]
          /\ \A i \in 1 .. x + 1 : ks[i] = l.kids[i]
          /\ \A i \in 1 .. y + 1 : ks[x + 1 + i] = r.kids[i]
      BY <2>2, <1>12
    <3> DEFINE A == Addpage(r, 0, e)
               kid == l.kids[x + 1]
               B == SetKid(A, 0, kid)
    <3>1. r2 = B
      BY <2>2 DEF Righter, Count, Kid, x
    <3>2. Grown(r) /\ 0 \in 0 .. Len(r.ents) /\ y = Len(r.ents)
      BY <3>0, <1>1 DEF Grown, y
    <3>3. /\ A \in NodeType /\ Same(A, r) /\ Len(A.ents) = y + 1
          /\ \A j \in 1 .. y + 1 :
               A.ents[j] = IF j < 0 + 1 THEN r.ents[j] ELSE IF j = 0 + 1 THEN e ELSE r.ents[j - 1]
          /\ Len(A.kids) = y + 2
          /\ \A j \in 1 .. y + 2 : A.kids[j] = IF j < 0 + 2 THEN r.kids[j] ELSE r.kids[j - 1]
          /\ Exact(A)
      <4>1. r \in NodeType /\ e \in Ent /\ ~r.leaf
        BY <1>2, <1>1, <2>2
      <4>2. PICK i, len, more : i = 0 /\ len = Len(r.ents) /\ more = Addpage(r, i, e)
        OBVIOUS
      <4>3. i \in 0 .. Len(r.ents)
        BY ONLY <3>2, <4>2
      <4>4. /\ more \in NodeType /\ Same(more, r) /\ Len(more.ents) = len + 1
            /\ \A j \in 1 .. len + 1 :
                 more.ents[j] = IF j < i + 1 THEN r.ents[j] ELSE IF j = i + 1 THEN e ELSE r.ents[j - 1]
            /\ Len(more.kids) = len + 2
            /\ \A j \in 1 .. len + 2 : more.kids[j] = IF j < i + 2 THEN r.kids[j] ELSE r.kids[j - 1]
            /\ Exact(more)
        <5>1. Grown(r) /\ Exact(r)
          BY <3>2
        <5> QED  BY ONLY <4>1, <4>2, <4>3, <5>1, AddpageIs
      <4> QED  BY <3>2, <4>2, <4>4
    <3>4. A.end = r.end + (e.size + r.ovh)
      BY <1>2 DEF Addpage, NodeType
    <3> HIDE DEF A
    <3>5. kid \in Int
      <4>1. x + 1 \in 1 .. Len(l.kids)
        BY <3>0, <1>1
      <4> QED  BY <4>1, <1>2, ElementOfSeq
    <3>6. 0 \in 0 .. Len(A.kids) - 1
      BY <3>3, <1>1
    <3> HIDE DEF kid
    <3>7. /\ B \in NodeType /\ Same(B, A) /\ B.ents = A.ents /\ B.end = A.end
          /\ Len(B.kids) = Len(A.kids)
          /\ \A j \in 1 .. Len(A.kids) : B.kids[j] = IF j = 0 + 1 THEN kid ELSE A.kids[j]
          /\ Exact(B)
      BY <3>3, <3>5, <3>6, SetKidIs
    <3> HIDE DEF B, r2
    <3>8. m = y + 1 /\ m \in Nat
      BY <3>1, <3>7, <3>3, <1>1
    <3>9. Len(r2.kids) = m + 1
      BY <3>1, <3>7, <3>3, <3>8, <1>1
    <3>10. \A i \in 1 .. m : r2.ents[i] = s[x + i]
      <4> TAKE i \in 1 .. m
      <4>1. /\ i \in 1 .. y + 1 /\ ~(i < 0 + 1)
            /\ (i # 1 => i - 1 \in 1 .. y /\ x + 1 + (i - 1) = x + i)
        BY <3>8, <1>1
      <4>2. r2.ents[i] = IF i = 1 THEN e ELSE r.ents[i - 1]
        BY <4>1, <3>1, <3>7, <3>3
      <4>3. CASE i # 1
        <5>1. s[x + 1 + (i - 1)] = r.ents[i - 1]
          BY <4>1, <4>3, <3>0
        <5> QED  BY <4>1, <4>2, <4>3, <5>1
      <4>4. CASE i = 1
        BY <4>2, <4>4, <3>0
      <4> QED  BY <4>3, <4>4
    <3>11. \A i \in 1 .. m + 1 : r2.kids[i] = ks[x + i]
      <4> TAKE i \in 1 .. m + 1
      <4>1. /\ i \in 1 .. y + 2 /\ (i # 1 => ~(i < 0 + 2) /\ i - 1 \in 1 .. y + 1)
            /\ (i # 1 => x + 1 + (i - 1) = x + i)
        BY <3>8, <1>1
      <4>2. r2.kids[i] = IF i = 1 THEN kid ELSE r.kids[i - 1]
        BY <4>1, <3>1, <3>7, <3>3
      <4>3. CASE i # 1
        <5>1. ks[x + 1 + (i - 1)] = r.kids[i - 1]
          BY <4>1, <4>3, <3>0
        <5> QED  BY <4>1, <4>2, <4>3, <5>1
      <4>4. CASE i = 1
        <5>1. x + 1 \in 1 .. x + 1
          BY <1>1
        <5>2. ks[x + 1] = l.kids[x + 1]
          BY <5>1, <3>0
        <5> QED  BY <4>2, <4>4, <5>2 DEF kid
      <4> QED  BY <4>3, <4>4
    <3>12. /\ r2 \in NodeType /\ Exact(r2) /\ r2.ovh = r.ovh /\ r2.page = r.page /\ r2.leaf = r.leaf
           /\ r2.end = r.end + (e.size + r.ovh)
      BY <3>1, <3>3, <3>4, <3>7 DEF Same
    <3> QED  BY <3>8, <3>9, <3>10, <3>11, <3>12, <2>2, <1>1
  <2> QED  BY <2>1, <2>2, <1>1
<1> HIDE DEF r2
(* The left end is l. *)
<1>4. x \in Nat /\ n \in Nat /\ x =< n /\ m = n - x
  <2>1. CASE l.leaf
    <3>1. m = y /\ n = x + y
      BY <2>1, <1>11, <1>3
    <3> HIDE DEF m, n
    <3> QED  BY <3>1, <1>1
  <2>2. CASE ~l.leaf
    <3>1. m = y + 1 /\ n = x + 1 + y
      BY <2>2, <1>12, <1>3
    <3> HIDE DEF m, n
    <3> QED  BY <3>1, <1>1
  <2> QED  BY <2>1, <2>2, <1>1
<1>5. ~l.leaf => Len(l.kids) = x + 1 /\ \A i \in 1 .. x + 1 : l.kids[i] = ks[i]
  BY <1>12
<1>6. \E b : InPair(z, b, x, l, r2, Join(a, c)) /\ b.ents = s
             /\ b.leaf = l.leaf /\ b.rovh = l.ovh /\ b.lovh = l.ovh
             /\ b.lpage = l.page /\ b.rpage = r2.page
  <2>0. n = Len(Both(l, r, e))
    BY DEF s
  <2>1. /\ Len(l.ents) = x /\ \A i \in 1 .. x : l.ents[i] = Both(l, r, e)[i]
    BY <1>10 DEF s, x
  <2>2. /\ Len(r2.ents) = n - x /\ \A i \in 1 .. n - x : r2.ents[i] = Both(l, r, e)[x + i]
    BY <1>4, <1>3 DEF s
  <2>3. l.leaf => l.kids = <<>> /\ r2.kids = <<>>
    BY <1>11, <1>3
  <2>4. ~l.leaf => /\ Len(l.kids) = x + 1
                   /\ \A i \in 1 .. x + 1 : l.kids[i] = (l.kids \o r.kids)[i]
                   /\ Len(r2.kids) = n - x + 1
                   /\ \A i \in 1 .. n - x + 1 : r2.kids[i] = (l.kids \o r.kids)[x + i]
    BY <1>3, <1>4, <1>5 DEF ks
  <2>5. x \in Nat /\ n \in Nat /\ x =< n /\ r2.leaf = l.leaf /\ l.ovh = r2.ovh
    BY <1>1, <1>3, <1>4
  <2>6. r2 \in NodeType /\ Exact(r2)
    BY <1>3
  <2>7. l \in NodeType /\ Exact(l)
    BY <1>2
  <2> HIDE DEF m, n
  <2>8. Ends(l, r2, x, n, l, r, e)
    BY <2>0, <2>1, <2>2, <2>3, <2>4, <2>5, <2>6, <2>7 DEF Ends
  <2> QED  BY <2>8, RowPair DEF s
<1>7. PICK b : InPair(z, b, x, l, r2, Join(a, c)) /\ b.ents = s /\ b.leaf = l.leaf /\ b.rovh = l.ovh
  BY <1>6
<1>8. /\ b \in Neighbours /\ r2.end = b.base + Over(b, x) /\ b.base \in Nat
  BY <1>7 DEF InPair, IsRight, Neighbours
<1>9. x < Len(b.ents) => b.base + Over(b, x + 1) =< r.end
  <2> HAVE x < Len(b.ents)
  <2>1. /\ x + 1 \in 1 .. Len(b.ents) /\ x + 1 \in 0 .. Len(b.ents) /\ x \in 0 .. Len(b.ents)
        /\ (x + 1) - 1 = x /\ x =< x + 1
    BY <1>4, <1>7
  <2>2. /\ Over(b, x) = Over(b, x + 1) + b.ents[x + 1].size + b.rovh /\ b.ents[x + 1] \in Ent
        /\ Over(b, x) \in Nat /\ Over(b, x + 1) \in Nat
    <3>1. Over(b, (x + 1) - 1) = Over(b, x + 1) + b.ents[x + 1].size + b.rovh /\ b.ents[x + 1] \in Ent
      BY <2>1, <1>8, OverStep
    <3>2. Over(b, x) \in Nat /\ Over(b, x + 1) \in Nat
      BY <2>1, <1>8, OverStep
    <3> QED  BY <3>1, <3>2, <2>1
  <2> DEFINE O1 == Over(b, x)
             O2 == Over(b, x + 1)
             E == r2.end
             sz == b.ents[x + 1].size
  <2>3. sz \in Nat /\ b.rovh \in Nat /\ O1 \in Nat /\ O2 \in Nat
    BY <2>2, <1>8 DEF Ent, Neighbours
  <2>4. O1 = O2 + sz + b.rovh /\ E = b.base + O1
    BY <2>2, <1>8
  <2>5. CASE l.leaf
    <3>1. E = r.end
      BY <2>5, <1>3
    <3>4. r.end \in Int /\ b.base \in Nat
      BY <1>2, <1>8
    <3> HIDE DEF O1, O2, E, sz
    <3>2. b.base + O2 =< r.end
      BY ONLY <3>1, <3>4, <2>3, <2>4
    <3> QED  BY <3>2 DEF O2
  <2>6. CASE ~l.leaf
    <3>1. E = r.end + (e.size + r.ovh) /\ b.rovh = r.ovh
      BY <2>6, <1>3, <1>7
    <3>2. sz = e.size
      <4>1. s[x + 1] = e
        BY <2>6, <1>12
      <4> QED  BY <4>1, <1>7
    <3> HIDE DEF O1, O2, E, sz
    <3>4. e.size \in Nat /\ r.ovh \in Nat /\ r.end \in Int /\ b.base \in Nat
      BY <1>2, <1>8
    <3>3. b.base + O2 =< r.end
      BY ONLY <3>1, <3>2, <3>4, <2>3, <2>4
    <3> QED  BY <3>3 DEF O2
  <2> QED  BY <2>5, <2>6, <1>1
<1> QED  BY <1>7, <1>9, <1>3 DEF r2

-----------------------------------------------------------------------------
(* Index node pa is right for label v with children of the labels M; the   *)
(* ones with their numbers in S are not in place yet.                      *)
Linked(z, pa, M, S) ==
    \A j \in 1 .. Len(pa.kids) : j \notin S => pa.kids[j] \in DOMAIN z /\ z[pa.kids[j]] = M[j]
Par(z, pa, M, v, S) ==
    /\ pa \in NodeType /\ ~pa.leaf /\ Exact(pa) /\ Len(pa.kids) = Len(pa.ents) + 1
    /\ Rising(pa.ents) /\ Roomy(pa)
    /\ v \in Label /\ Spans(pa.ents, M, v)
    /\ Linked(z, pa, M, S)

LEMMA ParIs ==
    ASSUME NEW z, NEW pa, NEW M, NEW v, NEW S, Par(z, pa, M, v, S)
    PROVE  /\ pa.ents \in Seq(Ent) /\ pa.kids \in Seq(Int) /\ pa.page \in Int
           /\ Len(pa.ents) \in Nat /\ Len(pa.kids) = Len(pa.ents) + 1 /\ v.h > 1
           /\ \A j \in 1 .. Len(pa.ents) + 1 : M[j] \in Label /\ M[j].h = v.h - 1
           /\ \A j \in 1 .. Len(pa.ents) : M[j].hi = pa.ents[j].key /\ Meet(M[j], M[j + 1])
           /\ \A j \in 1 .. Len(pa.ents) : pa.ents[j] \in Ent /\ Sep(pa.ents[j])
<1>1. pa.ents \in Seq(Ent) /\ pa.kids \in Seq(Int) /\ pa.page \in Int
  BY DEF Par, NodeType
<1>2. Rising(pa.ents) /\ Spans(pa.ents, M, v) /\ v \in Label
  BY DEF Par
<1>3. /\ Len(pa.ents) \in Nat /\ \A j \in 1 .. Len(pa.ents) : pa.ents[j] \in Ent
      /\ \A j \in 1 .. Len(pa.ents) : Meet(M[j], M[j + 1])
  BY <1>1, <1>2, SpansIs
<1>4. /\ v.h > 1 /\ \A j \in 1 .. Len(pa.ents) + 1 : M[j] \in Label /\ M[j].h = v.h - 1
      /\ \A j \in 1 .. Len(pa.ents) : M[j].hi = pa.ents[j].key
  BY <1>2 DEF Spans
<1>5. \A j \in 1 .. Len(pa.ents) : IndexBase + FreshOvh + pa.ents[j].size =< PgSize
  BY DEF Par, Roomy, Base, Overhead
<1> QED  BY <1>1, <1>3, <1>4, <1>5 DEF Sep, Par

(* All children in place. *)
LEMMA ParSound ==
    ASSUME NEW z, NEW pa, NEW M, NEW v, Par(z, pa, M, v, {})
    PROVE  Sound(z, pa, v)
<1> DEFINE n == Len(pa.ents)
<1>1. /\ pa.ents \in Seq(Ent) /\ pa.kids \in Seq(Int) /\ pa.leaf = FALSE /\ Len(pa.kids) = n + 1
      /\ Rising(pa.ents) /\ Roomy(pa) /\ v \in Label
  BY DEF Par, NodeType
<1>2. \A j \in 1 .. n + 1 : pa.kids[j] \in DOMAIN z /\ z[pa.kids[j]] = M[j]
  BY <1>1 DEF Par, Linked
<1>3. n \in Nat /\ Spans(pa.ents, M, v)
  BY <1>1 DEF Par
<1>4. \A j \in 1 .. n + 1 : Kids(z, pa)[j] = M[j]
  BY <1>1, <1>2 DEF Kids
<1>5. Spans(pa.ents, Kids(z, pa), v)
  <2>1. \A j \in 1 .. n : j + 1 \in 1 .. n + 1 /\ j \in 1 .. n + 1
    BY <1>3
  <2>2. 1 \in 1 .. n + 1 /\ n + 1 \in 1 .. n + 1
    BY <1>3
  <2> HIDE DEF n
  <2> QED  BY <1>3, <1>4, <2>1, <2>2 DEF Spans, n
<1> QED  BY <1>1, <1>2, <1>5 DEF Sound

(* A child takes its place. *)
ButFor(m, pa, i) ==
    /\ Len(m.ents) = Len(pa.ents)
    /\ \A j \in 0 .. Len(pa.ents) : j # i => Kid(m, j) = Kid(pa, j)
LEMMA ParPlace ==
    ASSUME NEW z, NEW pa, NEW M, NEW v, NEW S, Par(z, pa, M, v, S),
           NEW i \in 0 .. Len(pa.ents), NEW c \in Int, c \in DOMAIN z, z[c] = M[i + 1]
    PROVE  /\ Par(z, SetKid(pa, i, c), M, v, S \ {i + 1}) /\ Same(SetKid(pa, i, c), pa)
           /\ ButFor(SetKid(pa, i, c), pa, i)
<1> DEFINE m == SetKid(pa, i, c)
           n == Len(pa.ents)
<1>1. n \in Nat /\ Len(pa.kids) = n + 1 /\ pa \in NodeType
  BY ParIs DEF Par
<1>2. i \in 0 .. Len(pa.kids) - 1
  BY <1>1
<1>3. /\ m \in NodeType /\ Same(m, pa) /\ m.ents = pa.ents /\ Len(m.kids) = Len(pa.kids)
      /\ \A j \in 1 .. Len(pa.kids) : m.kids[j] = IF j = i + 1 THEN c ELSE pa.kids[j]
      /\ Exact(pa) => Exact(m)
  BY <1>1, <1>2, SetKidIs
<1> HIDE DEF m
<1>4. ~pa.leaf /\ Exact(pa) /\ Rising(pa.ents) /\ Roomy(pa) /\ v \in Label /\ Spans(pa.ents, M, v)
  BY DEF Par
<1>5. Linked(z, m, M, S \ {i + 1})
  BY <1>1, <1>3 DEF Par, Linked
<1>6. Roomy(m)
  BY <1>3, <1>4 DEF Roomy, Same
<1>7. Par(z, m, M, v, S \ {i + 1})
  BY <1>1, <1>3, <1>4, <1>5, <1>6 DEF Par, Same
<1>8. /\ Kid(m, i) = c /\ \A j \in 0 .. n : j # i => Kid(m, j) = Kid(pa, j)
  <2>1. \A j \in 0 .. n : j + 1 \in 1 .. Len(pa.kids) /\ (j # i => j + 1 # i + 1)
    BY <1>1
  <2> QED  BY <1>3, <2>1 DEF Kid
<1>9. ButFor(m, pa, i)
  BY <1>3, <1>8 DEF ButFor
<1> QED  BY <1>3, <1>7, <1>9 DEF m

(* More pages, more holes. *)
Extends(z, y) == \A n \in DOMAIN z : n \in DOMAIN y /\ y[n] = z[n]
LEMMA ParMore ==
    ASSUME NEW z, NEW pa, NEW M, NEW v, NEW S, Par(z, pa, M, v, S), NEW y, Extends(z, y),
           NEW T, S \subseteq T
    PROVE  Par(y, pa, M, v, T)
<1>1. Linked(y, pa, M, T)
  BY DEF Par, Linked, Extends
<1> QED  BY <1>1 DEF Par

(* What becomes of the parent pa and the labels M: two children share their *)
(* records anew, are one, or one is two.                                   *)
Shares(z, m, N, pa, M, v, i, e) ==
    /\ Par(z, m, N, v, {i + 1, i + 2}) /\ Same(m, pa) /\ Len(m.ents) = Len(pa.ents)
    /\ N[i + 1] = Under(Join(M[i + 1], M[i + 2]), e.key)
    /\ N[i + 2] = From(Join(M[i + 1], M[i + 2]), e.key)
Merges(z, m, N, pa, M, v, i) ==
    /\ Par(z, m, N, v, {i + 1}) /\ Same(m, pa) /\ Len(m.ents) = Len(pa.ents) - 1
    /\ N[i + 1] = Join(M[i + 1], M[i + 2])
Cuts(z, m, N, pa, M, v, i, e) ==
    /\ Par(z, m, N, v, {i + 1, i + 2}) /\ Same(m, pa) /\ Len(m.ents) = Len(pa.ents) + 1
    /\ N[i + 1] = Under(M[i + 1], e.key) /\ N[i + 2] = From(M[i + 1], e.key)

(* modpage() with a new separator of two children.                         *)
LEMMA ParShare ==
    ASSUME NEW z, NEW pa, NEW M, NEW v, NEW S, Par(z, pa, M, v, S),
           NEW i \in 0 .. Len(pa.ents) - 1, S \subseteq {i + 1, i + 2},
           NEW e, Sep(e), M[i + 1].lo < e.key, Before(e.key, M[i + 2].hi)
    PROVE  \E N : Shares(z, Modpage(pa, i, e), N, pa, M, v, i, e)
<1> DEFINE m == Modpage(pa, i, e)
           n == Len(pa.ents)
           J == Join(M[i + 1], M[i + 2])
           N == [j \in 1 .. n + 1 |-> IF j = i + 1 THEN Under(J, e.key)
                                      ELSE IF j = i + 2 THEN From(J, e.key) ELSE M[j]]
<1>1. n \in Nat /\ Len(pa.kids) = n + 1 /\ pa \in NodeType /\ pa.ents \in Seq(Ent)
  BY ParIs DEF Par
<1>2. e \in Ent /\ IndexBase + FreshOvh + e.size =< PgSize
  BY DEF Sep
<1>3. /\ m \in NodeType /\ Same(m, pa) /\ Len(m.ents) = n /\ m.kids = pa.kids
      /\ \A j \in 1 .. n : m.ents[j] = IF j = i + 1 THEN e ELSE pa.ents[j]
      /\ Exact(pa) => Exact(m)
  BY <1>1, <1>2, ModpageIs
<1>4. ~pa.leaf /\ Exact(pa) /\ Rising(pa.ents) /\ Roomy(pa) /\ v \in Label /\ Spans(pa.ents, M, v)
  BY DEF Par
<1> HIDE DEF m, J
<1>5. /\ i + 1 \in 1 .. n /\ i + 1 + 1 = i + 2 /\ i + 2 # i + 1 /\ i + 2 \in 1 .. n + 1
      /\ i + 1 \in 1 .. n + 1
  BY <1>1
<1>6. /\ N[i + 1] = Under(J, e.key) /\ N[i + 2] = From(J, e.key)
      /\ \A j \in 1 .. n + 1 : j # i + 1 /\ j # i + 2 => N[j] = M[j]
  BY <1>5
<1> HIDE DEF N
<1>7. m.ents \in Seq(Ent) /\ m.ents[i + 1] = e
  BY <1>3, <1>5 DEF NodeType
<1>8. Besides(pa.ents, M, i + 1, m.ents, N)
  BY <1>1, <1>3, <1>5, <1>6, <1>7 DEF Besides
<1>9. Spans(m.ents, N, v) /\ Rising(m.ents)
  <2>1. /\ M[i + 1].lo < m.ents[i + 1].key /\ Before(m.ents[i + 1].key, M[i + 1 + 1].hi)
        /\ N[i + 1] = Under(Join(M[i + 1], M[i + 1 + 1]), m.ents[i + 1].key)
        /\ N[i + 1 + 1] = From(Join(M[i + 1], M[i + 1 + 1]), m.ents[i + 1].key)
    BY <1>5, <1>6, <1>7 DEF J
  <2> DEFINE k == i + 1
  <2> HIDE DEF k
  <2>2. /\ M[k].lo < m.ents[k].key /\ Before(m.ents[k].key, M[k + 1].hi)
        /\ N[k] = Under(Join(M[k], M[k + 1]), m.ents[k].key)
        /\ N[k + 1] = From(Join(M[k], M[k + 1]), m.ents[k].key)
        /\ Besides(pa.ents, M, k, m.ents, N)
    BY <2>1, <1>8 DEF k
  <2> QED  BY ONLY <1>1, <1>4, <2>2, ShareSpans
<1>10. Roomy(m)
  <2>1. \A j \in 1 .. n : IndexBase + FreshOvh + m.ents[j].size =< PgSize
    BY <1>2, <1>3, <1>4 DEF Roomy, Base, Overhead
  <2> QED  BY <2>1, <1>3, <1>4 DEF Roomy, Base, Overhead, Same
<1>11. Linked(z, m, N, {i + 1, i + 2})
  BY <1>1, <1>3, <1>6 DEF Par, Linked
<1>12. Par(z, m, N, v, {i + 1, i + 2})
  BY <1>1, <1>3, <1>4, <1>9, <1>10, <1>11 DEF Par, Same
<1>13. Shares(z, m, N, pa, M, v, i, e)
  BY <1>3, <1>6, <1>12 DEF J, Shares
<1> QED  BY <1>13 DEF m

(* delpage(): two children are one.                                        *)
LEMMA ParMerge ==
    ASSUME NEW z, NEW pa, NEW M, NEW v, NEW S, Par(z, pa, M, v, S),
           NEW i \in 0 .. Len(pa.ents) - 1, S \subseteq {i + 1, i + 2}
    PROVE  \E N : Merges(z, Delpage(pa, i), N, pa, M, v, i)
<1> DEFINE m == Delpage(pa, i)
           n == Len(pa.ents)
           J == Join(M[i + 1], M[i + 2])
           N == [j \in 1 .. n |-> IF j < i + 1 THEN M[j] ELSE IF j = i + 1 THEN J ELSE M[j + 1]]
<1>1. n \in Nat /\ Len(pa.kids) = n + 1 /\ pa \in NodeType /\ pa.ents \in Seq(Ent) /\ Grown(pa)
  BY ParIs DEF Par, Grown
<1>4. ~pa.leaf /\ Exact(pa) /\ Rising(pa.ents) /\ Roomy(pa) /\ v \in Label /\ Spans(pa.ents, M, v)
  BY DEF Par
<1>3. /\ m \in NodeType /\ Same(m, pa) /\ Len(m.ents) = n - 1
      /\ \A j \in 1 .. n - 1 : m.ents[j] = IF j < i + 1 THEN pa.ents[j] ELSE pa.ents[j + 1]
      /\ Len(m.kids) = n
      /\ \A j \in 1 .. n : m.kids[j] = IF j < i + 2 THEN pa.kids[j] ELSE pa.kids[j + 1]
      /\ Exact(m)
  BY <1>1, <1>4, DelpageIs
<1> HIDE DEF m, J
<1>5. i + 1 \in 1 .. n /\ i + 1 + 1 = i + 2
  BY <1>1
<1>6. /\ N[i + 1] = J
      /\ \A j \in 1 .. n : j # i + 1 => N[j] = IF j < i + 1 THEN M[j] ELSE M[j + 1]
  BY <1>5
<1> HIDE DEF N
<1>7. m.ents \in Seq(Ent)
  BY <1>3 DEF NodeType
<1>8. Without(pa.ents, M, i + 1, m.ents, N)
  BY <1>1, <1>3, <1>5, <1>6, <1>7 DEF Without
<1>9. Spans(m.ents, N, v) /\ Rising(m.ents)
  <2> DEFINE k == i + 1
  <2>1. N[k] = Join(M[k], M[k + 1])
    BY <1>5, <1>6 DEF J
  <2>2. Without(pa.ents, M, k, m.ents, N)
    BY <1>8
  <2> HIDE DEF k
  <2> QED  BY ONLY <1>4, <2>1, <2>2, MergeSpans
<1>10. Roomy(m)
  <2>1. \A j \in 1 .. n : IndexBase + FreshOvh + pa.ents[j].size =< PgSize
    BY <1>4 DEF Roomy, Base, Overhead
  <2>2. \A j \in 1 .. n - 1 : j \in 1 .. n /\ j + 1 \in 1 .. n
    BY <1>1
  <2>3. \A j \in 1 .. n - 1 : IndexBase + FreshOvh + m.ents[j].size =< PgSize
    BY <1>3, <2>1, <2>2
  <2> QED  BY <2>3, <1>3, <1>4 DEF Roomy, Base, Overhead, Same
<1>11. Linked(z, m, N, {i + 1})
  <2> SUFFICES ASSUME NEW j \in 1 .. n, j # i + 1
               PROVE  m.kids[j] \in DOMAIN z /\ z[m.kids[j]] = N[j]
    BY <1>3 DEF Linked
  <2>1. \A k \in 1 .. n + 1 : k # i + 1 /\ k # i + 2 => pa.kids[k] \in DOMAIN z /\ z[pa.kids[k]] = M[k]
    BY <1>1 DEF Par, Linked
  <2>2. CASE j < i + 1
    <3>1. j \in 1 .. n + 1 /\ j # i + 1 /\ j # i + 2 /\ j < i + 2
      BY <2>2, <1>1
    <3> QED  BY <3>1, <2>1, <2>2, <1>3, <1>6
  <2>3. CASE j > i + 1
    <3>1. j + 1 \in 1 .. n + 1 /\ j + 1 # i + 1 /\ j + 1 # i + 2 /\ ~(j < i + 2) /\ ~(j < i + 1)
      BY <2>3, <1>1
    <3> QED  BY <3>1, <2>1, <2>3, <1>3, <1>6, ZenonT(60)
  <2> QED  BY <2>2, <2>3, <1>1
<1>12. Par(z, m, N, v, {i + 1})
  <2>1. Len(m.kids) = Len(m.ents) + 1
    BY <1>3, <1>1
  <2> QED  BY <2>1, <1>3, <1>4, <1>9, <1>10, <1>11 DEF Par, Same
<1>13. Merges(z, m, N, pa, M, v, i)
  BY <1>3, <1>6, <1>12 DEF J, Merges
<1> QED  BY <1>13 DEF m

(* addpage(): one child is two.                                            *)
LEMMA ParSplit ==
    ASSUME NEW z, NEW pa, NEW M, NEW v, NEW S, Par(z, pa, M, v, S),
           NEW i \in 0 .. Len(pa.ents), S \subseteq {i + 1},
           NEW e, Sep(e), M[i + 1].lo < e.key, Before(e.key, M[i + 1].hi)
    PROVE  \E N : Cuts(z, Addpage(pa, i, e), N, pa, M, v, i, e)
<1> DEFINE m == Addpage(pa, i, e)
           n == Len(pa.ents)
           J == M[i + 1]
           N == [j \in 1 .. n + 2 |-> IF j < i + 1 THEN M[j]
                    ELSE IF j = i + 1 THEN Under(J, e.key)
                    ELSE IF j = i + 2 THEN From(J, e.key) ELSE M[j - 1]]
<1>1. n \in Nat /\ Len(pa.kids) = n + 1 /\ pa \in NodeType /\ pa.ents \in Seq(Ent) /\ Grown(pa)
  BY ParIs DEF Par, Grown
<1>2. e \in Ent /\ IndexBase + FreshOvh + e.size =< PgSize
  BY DEF Sep
<1>4. ~pa.leaf /\ Exact(pa) /\ Rising(pa.ents) /\ Roomy(pa) /\ v \in Label /\ Spans(pa.ents, M, v)
  BY DEF Par
<1>3. /\ m \in NodeType /\ Same(m, pa) /\ Len(m.ents) = n + 1
      /\ \A j \in 1 .. n + 1 :
           m.ents[j] = IF j < i + 1 THEN pa.ents[j] ELSE IF j = i + 1 THEN e ELSE pa.ents[j - 1]
      /\ Len(m.kids) = n + 2
      /\ \A j \in 1 .. n + 2 : m.kids[j] = IF j < i + 2 THEN pa.kids[j] ELSE pa.kids[j - 1]
      /\ Exact(m)
  BY <1>1, <1>2, <1>4, AddpageIs
<1> HIDE DEF m, J
<1>5. /\ i + 1 \in 1 .. n + 1 /\ i + 1 + 1 = i + 2 /\ i + 1 \in 1 .. n + 2 /\ i + 2 \in 1 .. n + 2
      /\ i + 2 # i + 1 /\ ~(i + 2 < i + 1) /\ ~(i + 1 < i + 1) /\ i + 1 < i + 2
  BY <1>1
<1>6. /\ N[i + 1] = Under(J, e.key) /\ N[i + 2] = From(J, e.key)
      /\ \A j \in 1 .. n + 2 :
           j # i + 1 /\ j # i + 2 => N[j] = IF j < i + 1 THEN M[j] ELSE M[j - 1]
  BY <1>5
<1> HIDE DEF N
<1>7. m.ents \in Seq(Ent) /\ m.ents[i + 1] = e
  BY <1>3, <1>5 DEF NodeType
<1>8. Without(m.ents, N, i + 1, pa.ents, M)
  <2>1. \A j \in 1 .. n : pa.ents[j] = IF j < i + 1 THEN m.ents[j] ELSE m.ents[j + 1]
    <3> TAKE j \in 1 .. n
    <3>1. CASE j < i + 1
      BY <3>1, <1>1, <1>3
    <3>2. CASE ~(j < i + 1)
      <4>1. j + 1 \in 1 .. n + 1 /\ ~(j + 1 < i + 1) /\ j + 1 # i + 1 /\ j + 1 - 1 = j
        BY <3>2, <1>1
      <4> QED  BY <3>2, <4>1, <1>3
    <3> QED  BY <3>1, <3>2
  <2>2. \A j \in 1 .. n + 1 : j # i + 1 => M[j] = IF j < i + 1 THEN N[j] ELSE N[j + 1]
    <3> TAKE j \in 1 .. n + 1
    <3>1. CASE j < i + 1
      <4>1. j \in 1 .. n + 2 /\ j # i + 1 /\ j # i + 2
        BY <3>1, <1>1
      <4> QED  BY <3>1, <4>1, <1>6
    <3>2. CASE j > i + 1
      <4>1. /\ j + 1 \in 1 .. n + 2 /\ ~(j + 1 < i + 1) /\ j + 1 # i + 1 /\ j + 1 # i + 2
            /\ j + 1 - 1 = j /\ ~(j < i + 1)
        BY <3>2, <1>1
      <4> QED  BY <3>2, <4>1, <1>6
    <3> QED  BY <3>1, <3>2, <1>1
  <2>3. Len(m.ents) - 1 = n /\ Len(m.ents) = n + 1
    BY <1>1, <1>3
  <2>4. i + 1 \in 1 .. Len(m.ents) /\ Len(pa.ents) = Len(m.ents) - 1
    BY <1>5, <2>3
  <2>5. \A j \in 1 .. Len(m.ents) - 1 : pa.ents[j] = IF j < i + 1 THEN m.ents[j] ELSE m.ents[j + 1]
    BY <2>1, <2>3
  <2>6. \A j \in 1 .. Len(m.ents) : j # i + 1 => M[j] = IF j < i + 1 THEN N[j] ELSE N[j + 1]
    BY <2>2, <2>3
  <2> HIDE DEF n
  <2> QED  BY ONLY <1>1, <1>7, <2>4, <2>5, <2>6 DEF Without
<1>9. Spans(m.ents, N, v) /\ Rising(m.ents)
  <2> DEFINE k == i + 1
  <2>1. /\ M[k].lo < m.ents[k].key /\ Before(m.ents[k].key, M[k].hi)
        /\ N[k] = Under(M[k], m.ents[k].key) /\ N[k + 1] = From(M[k], m.ents[k].key)
    BY <1>5, <1>6, <1>7 DEF J
  <2>2. Without(m.ents, N, k, pa.ents, M)
    BY <1>8
  <2> HIDE DEF k
  <2> QED  BY ONLY <1>1, <1>4, <2>1, <2>2, SplitSpans
<1>10. Roomy(m)
  <2>1. \A j \in 1 .. n : IndexBase + FreshOvh + pa.ents[j].size =< PgSize
    BY <1>4 DEF Roomy, Base, Overhead
  <2>2. \A j \in 1 .. n + 1 :
          (j < i + 1 => j \in 1 .. n) /\ (~(j < i + 1) /\ j # i + 1 => j - 1 \in 1 .. n)
    BY <1>1
  <2>3. \A j \in 1 .. n + 1 : IndexBase + FreshOvh + m.ents[j].size =< PgSize
    BY <1>2, <1>3, <2>1, <2>2
  <2> QED  BY <2>3, <1>3, <1>4 DEF Roomy, Base, Overhead, Same
<1>11. Linked(z, m, N, {i + 1, i + 2})
  <2> SUFFICES ASSUME NEW j \in 1 .. n + 2, j # i + 1, j # i + 2
               PROVE  m.kids[j] \in DOMAIN z /\ z[m.kids[j]] = N[j]
    BY <1>3 DEF Linked
  <2>1. \A k \in 1 .. n + 1 : k # i + 1 => pa.kids[k] \in DOMAIN z /\ z[pa.kids[k]] = M[k]
    BY <1>1 DEF Par, Linked
  <2>2. CASE j < i + 1
    <3>1. j \in 1 .. n + 1 /\ j < i + 2
      BY <2>2, <1>1
    <3> QED  BY <3>1, <2>1, <2>2, <1>3, <1>6
  <2>3. CASE j > i + 2
    <3>1. j - 1 \in 1 .. n + 1 /\ j - 1 # i + 1 /\ ~(j < i + 2) /\ ~(j < i + 1)
      BY <2>3, <1>1
    <3> QED  BY <3>1, <2>1, <2>3, <1>3, <1>6
  <2> QED  BY <2>2, <2>3, <1>1
<1>12. Par(z, m, N, v, {i + 1, i + 2})
  <2>1. Len(m.kids) = Len(m.ents) + 1
    BY <1>3, <1>1
  <2> QED  BY <2>1, <1>3, <1>4, <1>9, <1>10, <1>11 DEF Par, Same
<1>13. Cuts(z, m, N, pa, M, v, i, e)
  BY <1>3, <1>6, <1>12 DEF J, Cuts
<1> QED  BY <1>13 DEF m

-----------------------------------------------------------------------------
(* A page on the way to a key is to have another child there.              *)
Goes(z, nd, v, o, i) ==
    /\ i \in 0 .. Len(nd.ents) /\ Kid(nd, i) \in DOMAIN z /\ Within(z[Kid(nd, i)], o.key)
    /\ z[Kid(nd, i)].h = v.h - 1
    /\ \E M : Par(z, nd, M, Upd(v, o), {i + 1}) /\ M[i + 1] = Upd(z[Kid(nd, i)], o)
LEMMA ParUpd ==
    ASSUME NEW z, NEW nd \in NodeType, ~nd.leaf, Exact(nd), NEW v, Sound(z, nd, v),
           NEW o, o.key \in Nat, o.size # 0 => o \in Ent, Within(v, o.key)
    PROVE  Goes(z, nd, v, o, ChildIndex(nd.ents, o.key))
<1> DEFINE n == Len(nd.ents)
           i == ChildIndex(nd.ents, o.key)
           L == Kids(z, nd)
           M == [j \in 1 .. n + 1 |-> IF j = i + 1 THEN Upd(L[i + 1], o) ELSE L[j]]
<1>1. /\ v \in Label /\ nd.ents \in Seq(Ent) /\ nd.kids \in Seq(Int) /\ Rising(nd.ents) /\ Roomy(nd)
      /\ Len(nd.kids) = n + 1 /\ n \in Nat /\ Spans(nd.ents, L, v)
      /\ \A j \in 1 .. Len(nd.kids) : nd.kids[j] \in DOMAIN z
  BY DEF Sound
<1>2. i \in 0 .. n
  BY <1>1, ChildIs
<1>3. Within(L[i + 1], o.key)
  BY <1>1, ChildWithin
<1> HIDE DEF i
<1>4. i + 1 \in 1 .. n + 1 /\ \A j \in 1 .. n + 1 : L[j] = z[nd.kids[j]] /\ nd.kids[j] \in DOMAIN z
  BY <1>1, <1>2 DEF Kids
<1> HIDE DEF L
<1>5. /\ M[i + 1] = Upd(L[i + 1], o)
      /\ \A j \in 1 .. n + 1 : M[j] = IF j = i + 1 THEN Upd(L[i + 1], o) ELSE L[j]
  BY <1>4
<1> HIDE DEF M
<1>6. Spans(nd.ents, M, Upd(v, o))
  <2> DEFINE k == i + 1
  <2>1. k \in 1 .. Len(nd.ents) + 1 /\ Within(L[k], o.key)
    BY <1>3, <1>4
  <2>2. \A j \in 1 .. Len(nd.ents) + 1 : M[j] = IF j = k THEN Upd(L[k], o) ELSE L[j]
    BY <1>5
  <2> HIDE DEF k
  <2> QED  BY <1>1, <2>1, <2>2, UpdSpans
<1>7. Linked(z, nd, M, {i + 1})
  BY <1>1, <1>4, <1>5 DEF Linked
<1>8. Upd(v, o) \in Label
  BY <1>1, UpdLabel
<1>9. Par(z, nd, M, Upd(v, o), {i + 1})
  BY <1>1, <1>6, <1>7, <1>8 DEF Par
<1>10. L[i + 1] = z[Kid(nd, i)] /\ Kid(nd, i) \in DOMAIN z
  BY <1>4 DEF Kid
<1>11. L[i + 1].h = v.h - 1
  BY <1>1, <1>4 DEF Spans
<1>12. Goes(z, nd, v, o, i)
  BY <1>2, <1>3, <1>5, <1>9, <1>10, <1>11 DEF Goes
<1> QED  BY <1>12 DEF i

LEMMA FreshIs ==
    ASSUME NEW n \in Int, NEW leaf \in BOOLEAN
    PROVE  LET m == Freshnode(n, leaf)
           IN  /\ m \in NodeType /\ Exact(m) /\ m.page = n /\ m.leaf = leaf /\ m.ents = <<>>
               /\ m.kids = (IF leaf THEN <<>> ELSE <<0>>) /\ m.ovh = Overhead(leaf)
<1> DEFINE m == Freshnode(n, leaf)
<1>1. /\ m.page = n /\ m.leaf = leaf /\ m.ents = <<>> /\ m.kids = (IF leaf THEN <<>> ELSE <<0>>)
      /\ m.end = Base(leaf) /\ m.ovh = Overhead(leaf)
  BY DEF Freshnode, Base, Overhead
<1>2. Base(leaf) \in Nat /\ Overhead(leaf) \in Nat
  BY SizesAssumption DEF Base, Overhead
<1>3. <<>> \in Seq(Ent) /\ (IF leaf THEN <<>> ELSE <<0>>) \in Seq(Int)
  OBVIOUS
<1>4. m \in NodeType
  BY <1>2, <1>3 DEF Freshnode, NodeType, Base, Overhead
<1>5. Bytes(<<>>) = 0 /\ Len(<<>>) = 0
  BY BytesAdd
<1>6. Exact(m)
  BY <1>1, <1>2, <1>5 DEF Exact
<1> QED  BY <1>1, <1>4, <1>6

(* A fresh parent of one child. *)
LEMMA ParFresh ==
    ASSUME NEW z, NEW n \in Int, NEW u \in Label
    PROVE  Par(z, Freshnode(n, FALSE), <<u>>, [u EXCEPT !.h = u.h + 1], {1})
<1> DEFINE m == Freshnode(n, FALSE)
           v == [u EXCEPT !.h = u.h + 1]
<1>0. FALSE \in BOOLEAN
  OBVIOUS
<1>7. m \in NodeType /\ Exact(m) /\ m.leaf = FALSE /\ m.ents = <<>> /\ m.kids = <<0>>
  BY ONLY <1>0, FreshIs, n \in Int
<1>1. /\ m \in NodeType /\ Exact(m) /\ ~m.leaf /\ m.ents = <<>>
      /\ Len(m.kids) = 1 /\ Len(m.ents) = 0
  BY <1>7
<1>2. u \in [h : Nat \ {0}, lo : Nat, hi : Nat \cup {-1}, c : SUBSET Ent]
  BY DEF Label
<1>3. v \in Label /\ v.h = u.h + 1 /\ v.lo = u.lo /\ v.hi = u.hi /\ v.c = u.c
  BY <1>2 DEF Label, Within, Before
<1> HIDE DEF m, v
<1>4. Spans(m.ents, <<u>>, v)
  <2>1. v.h > 1 /\ v.h - 1 = u.h
    BY <1>2, <1>3
  <2>2. \A i \in 1 .. 0 : FALSE
    OBVIOUS
  <2>3. \A i \in 1 .. 0 + 1 : i = 1 /\ <<u>>[i] = u
    OBVIOUS
  <2>4. 1 \in 1 .. 0 + 1
    OBVIOUS
  <2> QED  BY <2>1, <2>2, <2>3, <2>4, <1>1, <1>3 DEF Spans
<1>5. Rising(m.ents) /\ Roomy(m)
  BY <1>1 DEF Rising, Roomy
<1>6. Linked(z, m, <<u>>, {1})
  BY <1>1 DEF Linked
<1>8. Par(z, m, <<u>>, v, {1})
  BY <1>1, <1>3, <1>4, <1>5, <1>6 DEF Par
<1> QED  BY <1>8 DEF v, m

(* _update() in the leaf: the record is replaced, put in or taken out.     *)
LeafFor(z, nd, v, o) ==
    /\ nd \in NodeType /\ nd.leaf /\ Exact(nd) /\ Sound(z, nd, v)
    /\ o.key \in Nat /\ Within(v, o.key)
    /\ o.size # 0 => o \in Ent /\ LeafBase + LeafOvh + o.size =< PgSize
Updated(z, m, nd, v, o) ==
    m \in NodeType /\ Same(m, nd) /\ Exact(m) /\ Sound(z, m, Upd(v, o))
LEMMA LeafIs ==
    ASSUME NEW z, NEW nd, NEW v, NEW o, LeafFor(z, nd, v, o)
    PROVE  LET s == nd.ents
               b == Below(s, o.key)
           IN  /\ s \in Seq(Ent) /\ Len(s) \in Nat /\ b \in 0 .. Len(s)
               /\ \A i \in 1 .. Len(s) : s[i] \in Ent /\ s[i].key \in Nat
               /\ \A i \in 1 .. Len(s) : LeafBase + LeafOvh + s[i].size =< PgSize
               /\ \A i, j \in 1 .. Len(s) : i < j => s[i].key < s[j].key
               /\ \A i \in 1 .. Len(s) : s[i].key < o.key <=> i =< b
               /\ Found(s, o.key) => b + 1 \in 1 .. Len(s) /\ s[b + 1].key = o.key
               /\ ~Found(s, o.key) => \A i \in 1 .. Len(s) : s[i].key # o.key
               /\ \A e : e \in Upd(v, o).c <=>
                     ((\E i \in 1 .. Len(s) : e = s[i]) /\ e.key # o.key) \/ (o.size # 0 /\ e = o)
<1> DEFINE s == nd.ents
<1>1. /\ s \in Seq(Ent) /\ Rising(s) /\ Holds(s, v) /\ v \in Label /\ Roomy(nd) /\ nd.leaf
      /\ o.key \in Nat /\ Within(v, o.key) /\ (o.size # 0 => o \in Ent)
  BY DEF LeafFor, Sound
<1>2. /\ Below(s, o.key) \in 0 .. Len(s)
      /\ \A i \in 1 .. Len(s) : s[i].key < o.key <=> i =< Below(s, o.key)
  BY <1>1, BelowIs
<1>3. Found(s, o.key) => /\ Below(s, o.key) + 1 \in 1 .. Len(s) /\ s[Below(s, o.key) + 1].key = o.key
  BY <1>1, ChildIs
<1>4. DOMAIN s = 1 .. Len(s) /\ Len(s) \in Nat /\ \A i \in 1 .. Len(s) : s[i] \in Ent
  BY <1>1, ElementOfSeq
<1>5. ~Found(s, o.key) => \A i \in 1 .. Len(s) : s[i].key # o.key
  BY <1>4 DEF Found
<1>6. \A i, j \in 1 .. Len(s) : i < j => s[i].key < s[j].key
  BY <1>1 DEF Rising
<1>7. \A e : e \in Upd(v, o).c <=> (e \in v.c /\ e.key # o.key) \/ (o.size # 0 /\ e = o)
  BY <1>1, UpdLabel
<1>8. \A e : e \in v.c <=> \E i \in 1 .. Len(s) : e = s[i]
  BY <1>1 DEF Holds
<1>9. \A i \in 1 .. Len(s) : LeafBase + LeafOvh + s[i].size =< PgSize
  BY <1>1 DEF Roomy, Base, Overhead
<1>10. \A i \in 1 .. Len(s) : s[i].key \in Nat
  BY <1>4 DEF Ent
<1>11. \A e : e \in Upd(v, o).c <=>
           ((\E i \in 1 .. Len(s) : e = s[i]) /\ e.key # o.key) \/ (o.size # 0 /\ e = o)
  BY ONLY <1>7, <1>8
<1> HIDE DEF s
<1>12. /\ s \in Seq(Ent) /\ Len(s) \in Nat /\ Below(s, o.key) \in 0 .. Len(s)
       /\ \A i \in 1 .. Len(s) : s[i] \in Ent /\ s[i].key \in Nat
  BY <1>1, <1>2, <1>4, <1>10
<1> QED  BY ONLY <1>2, <1>3, <1>5, <1>6, <1>9, <1>11, <1>12 DEF s

LEMMA LeafSound ==
    ASSUME NEW z, NEW nd, NEW v, NEW o, LeafFor(z, nd, v, o),
           NEW m \in NodeType, Same(m, nd), m.kids = nd.kids,
           NEW k \in Nat, Len(m.ents) = k,
           \A i \in 1 .. k : LeafBase + LeafOvh + m.ents[i].size =< PgSize,
           \A i, j \in 1 .. k : i < j => m.ents[i].key < m.ents[j].key,
           \A e : e \in Upd(v, o).c <=> \E i \in 1 .. k : e = m.ents[i]
    PROVE  Sound(z, m, Upd(v, o))
<1>1. nd.leaf /\ nd.kids = <<>> /\ Holds(nd.ents, v) /\ v \in Label
  BY DEF LeafFor, Sound
<1>2. m.leaf /\ m.ents \in Seq(Ent) /\ m.kids \in Seq(Int)
  BY <1>1 DEF Same, NodeType
<1>3. Upd(v, o) \in Label /\ Upd(v, o).h = v.h
  BY <1>1, UpdLabel DEF LeafFor
<1>4. v.h = 1
  BY <1>1 DEF Holds
<1>5. Holds(m.ents, Upd(v, o))
  BY <1>3, <1>4 DEF Holds
<1>6. Rising(m.ents)
  BY DEF Rising
<1>7. Roomy(m)
  BY <1>2 DEF Roomy, Base, Overhead
<1> QED  BY <1>1, <1>2, <1>3, <1>5, <1>6, <1>7 DEF Sound

LEMMA LeafMod ==
    ASSUME NEW z, NEW nd, NEW v, NEW o, LeafFor(z, nd, v, o), o.size # 0, Found(nd.ents, o.key)
    PROVE  Updated(z, Modpage(nd, Below(nd.ents, o.key), o), nd, v, o)
<1> DEFINE s == nd.ents
           n == Len(s)
           b == Below(s, o.key)
           m == Modpage(nd, b, o)
           t == m.ents
<1>1. /\ n \in Nat /\ b + 1 \in 1 .. n /\ s[b + 1].key = o.key /\ b \in 0 .. n
      /\ \A i \in 1 .. n : s[i] \in Ent /\ s[i].key \in Nat
      /\ \A i \in 1 .. n : LeafBase + LeafOvh + s[i].size =< PgSize
      /\ \A i, j \in 1 .. n : i < j => s[i].key < s[j].key
  BY LeafIs
<1>2. \A e : e \in Upd(v, o).c <=>
         ((\E i \in 1 .. n : e = s[i]) /\ e.key # o.key) \/ (o.size # 0 /\ e = o)
  BY LeafIs
<1>3. nd \in NodeType /\ Exact(nd) /\ o \in Ent /\ LeafBase + LeafOvh + o.size =< PgSize
  BY DEF LeafFor
<1> HIDE DEF b
<1>4. b \in 0 .. n - 1
  BY <1>1
<1>5. /\ m \in NodeType /\ Same(m, nd) /\ Len(m.ents) = n /\ m.kids = nd.kids
      /\ \A j \in 1 .. n : t[j] = IF j = b + 1 THEN o ELSE s[j]
      /\ Exact(m)
  BY <1>3, <1>4, ModpageIs
<1> HIDE DEF m, s, n
<1>6. \A i \in 1 .. n : LeafBase + LeafOvh + t[i].size =< PgSize
  BY <1>1, <1>3, <1>5
<1>7. \A i \in 1 .. n : t[i].key = s[i].key
  BY <1>1, <1>5
<1>8. \A i, j \in 1 .. n : i < j => t[i].key < t[j].key
  BY <1>1, <1>7
<1>9. \A i \in 1 .. n : i # b + 1 => s[i].key # o.key
  <2> TAKE i \in 1 .. n
  <2>1. (i < b + 1 => s[i].key < o.key) /\ (b + 1 < i => o.key < s[i].key)
    BY <1>1
  <2>2. o.key \in Nat /\ s[i].key \in Nat
    BY <1>1
  <2> QED  BY <2>1, <2>2, <1>1
<1>10. ASSUME NEW e
       PROVE  e \in Upd(v, o).c <=> \E i \in 1 .. n : e = t[i]
  <2>1. ASSUME NEW i \in 1 .. n, e = s[i], e.key # o.key
        PROVE  \E j \in 1 .. n : e = t[j]
    <3>1. i # b + 1
      BY <2>1, <1>1
    <3> QED  BY <2>1, <3>1, <1>5
  <2>2. e = o => \E j \in 1 .. n : e = t[j]
    BY <1>1, <1>5
  <2>3. ASSUME NEW i \in 1 .. n, e = t[i]
        PROVE  e \in Upd(v, o).c
    <3>1. CASE i = b + 1
      BY <3>1, <2>3, <1>5, <1>2
    <3>2. CASE i # b + 1
      <4>1. e = s[i] /\ s[i].key # o.key
        BY <3>2, <2>3, <1>5, <1>9
      <4> QED  BY <4>1, <1>2
    <3> QED  BY <3>1, <3>2
  <2> QED  BY <1>2, <2>1, <2>2, <2>3
<1>11. Sound(z, m, Upd(v, o))
  <2>1. \A e : e \in Upd(v, o).c <=> \E i \in 1 .. n : e = m.ents[i]
    BY <1>10
  <2> QED  BY <1>1, <1>5, <1>6, <1>8, <2>1, LeafSound
<1> QED  BY <1>5, <1>11 DEF Updated, m, b, s

LEMMA LeafAdd ==
    ASSUME NEW z, NEW nd, NEW v, NEW o, LeafFor(z, nd, v, o), o.size # 0, ~Found(nd.ents, o.key)
    PROVE  Updated(z, Addpage(nd, Below(nd.ents, o.key), o), nd, v, o)
<1> DEFINE s == nd.ents
           n == Len(s)
           b == Below(s, o.key)
           m == Addpage(nd, b, o)
           t == m.ents
<1>1. /\ n \in Nat /\ b \in 0 .. n
      /\ \A i \in 1 .. n : s[i] \in Ent /\ s[i].key \in Nat
      /\ \A i \in 1 .. n : LeafBase + LeafOvh + s[i].size =< PgSize
      /\ \A i, j \in 1 .. n : i < j => s[i].key < s[j].key
      /\ \A i \in 1 .. n : s[i].key < o.key <=> i =< b
      /\ \A i \in 1 .. n : s[i].key # o.key
  BY LeafIs
<1>2. \A e : e \in Upd(v, o).c <=>
         ((\E i \in 1 .. n : e = s[i]) /\ e.key # o.key) \/ (o.size # 0 /\ e = o)
  BY LeafIs
<1>3. /\ nd \in NodeType /\ Exact(nd) /\ o \in Ent /\ LeafBase + LeafOvh + o.size =< PgSize
      /\ nd.leaf /\ Grown(nd) /\ o.key \in Nat
  BY DEF LeafFor, Grown
<1> HIDE DEF b
<1>5. /\ m \in NodeType /\ Same(m, nd) /\ Len(m.ents) = n + 1 /\ m.kids = nd.kids
      /\ \A j \in 1 .. n + 1 : t[j] = IF j < b + 1 THEN s[j] ELSE IF j = b + 1 THEN o ELSE s[j - 1]
      /\ Exact(m)
  BY <1>1, <1>3, AddpageIs
<1> HIDE DEF m, s, n
<1>4. \A j \in 1 .. n + 1 : /\ j < b + 1 => j \in 1 .. n /\ j =< b /\ t[j] = s[j]
                            /\ j > b + 1 => j - 1 \in 1 .. n /\ ~(j - 1 =< b) /\ t[j] = s[j - 1]
                            /\ j = b + 1 => t[j] = o
  BY <1>1, <1>5
<1>6. \A i \in 1 .. n + 1 : LeafBase + LeafOvh + t[i].size =< PgSize
  <2> TAKE i \in 1 .. n + 1
  <2>1. i < b + 1 \/ i > b + 1 \/ i = b + 1
    BY <1>1
  <2> QED  BY <2>1, <1>1, <1>3, <1>4
<1>7. \A j \in 1 .. n + 1 : /\ j < b + 1 => t[j].key < o.key
                            /\ j > b + 1 => o.key < t[j].key
                            /\ j = b + 1 => t[j].key = o.key
  <2> TAKE j \in 1 .. n + 1
  <2>1. j < b + 1 => t[j].key < o.key
    BY <1>1, <1>4
  <2>2. ASSUME j > b + 1  PROVE o.key < t[j].key
    <3>1. j - 1 \in 1 .. n /\ ~(j - 1 =< b) /\ t[j] = s[j - 1]
      BY <2>2, <1>4
    <3>2. ~(s[j - 1].key < o.key) /\ s[j - 1].key # o.key /\ s[j - 1].key \in Nat
      BY <3>1, <1>1
    <3> QED  BY <3>1, <3>2, <1>3
  <2>3. j = b + 1 => t[j].key = o.key
    BY <1>4
  <2> QED  BY <2>1, <2>2, <2>3
<1>8. \A i, j \in 1 .. n + 1 : i < j => t[i].key < t[j].key
  <2> TAKE i, j \in 1 .. n + 1
  <2> HAVE i < j
  <2>1. CASE j < b + 1
    <3>1. i < b + 1
      BY <2>1, <1>1
    <3> QED  BY <2>1, <3>1, <1>1, <1>4
  <2>2. CASE i > b + 1
    <3>1. j > b + 1 /\ i - 1 < j - 1
      BY <2>2, <1>1
    <3> QED  BY <2>2, <3>1, <1>1, <1>4
  <2>3. CASE ~(j < b + 1) /\ ~(i > b + 1)
    <3>1. t[i].key =< o.key /\ o.key =< t[j].key /\ t[i].key \in Nat /\ t[j].key \in Nat
      <4>1. /\ i < b + 1 \/ i = b + 1
            /\ j > b + 1 \/ j = b + 1
        BY <2>3, <1>1
      <4>2. t[i].key \in Nat /\ t[j].key \in Nat
        <5>1. t \in Seq(Ent) /\ Len(t) = n + 1
          BY <1>5 DEF NodeType
        <5>2. t[i] \in Ent /\ t[j] \in Ent
          BY <5>1, ElementOfSeq
        <5> QED  BY <5>2 DEF Ent
      <4> QED  BY <4>1, <4>2, <1>3, <1>7
    <3>2. (i < b + 1 /\ t[i].key < o.key) \/ (j > b + 1 /\ o.key < t[j].key)
      BY <2>3, <1>1, <1>7
    <3> QED  BY <3>1, <3>2, <1>3
  <2> QED  BY <2>1, <2>2, <2>3
<1>10. ASSUME NEW e
       PROVE  e \in Upd(v, o).c <=> \E i \in 1 .. n + 1 : e = t[i]
  <2>1. ASSUME NEW i \in 1 .. n, e = s[i]
        PROVE  \E j \in 1 .. n + 1 : e = t[j]
    <3>1. CASE i =< b
      BY <3>1, <2>1, <1>1, <1>5
    <3>2. CASE i > b
      <4>1. i + 1 \in 1 .. n + 1 /\ i + 1 > b + 1 /\ i + 1 - 1 = i
        BY <3>2, <1>1
      <4>2. t[i + 1] = s[i + 1 - 1]
        BY ONLY <4>1, <1>4
      <4> QED  BY <4>1, <4>2, <2>1
    <3> QED  BY <3>1, <3>2, <1>1
  <2>2. e = o => \E j \in 1 .. n + 1 : e = t[j]
    <3>1. b + 1 \in 1 .. n + 1
      BY <1>1
    <3> QED  BY <3>1, <1>4
  <2>3. ASSUME NEW i \in 1 .. n + 1, e = t[i]
        PROVE  e = o \/ \E j \in 1 .. n : e = s[j]
    <3>1. i < b + 1 \/ i > b + 1 \/ i = b + 1
      BY <1>1
    <3> QED  BY <3>1, <2>3, <1>4
  <2>4. (\E j \in 1 .. n : e = s[j]) => e.key # o.key
    BY <1>1
  <2> QED  BY <1>2, <2>1, <2>2, <2>3, <2>4
<1>11. Sound(z, m, Upd(v, o))
  <2>1. \A e : e \in Upd(v, o).c <=> \E i \in 1 .. n + 1 : e = m.ents[i]
    BY <1>10
  <2>2. n + 1 \in Nat
    BY <1>1
  <2> QED  BY <2>2, <1>5, <1>6, <1>8, <2>1, LeafSound
<1> QED  BY <1>5, <1>11 DEF Updated, m, b, s

LEMMA LeafDel ==
    ASSUME NEW z, NEW nd, NEW v, NEW o, LeafFor(z, nd, v, o), o.size = 0, Found(nd.ents, o.key)
    PROVE  Updated(z, Delpage(nd, Below(nd.ents, o.key)), nd, v, o)
<1> DEFINE s == nd.ents
           n == Len(s)
           b == Below(s, o.key)
           m == Delpage(nd, b)
           t == m.ents
<1>1. /\ n \in Nat /\ b + 1 \in 1 .. n /\ s[b + 1].key = o.key /\ b \in 0 .. n
      /\ \A i \in 1 .. n : s[i] \in Ent /\ s[i].key \in Nat
      /\ \A i \in 1 .. n : LeafBase + LeafOvh + s[i].size =< PgSize
      /\ \A i, j \in 1 .. n : i < j => s[i].key < s[j].key
  BY LeafIs
<1>2. \A e : e \in Upd(v, o).c <=>
         ((\E i \in 1 .. n : e = s[i]) /\ e.key # o.key) \/ (o.size # 0 /\ e = o)
  BY LeafIs
<1>3. nd \in NodeType /\ Exact(nd) /\ nd.leaf /\ Grown(nd) /\ o.key \in Nat
  BY DEF LeafFor, Grown
<1> HIDE DEF b
<1>4. b \in 0 .. n - 1 /\ n - 1 \in Nat
  BY <1>1
<1>5. /\ m \in NodeType /\ Same(m, nd) /\ Len(m.ents) = n - 1 /\ m.kids = nd.kids
      /\ \A j \in 1 .. n - 1 : t[j] = IF j < b + 1 THEN s[j] ELSE s[j + 1]
      /\ Exact(m)
  BY <1>3, <1>4, DelpageIs
<1> HIDE DEF m, s, n
<1>6. \A j \in 1 .. n - 1 : j \in 1 .. n /\ j + 1 \in 1 .. n
  BY <1>1
<1>7. \A i \in 1 .. n - 1 : LeafBase + LeafOvh + t[i].size =< PgSize
  BY <1>1, <1>5, <1>6
<1>8. \A i, j \in 1 .. n - 1 : i < j => t[i].key < t[j].key
  <2> TAKE i, j \in 1 .. n - 1
  <2> HAVE i < j
  <2>1. CASE j < b + 1
    <3>1. i < b + 1
      BY <2>1, <1>1
    <3> QED  BY <2>1, <3>1, <1>1, <1>5, <1>6
  <2>2. CASE ~(i < b + 1)
    <3>1. ~(j < b + 1) /\ i + 1 < j + 1
      BY <2>2, <1>1
    <3> QED  BY <2>2, <3>1, <1>1, <1>5, <1>6
  <2>3. CASE ~(j < b + 1) /\ i < b + 1
    <3>1. i < j + 1
      BY <1>1
    <3> QED  BY <2>3, <3>1, <1>1, <1>5, <1>6
  <2> QED  BY <2>1, <2>2, <2>3
<1>9. \A i \in 1 .. n : i # b + 1 => s[i].key # o.key
  <2> TAKE i \in 1 .. n
  <2>1. (i < b + 1 => s[i].key < o.key) /\ (b + 1 < i => o.key < s[i].key)
    BY <1>1
  <2>2. o.key \in Nat /\ s[i].key \in Nat
    BY <1>1
  <2> QED  BY <2>1, <2>2, <1>1
<1>10. ASSUME NEW e
       PROVE  e \in Upd(v, o).c <=> \E i \in 1 .. n - 1 : e = t[i]
  <2>1. ASSUME NEW i \in 1 .. n, e = s[i], e.key # o.key
        PROVE  \E j \in 1 .. n - 1 : e = t[j]
    <3>1. CASE i < b + 1
      <4>1. i \in 1 .. n - 1
        BY <3>1, <1>1
      <4> QED  BY <3>1, <4>1, <2>1, <1>5
    <3>2. CASE i > b + 1
      <4>1. i - 1 \in 1 .. n - 1 /\ ~(i - 1 < b + 1) /\ i - 1 + 1 = i
        BY <3>2, <1>1
      <4>2. t[i - 1] = s[i - 1 + 1]
        BY ONLY <4>1, <1>5
      <4> QED  BY <4>1, <4>2, <2>1
    <3> QED  BY <3>1, <3>2, <2>1, <1>1
  <2>3. ASSUME NEW i \in 1 .. n - 1, e = t[i]
        PROVE  (\E j \in 1 .. n : e = s[j]) /\ e.key # o.key
    <3>1. CASE i < b + 1
      <4>1. e = s[i] /\ i # b + 1
        BY <3>1, <2>3, <1>1, <1>5
      <4> QED  BY <4>1, <1>6, <1>9
    <3>2. CASE ~(i < b + 1)
      <4>1. e = s[i + 1] /\ i + 1 # b + 1
        BY <3>2, <2>3, <1>1, <1>5
      <4> QED  BY <4>1, <1>6, <1>9
    <3> QED  BY <3>1, <3>2
  <2> QED  BY <1>2, <2>1, <2>3
<1>11. Sound(z, m, Upd(v, o))
  <2>1. \A e : e \in Upd(v, o).c <=> \E i \in 1 .. n - 1 : e = m.ents[i]
    BY <1>10
  <2> QED  BY <1>4, <1>5, <1>7, <1>8, <2>1, LeafSound
<1> QED  BY <1>5, <1>11 DEF Updated, m, b, s

-----------------------------------------------------------------------------
(* Pages: those in the domain of z are right for their labels.             *)
Trees(d, z) == \A n \in DOMAIN z : n \in DOMAIN d /\ Sound(z, d[n], z[n])
Add(z, n, v) == [m \in DOMAIN z \cup {n} |-> IF m = n THEN v ELSE z[m]]

LEMMA SoundMore ==
    ASSUME NEW z, NEW pg, NEW v, Sound(z, pg, v), NEW y, Extends(z, y),
           NEW nd, nd.leaf = pg.leaf, nd.ents = pg.ents, nd.kids = pg.kids
    PROVE  Sound(y, nd, v)
<1>1. /\ v \in Label /\ nd.leaf \in BOOLEAN /\ nd.ents \in Seq(Ent) /\ nd.kids \in Seq(Int)
      /\ Rising(nd.ents) /\ Roomy(nd) /\ (nd.leaf => nd.kids = <<>> /\ Holds(nd.ents, v))
  BY DEF Sound, Roomy
<1>2. ASSUME ~nd.leaf
      PROVE  /\ Len(nd.kids) = Len(nd.ents) + 1
             /\ \A i \in 1 .. Len(nd.kids) : nd.kids[i] \in DOMAIN y
             /\ Spans(nd.ents, Kids(y, nd), v)
  <2>1. /\ Len(nd.kids) = Len(nd.ents) + 1
        /\ \A i \in 1 .. Len(nd.kids) : nd.kids[i] \in DOMAIN z
        /\ Spans(nd.ents, Kids(z, pg), v)
    BY <1>2 DEF Sound
  <2>2. \A i \in 1 .. Len(nd.kids) : nd.kids[i] \in DOMAIN y /\ y[nd.kids[i]] = z[nd.kids[i]]
    BY <2>1 DEF Extends
  <2>3. Kids(y, nd) = Kids(z, pg)
    BY <2>2 DEF Kids
  <2> QED  BY <2>1, <2>2, <2>3
<1> QED  BY <1>1, <1>2 DEF Sound

LEMMA AddIs ==
    ASSUME NEW z, NEW n, n \notin DOMAIN z, NEW v
    PROVE  /\ Extends(z, Add(z, n, v)) /\ DOMAIN Add(z, n, v) = DOMAIN z \cup {n}
           /\ Add(z, n, v)[n] = v
  BY DEF Extends, Add

(* A page more. *)
LEMMA AddGood ==
    ASSUME NEW d, NEW z, Trees(d, z), NEW nd, NEW v, Sound(z, nd, v), nd.page \notin DOMAIN z
    PROVE  LET y == Add(z, nd.page, v)
           IN  /\ Trees(Putnode(d, nd), y) /\ Extends(z, y) /\ DOMAIN y = DOMAIN z \cup {nd.page}
               /\ y[nd.page] = v
<1> DEFINE y == Add(z, nd.page, v)
           D == Putnode(d, nd)
<1>1. Extends(z, y) /\ DOMAIN y = DOMAIN z \cup {nd.page} /\ y[nd.page] = v
  <2> DEFINE k == nd.page
  <2>1. k \notin DOMAIN z
    OBVIOUS
  <2> HIDE DEF k
  <2>2. /\ Extends(z, Add(z, k, v)) /\ DOMAIN Add(z, k, v) = DOMAIN z \cup {k}
        /\ Add(z, k, v)[k] = v
    BY <2>1 DEF Add, Extends
  <2> QED  BY <2>2 DEF k
<1> HIDE DEF y
<1>2. /\ DOMAIN D = DOMAIN d \cup {nd.page} /\ D[nd.page] = Image(nd)
      /\ \A n \in DOMAIN d : n # nd.page => D[n] = d[n]
  BY DEF Putnode
<1>3. /\ Image(nd).leaf = nd.leaf /\ Image(nd).ents = nd.ents /\ Image(nd).kids = nd.kids
  BY DEF Image
<1> HIDE DEF D
<1>4. Sound(y, D[nd.page], y[nd.page])
  BY <1>1, <1>2, <1>3, SoundMore
<1>5. ASSUME NEW n \in DOMAIN z
      PROVE  n \in DOMAIN D /\ Sound(y, D[n], y[n])
  <2>1. n \in DOMAIN d /\ Sound(z, d[n], z[n]) /\ n # nd.page
    BY DEF Trees
  <2>2. D[n] = d[n] /\ y[n] = z[n] /\ n \in DOMAIN D
    BY <2>1, <1>1, <1>2 DEF Extends
  <2> QED  BY <2>1, <2>2, <1>1, SoundMore
<1>6. Trees(D, y)
  BY <1>1, <1>2, <1>4, <1>5 DEF Trees
<1> QED  BY <1>1, <1>6 DEF y, D

(* Two nodes as one. *)
LEMMA WholeLeft ==
    ASSUME NEW z, NEW b \in Neighbours, NEW v, Sound(z, b, v), NEW m, IsLeft(m, b, Len(b.ents))
    PROVE  Sound(z, m, v) /\ m \in NodeType /\ m.page = b.lpage
<1>1. /\ b.ents \in Seq(Ent) /\ b.kids \in Seq(Int) /\ b.leaf \in BOOLEAN /\ Len(b.ents) \in Nat
      /\ b.leaf => b.kids = <<>>
      /\ ~b.leaf => Len(b.kids) = Len(b.ents) + 1
  BY DEF Sound
<1>2. /\ m \in NodeType /\ m.page = b.lpage /\ m.leaf = b.leaf
      /\ m.ents = SubSeq(b.ents, 1, Len(b.ents))
      /\ m.kids = IF b.leaf THEN <<>> ELSE SubSeq(b.kids, 1, Len(b.ents) + 1)
  BY DEF IsLeft
<1>3. m.ents = b.ents
  BY <1>1, <1>2
<1>6. ~b.leaf => SubSeq(b.kids, 1, Len(b.ents) + 1) = b.kids
  BY <1>1
<1>4. m.kids = b.kids
  BY <1>1, <1>2, <1>6
<1>5. Extends(z, z)
  BY DEF Extends
<1> QED  BY <1>2, <1>3, <1>4, <1>5, SoundMore

LEMMA WholeRight ==
    ASSUME NEW z, NEW b \in Neighbours, Alike(b), NEW v, Sound(z, b, v), NEW m, IsRight(m, b, 0)
    PROVE  Sound(z, m, v) /\ m \in NodeType /\ m.page = b.rpage
<1>1. /\ b.ents \in Seq(Ent) /\ b.kids \in Seq(Int) /\ b.leaf \in BOOLEAN /\ Len(b.ents) \in Nat
      /\ b.leaf => b.kids = <<>>
      /\ ~b.leaf => Len(b.kids) = Len(b.ents) + 1
  BY DEF Sound
<1>2. /\ m \in NodeType /\ m.page = b.rpage /\ m.leaf = b.leaf
      /\ m.ents = SubSeq(b.ents, 0 + 1, Len(b.ents))
      /\ m.kids = IF b.leaf THEN <<>>
                  ELSE IF 0 = Len(b.ents) THEN b.last ELSE SubSeq(b.kids, 0 + 1, Len(b.ents) + 1)
  BY DEF IsRight
<1>3. m.ents = b.ents
  BY <1>1, <1>2
<1>6. ~b.leaf => SubSeq(b.kids, 1, Len(b.ents) + 1) = b.kids
  BY <1>1
<1>7. ASSUME ~b.leaf, 0 = Len(b.ents)
      PROVE  b.last = SubSeq(b.kids, 1, Len(b.ents) + 1)
  <2>1. b.last = SubSeq(b.kids, Len(b.ents) + 1, Len(b.ents) + 1)
    BY <1>7 DEF Alike
  <2>2. Len(b.ents) + 1 = 1
    BY <1>7
  <2> QED  BY <2>1, <2>2
<1>8. 0 + 1 = 1
  OBVIOUS
<1>9. ~b.leaf => m.kids = SubSeq(b.kids, 1, Len(b.ents) + 1)
  BY <1>2, <1>7, <1>8
<1>4. m.kids = b.kids
  BY <1>1, <1>2, <1>6, <1>9
<1>5. Extends(z, z)
  BY DEF Extends
<1> QED  BY <1>2, <1>3, <1>4, <1>5, SoundMore

LEMMA JoinedLeft ==
    ASSUME NEW z, NEW l, NEW r, NEW a, NEW c, NEW e, Adjoin(z, l, r, a, c, e),
           Exact(l), Exact(r), l.ovh = r.ovh
    PROVE  LET m == Moveleft(Lefter(l, r, e), r, Count(r)).left
           IN  m \in NodeType /\ Sound(z, m, Join(a, c)) /\ m.page = l.page
<1> DEFINE l2 == Lefter(l, r, e)
<1>1. PICK b, p : InPair(z, b, p, l2, r, Join(a, c)) /\ l2.page = l.page
  BY LeftPair
<1> HIDE DEF l2
<1>2. /\ b \in Neighbours /\ Alike(b) /\ Sound(z, b, Join(a, c)) /\ p \in 0 .. Len(b.ents)
      /\ IsLeft(l2, b, p) /\ IsRight(r, b, p)
  BY <1>1 DEF InPair
<1>3. b.ents \in Seq(Ent) /\ Len(b.ents) \in Nat
  BY <1>2 DEF Sound
<1>4. Count(r) = Len(b.ents) - p
  <2>1. /\ b.ents \in Seq(Ent) /\ p + 1 \in Nat /\ Len(b.ents) \in Nat /\ 1 =< p + 1
        /\ Len(b.ents) =< Len(b.ents) /\ p + 1 =< Len(b.ents) + 1
    BY <1>2, <1>3
  <2>2. Len(SubSeq(b.ents, p + 1, Len(b.ents))) = Len(b.ents) - (p + 1) + 1
    BY ONLY <2>1, PartType
  <2>3. r.ents = SubSeq(b.ents, p + 1, Len(b.ents))
    BY <1>2 DEF IsRight
  <2> QED  BY <2>1, <2>2, <2>3, <1>2 DEF Count
<1>5. Count(r) \in Nat /\ p + Count(r) = Len(b.ents) /\ p \in Nat
  BY <1>2, <1>3, <1>4
<1>6. IsPair(Moveleft(l2, r, Count(r)), b, Len(b.ents))
  <2>1. p + Count(r) =< Len(b.ents)
    BY <1>5, <1>3
  <2>2. IsPair(Moveleft(l2, r, Count(r)), b, p + Count(r))
    BY <1>2, <1>5, <2>1, MoveleftIs
  <2> QED  BY <2>2, <1>5
<1>7. IsLeft(Moveleft(l2, r, Count(r)).left, b, Len(b.ents)) /\ b.lpage = l2.page
  BY <1>6, <1>2 DEF IsPair, IsLeft
<1> QED  BY <1>1, <1>2, <1>7, WholeLeft DEF l2

LEMMA JoinedRight ==
    ASSUME NEW z, NEW l, NEW r, NEW a, NEW c, NEW e, Adjoin(z, l, r, a, c, e),
           Exact(l), Exact(r), l.ovh = r.ovh
    PROVE  LET m == Moveright(l, Righter(l, r, e), Count(l)).right
           IN  m \in NodeType /\ Sound(z, m, Join(a, c)) /\ m.page = r.page
<1> DEFINE r2 == Righter(l, r, e)
<1>1. PICK b, p : InPair(z, b, p, l, r2, Join(a, c)) /\ r2.page = r.page
  BY RightPair
<1> HIDE DEF r2
<1>2. /\ b \in Neighbours /\ Alike(b) /\ Sound(z, b, Join(a, c)) /\ p \in 0 .. Len(b.ents)
      /\ IsLeft(l, b, p) /\ IsRight(r2, b, p)
  BY <1>1 DEF InPair
<1>3. b.ents \in Seq(Ent) /\ Len(b.ents) \in Nat
  BY <1>2 DEF Sound
<1>4. Count(l) = p
  <2>1. /\ b.ents \in Seq(Ent) /\ 1 \in Nat /\ p \in Nat /\ 1 =< 1
        /\ p =< Len(b.ents) /\ 1 =< p + 1
    BY <1>2, <1>3
  <2>2. Len(SubSeq(b.ents, 1, p)) = p - 1 + 1
    BY ONLY <2>1, PartType
  <2>3. l.ents = SubSeq(b.ents, 1, p)
    BY <1>2 DEF IsLeft
  <2> QED  BY <2>1, <2>2, <2>3 DEF Count
<1>5. p \in Nat /\ p =< p /\ p =< Len(b.ents) /\ p - p = 0
  BY <1>2, <1>3
<1>6. IsPair(Moveright(l, r2, Count(l)), b, 0)
  <2>2. IsPair(Moveright(l, r2, p), b, p - p)
    BY <1>2, <1>5, MoverightIs
  <2> QED  BY <2>2, <1>4, <1>5
<1>7. IsRight(Moveright(l, r2, Count(l)).right, b, 0) /\ b.rpage = r2.page
  BY <1>6, <1>2 DEF IsPair, IsRight
<1> QED  BY <1>1, <1>2, <1>7, WholeRight DEF r2

-----------------------------------------------------------------------------
(* _spread(): a node and its sibling share their entries anew.             *)
Divided(z, p, a, c, leaf, ovh) ==
    /\ Sep(p.entry) /\ a.lo < p.entry.key /\ Before(p.entry.key, c.hi)
    /\ p.left \in NodeType /\ p.right \in NodeType
    /\ Sound(z, p.left, Under(Join(a, c), p.entry.key))
    /\ Sound(z, p.right, From(Join(a, c), p.entry.key))
    /\ Exact(p.left) /\ p.left.leaf = leaf /\ p.left.ovh = ovh
    /\ Exact(p.right) /\ p.right.leaf = leaf /\ p.right.ovh = ovh

(* Redistrib() of the two ends of a row. *)
LEMMA RowShared ==
    ASSUME NEW z, NEW b, NEW k, NEW l, NEW r, NEW a, NEW c, InPair(z, b, k, l, r, Join(a, c)),
           Redistrib(l, r).moved # 0
    PROVE  LET p == Promote(Redistrib(l, r))
           IN  /\ Divided(z, p, a, c, b.leaf, b.rovh)
               /\ (k > 0 => b.base + Over(b, 0) - Over(b, k - 1) =< PgSize) => p.left.end =< PgSize
               /\ (k < Len(b.ents) => b.base + Over(b, k + 1) =< PgSize) => p.right.end =< PgSize
<1> DEFINE m == Redistrib(l, r)
           n == Len(b.ents)
           p == Promote(m)
           v == Join(a, c)
           X == k > 0 => b.base + Over(b, 0) - Over(b, k - 1) =< PgSize
           Y == k < n => b.base + Over(b, k + 1) =< PgSize
<1>1. /\ b \in Neighbours /\ Alike(b) /\ b.tot = b.base + Over(b, 0) /\ b.base = Base(b.leaf)
      /\ Sound(z, b, v) /\ k \in 0 .. n /\ IsLeft(l, b, k) /\ IsRight(r, b, k)
  BY DEF InPair
<1>2. PgSize \in Nat /\ m.moved # 0
  BY SizesAssumption
<1>3. PICK q \in 0 .. n :
         /\ IsPair(m, b, q)
         /\ m.moved # 0 => /\ 0 < q /\ q < n
                           /\ X => m.left.end =< PgSize
                           /\ Y => m.right.end =< PgSize
  BY <1>1, <1>2, RedistribIs
<1> HIDE DEF m, X, Y
<1>4. 0 < q /\ q < n /\ (X => m.left.end =< PgSize) /\ (Y => m.right.end =< PgSize)
  BY <1>2, <1>3
<1>5. n \in Nat
  BY <1>1 DEF Sound
<1>6. q \in 1 .. n - 1
  BY <1>4, <1>5
<1>7. /\ Sep(p.entry) /\ v.lo < p.entry.key /\ Before(p.entry.key, v.hi)
      /\ p.left \in NodeType /\ Same(p.left, m.left) /\ p.right = m.right
      /\ p.left.end =< m.left.end
      /\ Sound(z, p.left, Under(v, p.entry.key)) /\ Sound(z, p.right, From(v, p.entry.key))
      /\ Exact(m.left) => Exact(p.left)
  BY <1>1, <1>3, <1>6, DivideIs
<1>8. IsLeft(m.left, b, q) /\ IsRight(m.right, b, q)
  BY <1>3 DEF IsPair
<1>9. Exact(m.left) /\ Exact(m.right)
  <2>1. b.lovh = b.rovh
    BY <1>1 DEF Alike
  <2> QED  BY <1>1, <1>8, <2>1, LeftEnd, RightEnd
<1>10. /\ m.left.leaf = b.leaf /\ m.right.leaf = b.leaf /\ m.left.ovh = b.rovh /\ m.right.ovh = b.rovh
       /\ m.right \in NodeType /\ m.left \in NodeType
  BY <1>1, <1>8 DEF IsLeft, IsRight, Alike
<1> HIDE DEF p, n
<1>11. v.lo = a.lo /\ v.hi = c.hi
  BY DEF Join
<1>12. Divided(z, p, a, c, b.leaf, b.rovh)
  BY <1>7, <1>9, <1>10, <1>11 DEF Divided, Same
<1>13. X => p.left.end =< PgSize
  <2>1. p.left.end \in Int /\ m.left.end \in Int
    BY <1>7, <1>10 DEF NodeType
  <2> QED  BY <2>1, <1>2, <1>4, <1>7
<1>14. Y => p.right.end =< PgSize
  BY <1>4, <1>7
<1> QED  BY <1>12, <1>13, <1>14 DEF m, p, n, X, Y

LEMMA SharedLeft ==
    ASSUME NEW z, NEW l, NEW r, NEW a, NEW c, NEW e, Adjoin(z, l, r, a, c, e),
           Exact(l), Exact(r), l.ovh = r.ovh, l.end =< PgSize,
           Redistrib(Lefter(l, r, e), r).moved # 0
    PROVE  LET p == Promote(Redistrib(Lefter(l, r, e), r))
           IN  Divided(z, p, a, c, r.leaf, r.ovh) /\ p.left.end =< PgSize
<1> DEFINE l2 == Lefter(l, r, e)
           m == Redistrib(l2, r)
           p == Promote(m)
<1>1. PICK b, k : /\ InPair(z, b, k, l2, r, Join(a, c)) /\ b.rovh = l.ovh
                  /\ k > 0 => b.base + Over(b, 0) - Over(b, k - 1) =< l.end
  BY LeftPair
<1> HIDE DEF l2
<1>2. /\ Divided(z, p, a, c, b.leaf, b.rovh)
      /\ (k > 0 => b.base + Over(b, 0) - Over(b, k - 1) =< PgSize) => p.left.end =< PgSize
  <2>1. Redistrib(l2, r).moved # 0
    BY DEF l2
  <2> QED  BY <1>1, <2>1, RowShared
<1>3. b \in Neighbours /\ IsRight(r, b, k) /\ k \in 0 .. Len(b.ents) /\ Len(b.ents) \in Nat
  BY <1>1 DEF InPair, Sound
<1>4. b.leaf = r.leaf
  BY <1>3 DEF IsRight
<1>5. k > 0 => b.base + Over(b, 0) - Over(b, k - 1) =< PgSize
  <2> HAVE k > 0
  <2>1. b.base + Over(b, 0) - Over(b, k - 1) =< l.end
    BY <1>1
  <2>2. Over(b, 0) \in Nat /\ Over(b, k - 1) \in Nat
    <3>1. 0 \in 0 .. Len(b.ents) /\ k - 1 \in 0 .. Len(b.ents) /\ 0 =< k - 1
      BY <1>3
    <3> QED  BY <1>3, <3>1, OverStep
  <2>3. b.base \in Nat
    BY <1>3 DEF Neighbours
  <2>4. l.end \in Int /\ PgSize \in Nat /\ l.end =< PgSize
    BY SizesAssumption DEF Adjoin, NodeType
  <2> DEFINE A == Over(b, 0)
             B == Over(b, k - 1)
  <2> HIDE DEF A, B
  <2>5. b.base + A - B =< l.end /\ A \in Nat /\ B \in Nat
    BY <2>1, <2>2 DEF A, B
  <2>6. b.base + A - B =< PgSize
    BY <2>3, <2>4, <2>5
  <2> QED  BY <2>6 DEF A, B
<1> QED  BY <1>1, <1>2, <1>4, <1>5 DEF l2

LEMMA SharedRight ==
    ASSUME NEW z, NEW l, NEW r, NEW a, NEW c, NEW e, Adjoin(z, l, r, a, c, e),
           Exact(l), Exact(r), l.ovh = r.ovh, r.end =< PgSize,
           Redistrib(l, Righter(l, r, e)).moved # 0
    PROVE  LET p == Promote(Redistrib(l, Righter(l, r, e)))
           IN  Divided(z, p, a, c, l.leaf, l.ovh) /\ p.right.end =< PgSize
<1> DEFINE r2 == Righter(l, r, e)
           m == Redistrib(l, r2)
           p == Promote(m)
<1>1. PICK b, k : /\ InPair(z, b, k, l, r2, Join(a, c)) /\ b.rovh = l.ovh
                  /\ k < Len(b.ents) => b.base + Over(b, k + 1) =< r.end
  BY RightPair
<1> HIDE DEF r2
<1>2. /\ Divided(z, p, a, c, b.leaf, b.rovh)
      /\ (k < Len(b.ents) => b.base + Over(b, k + 1) =< PgSize) => p.right.end =< PgSize
  <2>1. Redistrib(l, r2).moved # 0
    BY DEF r2
  <2> QED  BY <1>1, <2>1, RowShared
<1>3. b \in Neighbours /\ IsLeft(l, b, k) /\ k \in 0 .. Len(b.ents) /\ Len(b.ents) \in Nat
  BY <1>1 DEF InPair, Sound
<1>4. b.leaf = l.leaf
  BY <1>3 DEF IsLeft
<1>5. k < Len(b.ents) => b.base + Over(b, k + 1) =< PgSize
  <2> HAVE k < Len(b.ents)
  <2>1. b.base + Over(b, k + 1) =< r.end
    BY <1>1
  <2>2. Over(b, k + 1) \in Nat
    <3>1. k + 1 \in 0 .. Len(b.ents) /\ k + 1 =< k + 1
      BY <1>3
    <3> QED  BY <1>3, <3>1, OverStep
  <2>3. b.base \in Nat
    BY <1>3 DEF Neighbours
  <2>4. r.end \in Int /\ PgSize \in Nat /\ r.end =< PgSize
    BY SizesAssumption DEF Adjoin, NodeType
  <2> DEFINE B == Over(b, k + 1)
  <2> HIDE DEF B
  <2>5. b.base + B =< r.end /\ B \in Nat
    BY <2>1, <2>2 DEF B
  <2>6. b.base + B =< PgSize
    BY <2>3, <2>4, <2>5
  <2> QED  BY <2>6 DEF B
<1> QED  BY <1>1, <1>2, <1>4, <1>5 DEF r2

(* _split(): a node that does not fit a page is cut. *)
Cut(z, p, u, nd, n) ==
    /\ Sep(p.entry) /\ u.lo < p.entry.key /\ Before(p.entry.key, u.hi)
    /\ p.left \in NodeType /\ Short(p.left) /\ Same(p.left, nd)
    /\ p.right \in NodeType /\ p.right.page = n
    /\ Sound(z, p.left, Under(u, p.entry.key)) /\ Sound(z, p.right, From(u, p.entry.key))
LEMMA SplitTailIs ==
    ASSUME NEW z, NEW nd \in NodeType, NEW u, Sound(z, nd, u), Short(nd),
           nd.ovh = (IF nd.leaf THEN LeafOvh ELSE IndexOvh), nd.end > PgSize, NEW n \in Int
    PROVE  Cut(z, SplitTail(nd, Freshnode(n, nd.leaf)), u, nd, n)
<1> DEFINE leaf == nd.leaf
           new == Freshnode(n, leaf)
           s == nd.ents
           k == Len(s)
           b == [ents |-> s, kids |-> nd.kids, last |-> <<0>>, leaf |-> leaf,
                 lovh |-> nd.ovh, rovh |-> Overhead(leaf), tot |-> nd.end, base |-> Base(leaf),
                 lpage |-> nd.page, rpage |-> n]
           m == SplitRounds(nd, new)
           p == Promote(m)
<1>1. /\ s \in Seq(Ent) /\ nd.kids \in Seq(Int) /\ leaf \in BOOLEAN /\ k \in Nat
      /\ leaf => nd.kids = <<>>
      /\ ~leaf => Len(nd.kids) = k + 1
      /\ Roomy(nd) /\ nd.ovh \in Nat /\ nd.end \in Int /\ nd.page \in Int
  BY DEF Sound, NodeType
<1>2. Base(leaf) \in Nat /\ Overhead(leaf) \in Nat /\ PgSize \in Nat /\ nd.ovh =< Overhead(leaf)
  BY SizesAssumption DEF Base, Overhead
<1>3. /\ new \in NodeType /\ Exact(new) /\ new.page = n /\ new.leaf = leaf /\ new.ents = <<>>
      /\ new.kids = (IF leaf THEN <<>> ELSE <<0>>) /\ new.ovh = Overhead(leaf)
  BY <1>1, FreshIs
<1> HIDE DEF new
<1>4. b \in Neighbours /\ b.ents = s
  <2>1. <<0>> \in Seq(Int) /\ Len(<<0>>) = 1
    OBVIOUS
  <2> QED  BY <1>1, <1>2, <2>1 DEF Neighbours
<1>5. Over(b, k) = 0
  BY <1>4, OverStep
<1>6. IsLeft(nd, b, k)
  <2>1. s = SubSeq(s, 1, k)
    BY <1>1
  <2>4. ~leaf => SubSeq(nd.kids, 1, k + 1) = nd.kids
    BY <1>1
  <2>2. nd.kids = IF leaf THEN <<>> ELSE SubSeq(nd.kids, 1, k + 1)
    BY <1>1, <2>4
  <2>3. nd.end = nd.end - Over(b, k)
    BY <1>5, <1>1
  <2> QED  BY <2>1, <2>2, <2>3 DEF IsLeft
<1>7. IsRight(new, b, k)
  <2>1. <<>> = SubSeq(s, k + 1, k)
    <3>1. k + 1 \in Nat /\ 1 =< k + 1 /\ k =< Len(s) /\ k + 1 =< k + 1 /\ k - (k + 1) + 1 = 0
      BY <1>1
    <3>2. /\ SubSeq(s, k + 1, k) \in Seq(Ent)
          /\ Len(SubSeq(s, k + 1, k)) = k - (k + 1) + 1
      BY ONLY <1>1, <3>1, PartType
    <3> HIDE DEF k
    <3> QED  BY ONLY <3>1, <3>2, EmptySeq
  <2>2. new.end = Base(leaf) + Over(b, k)
    <3>1. Bytes(<<>>) = 0 /\ Len(<<>>) = 0
      BY BytesAdd
    <3>2. new.end = Base(leaf) + 0 + 0 * Overhead(leaf)
      BY <1>3, <3>1 DEF Exact
    <3> QED  BY <3>2, <1>5, <1>2
  <2>3. new.kids = IF leaf THEN <<>> ELSE <<0>>
    BY <1>3
  <2> QED  BY <1>3, <2>1, <2>2, <2>3 DEF IsRight
<1>8. Over(b, 0) = Bytes(s) + k * Overhead(leaf)
  <2>1. Over(b, 0) = Bytes(SubSeq(s, 0 + 1, k)) + (k - 0) * Overhead(leaf)
    BY DEF Over
  <2>2. SubSeq(s, 1, k) = s /\ 0 + 1 = 1 /\ k - 0 = k
    BY <1>1
  <2> QED  BY <2>1, <2>2
<1>9. nd.end =< Base(leaf) + Bytes(s) + k * nd.ovh
  BY DEF Short
<1>10. Bytes(s) \in Nat
  BY <1>1, BytesAdd
<1>11. k * nd.ovh =< k * Overhead(leaf) /\ k * nd.ovh \in Nat /\ k * Overhead(leaf) \in Nat
  <2> DEFINE x == nd.ovh
             y == Overhead(leaf)
  <2>1. x \in Nat /\ y \in Nat /\ x =< y
    BY <1>1, <1>2
  <2> HIDE DEF x, y
  <2>2. k * x =< k * y /\ k * x \in Nat /\ k * y \in Nat
    BY ONLY <1>1, <2>1
  <2> QED  BY <2>2 DEF x, y
<1>12. b.tot =< b.base + Over(b, 0)
  <2> DEFINE x == k * nd.ovh
             y == k * Overhead(leaf)
  <2>1. x =< y /\ x \in Nat /\ y \in Nat
    BY <1>11
  <2>2. nd.end =< Base(leaf) + Bytes(s) + x /\ Over(b, 0) = Bytes(s) + y
    BY <1>8, <1>9
  <2> HIDE DEF x, y
  <2>3. nd.end =< Base(leaf) + Over(b, 0)
    BY <2>1, <2>2, <1>10, <1>2, <1>1
  <2> QED  BY <2>3
<1>13. Base(leaf) =< PgSize
  <2>1. IndexBase + FreshOvh + KeySize =< PgSize
    BY SizesAssumption
  <2> QED  BY <2>1, SizesAssumption DEF Base
<1>14. \A i \in 1 .. k : Base(leaf) + Overhead(leaf) + s[i].size =< PgSize
  BY <1>1 DEF Roomy
<1>15. PICK q \in 1 .. k - 1 : IsPair(m, b, q)
  <2>1. /\ b.tot > PgSize /\ b.base =< PgSize
        /\ \A i \in 1 .. Len(b.ents) : b.base + b.rovh + b.ents[i].size =< PgSize
    BY <1>13, <1>14
  <2>2. IsLeft(nd, b, Len(b.ents)) /\ IsRight(new, b, Len(b.ents))
    BY <1>6, <1>7
  <2>3. \E q \in 1 .. Len(b.ents) - 1 : IsPair(SplitRounds(nd, new), b, q)
    BY <1>2, <1>4, <1>12, <2>1, <2>2, SplitRoundsAre
  <2> QED  BY <2>3
<1>16. Sound(z, b, u)
  <2>1. Extends(z, z) /\ b.leaf = nd.leaf /\ b.ents = nd.ents /\ b.kids = nd.kids
    BY DEF Extends
  <2> HIDE DEF b
  <2> QED  BY <2>1, SoundMore
<1>17. SplitTail(nd, new) = p
  BY DEF SplitTail, SplitRounds
<1>18. /\ b.base = Base(b.leaf) /\ b.lovh = nd.ovh /\ b.rovh = Overhead(leaf) /\ b.leaf = leaf
       /\ b.lovh =< b.rovh /\ b.tot = nd.end /\ b.lpage = nd.page /\ b.rpage = n
       /\ b.tot =< b.base + Bytes(b.ents) + Len(b.ents) * b.lovh
  BY <1>2, <1>9
<1> HIDE DEF b, m
<1>19. /\ Sep(p.entry) /\ u.lo < p.entry.key /\ Before(p.entry.key, u.hi)
       /\ p.left \in NodeType /\ Same(p.left, m.left) /\ p.right = m.right
       /\ Sound(z, p.left, Under(u, p.entry.key)) /\ Sound(z, p.right, From(u, p.entry.key))
       /\ Short(m.left) => Short(p.left)
  <2>1. q \in 1 .. Len(b.ents) - 1
    BY <1>4
  <2> QED  BY <1>4, <1>15, <1>16, <2>1, DivideIs
<1>20. IsLeft(m.left, b, q) /\ IsRight(m.right, b, q)
  BY <1>15 DEF IsPair
<1>21. Short(m.left)
  <2>1. q \in 0 .. Len(b.ents)
    BY <1>1, <1>4
  <2> QED  BY <1>4, <1>18, <1>20, <2>1, LeftEnd
<1>22. m.left.page = nd.page /\ m.left.leaf = nd.leaf /\ m.left.ovh = nd.ovh
  BY <1>18, <1>20 DEF IsLeft
<1>23. m.right \in NodeType /\ m.right.page = n
  BY <1>18, <1>20 DEF IsRight
<1> HIDE DEF p
<1>24. Cut(z, p, u, nd, n)
  BY <1>19, <1>21, <1>22, <1>23 DEF Cut, Same
<1> QED  BY <1>17, <1>24 DEF new, p
=============================================================================
