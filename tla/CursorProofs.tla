----------------------------- MODULE CursorProofs -----------------------------
(* Proofs about the cursor, for every set of keys, expression of where, shape *)
(* of the tree and number of updates: a record that is given matches and is   *)
(* there, the records come in order, and none is passed over. The invariant   *)
(* says what the cursor has still to come to: nothing but what is past its    *)
(* place, and all of that which matches.                                      *)
EXTENDS Cursor, FiniteSetTheorems, SequenceTheorems, WellFoundedInduction, TLAPS

-----------------------------------------------------------------------------
(* The order of keys. *)

LEMMA BoundType ==
    ASSUME NEW x \in Bounds
    PROVE  /\ x \in Seq(Int) /\ Len(x) \in {0, 1, 2} /\ Len(x) \in Int
           /\ Len(x) > 0 => x[1] \in Int
           /\ Len(x) > 1 => x[2] \in Int
<1>1. x \in Seq(Int) /\ Len(x) =< 2
  BY DEF Bounds
<1>2. Len(x) \in Nat /\ \A i \in 1..Len(x) : x[i] \in Int
  BY <1>1, LenProperties, ElementOfSeq
<1>3. Len(x) \in {0, 1, 2} /\ Len(x) \in Int
  <2>1. \A n \in Nat : n =< 2 => n \in {0, 1, 2} /\ n \in Int
    OBVIOUS
  <2> QED BY <1>1, <1>2, <2>1, Zenon
<1>4. /\ Len(x) > 0 => 1 \in 1..Len(x)
      /\ Len(x) > 1 => 2 \in 1..Len(x)
  BY <1>2
<1> QED BY <1>1, <1>2, <1>3, <1>4

(* Sequences that short are compared by their length and their elements. *)
LEMMA SameIff ==
    ASSUME NEW x \in Bounds, NEW y \in Bounds
    PROVE  x = y <=> /\ Len(x) = Len(y)
                     /\ Len(x) > 0 => x[1] = y[1]
                     /\ Len(x) > 1 => x[2] = y[2]
<1>1. /\ x \in Seq(Int) /\ Len(x) \in {0, 1, 2}
      /\ y \in Seq(Int) /\ Len(y) \in {0, 1, 2}
  BY BoundType
<1>2. ASSUME Len(x) = Len(y), Len(x) > 0 => x[1] = y[1], Len(x) > 1 => x[2] = y[2]
      PROVE  x = y
  <2>1. \A n \in {0, 1, 2} : \A i \in 1..n : i = 1 \/ i = 2
    OBVIOUS
  <2>2. ASSUME NEW i \in 1..Len(x) PROVE x[i] = y[i]
    <3>1. i = 1 \/ i = 2
      BY <1>1, <2>1, Zenon
    <3>2. i = 1 => Len(x) > 0
      BY <1>1
    <3>3. i = 2 => Len(x) > 1
      BY <1>1
    <3> QED BY <1>2, <3>1, <3>2, <3>3
  <2> QED BY <1>1, <1>2, <2>2, SeqEqual
<1> QED BY <1>2

LEMMA PrefixIff ==
    ASSUME NEW x \in Bounds, NEW y \in Bounds
    PROVE  IsPrefix(x, y) <=> /\ Len(x) =< Len(y)
                              /\ Len(x) > 0 => x[1] = y[1]
                              /\ Len(x) > 1 => x[2] = y[2]
<1>1. /\ x \in Seq(Int) /\ Len(x) \in {0, 1, 2}
      /\ y \in Seq(Int) /\ Len(y) \in {0, 1, 2}
  BY BoundType
<1> SUFFICES ASSUME Len(x) =< Len(y)
             PROVE  SubSeq(x, 1, Len(x)) = SubSeq(y, 1, Len(x))
                      <=> /\ Len(x) > 0 => x[1] = y[1]
                          /\ Len(x) > 1 => x[2] = y[2]
  BY DEF IsPrefix
<1> DEFINE a == SubSeq(x, 1, Len(x))
           b == SubSeq(y, 1, Len(x))
<1>2. /\ a \in Seq(Int) /\ Len(a) = Len(x) /\ \A i \in 1..Len(x) : a[i] = x[i]
      /\ b \in Seq(Int) /\ Len(b) = Len(x) /\ \A i \in 1..Len(x) : b[i] = y[i]
  BY <1>1, SubSeqProperties
<1>3. a \in Bounds /\ b \in Bounds
  BY <1>1, <1>2 DEF Bounds
<1> HIDE DEF a, b
<1>4. /\ Len(x) > 0 => a[1] = x[1] /\ b[1] = y[1]
      /\ Len(x) > 1 => a[2] = x[2] /\ b[2] = y[2]
  BY <1>1, <1>2
<1>5. a = b <=> /\ Len(x) > 0 => x[1] = y[1]
                /\ Len(x) > 1 => x[2] = y[2]
  BY <1>2, <1>3, <1>4, SameIff
<1> QED BY <1>5 DEF a, b

LEMMA BeforeIff ==
    ASSUME NEW x \in Bounds, NEW y \in Bounds
    PROVE  Before(x, y) <=>
             \/ Len(x) = 0 /\ Len(y) > 0
             \/ Len(x) > 0 /\ Len(y) > 0 /\ x[1] < y[1]
             \/ Len(x) = 1 /\ Len(y) = 2 /\ x[1] = y[1]
             \/ Len(x) = 2 /\ Len(y) = 2 /\ x[1] = y[1] /\ x[2] < y[2]
<1>1. /\ x \in Seq(Int) /\ Len(x) \in {0, 1, 2}
      /\ y \in Seq(Int) /\ Len(y) \in {0, 1, 2}
  BY BoundType
<1>2. IsStrictPrefix(x, y) <=> \/ Len(x) = 0 /\ Len(y) > 0
                               \/ Len(x) = 1 /\ Len(y) = 2 /\ x[1] = y[1]
  BY <1>1, PrefixIff, SameIff DEF IsStrictPrefix
<1>3. (\E i \in 1..Len(x) : /\ i =< Len(y) /\ x[i] < y[i]
                            /\ \A j \in 1..(i - 1) : x[j] = y[j])
        <=> \/ Len(x) > 0 /\ Len(y) > 0 /\ x[1] < y[1]
            \/ Len(x) = 2 /\ Len(y) = 2 /\ x[1] = y[1] /\ x[2] < y[2]
  <2>1. ASSUME NEW i \in 1..Len(x), i =< Len(y), x[i] < y[i],
               \A j \in 1..(i - 1) : x[j] = y[j]
        PROVE  \/ Len(x) > 0 /\ Len(y) > 0 /\ x[1] < y[1]
               \/ Len(x) = 2 /\ Len(y) = 2 /\ x[1] = y[1] /\ x[2] < y[2]
    <3>1. i = 1 \/ i = 2
      <4>1. \A n \in {0, 1, 2} : \A m \in 1..n : m = 1 \/ m = 2
        OBVIOUS
      <4> QED BY <1>1, <4>1, Zenon
    <3>2. CASE i = 1
      BY <1>1, <2>1, <3>2
    <3>3. CASE i = 2
      <4>1. 1 \in 1..(i - 1)
        BY <3>3
      <4> QED BY <1>1, <2>1, <3>3, <4>1
    <3> QED BY <3>1, <3>2, <3>3
  <2>2. ASSUME Len(x) > 0, Len(y) > 0, x[1] < y[1]
        PROVE  \E i \in 1..Len(x) : /\ i =< Len(y) /\ x[i] < y[i]
                                    /\ \A j \in 1..(i - 1) : x[j] = y[j]
    <3>1. 1 \in 1..Len(x) /\ 1 =< Len(y) /\ 1..(1 - 1) = {}
      BY <1>1, <2>2
    <3> QED BY <2>2, <3>1
  <2>3. ASSUME Len(x) = 2, Len(y) = 2, x[1] = y[1], x[2] < y[2]
        PROVE  \E i \in 1..Len(x) : /\ i =< Len(y) /\ x[i] < y[i]
                                    /\ \A j \in 1..(i - 1) : x[j] = y[j]
    <3>1. 2 \in 1..Len(x) /\ 2 =< Len(y) /\ \A j \in 1..(2 - 1) : j = 1
      BY <1>1, <2>3
    <3> QED BY <2>3, <3>1
  <2> QED BY <2>1, <2>2, <2>3
<1> QED BY <1>2, <1>3 DEF Before

(* It is a strict linear order. *)
LEMMA Linear ==
    ASSUME NEW x \in Bounds, NEW y \in Bounds, NEW z \in Bounds
    PROVE  /\ ~Before(x, x)
           /\ Before(x, y) /\ Before(y, z) => Before(x, z)
           /\ x = y \/ Before(x, y) \/ Before(y, x)
           /\ ~(Before(x, y) /\ Before(y, x))
<1> DEFINE T(s) == /\ Len(s) \in {0, 1, 2}
                   /\ Len(s) > 0 => s[1] \in Int
                   /\ Len(s) > 1 => s[2] \in Int
           B(s, u) == \/ Len(s) = 0 /\ Len(u) > 0
                      \/ Len(s) > 0 /\ Len(u) > 0 /\ s[1] < u[1]
                      \/ Len(s) = 1 /\ Len(u) = 2 /\ s[1] = u[1]
                      \/ Len(s) = 2 /\ Len(u) = 2 /\ s[1] = u[1] /\ s[2] < u[2]
<1>1. T(x) /\ T(y) /\ T(z)
  BY BoundType
<1>2. /\ Before(x, x) <=> B(x, x)
      /\ Before(x, y) <=> B(x, y)
      /\ Before(y, x) <=> B(y, x)
      /\ Before(y, z) <=> B(y, z)
      /\ Before(x, z) <=> B(x, z)
  BY BeforeIff
<1>3. ~B(x, x) /\ ~(B(x, y) /\ B(y, x))
  BY <1>1
<1>4. B(x, y) /\ B(y, z) => B(x, z)
  BY <1>1
<1>5. x = y \/ B(x, y) \/ B(y, x)
  BY <1>1, SameIff
<1> HIDE DEF B
<1> QED BY <1>2, <1>3, <1>4, <1>5

(* What lies before an entry that passes passes as well. *)
LEMMA PassesDown ==
    ASSUME NEW x \in Bounds, NEW y \in Bounds, NEW key \in Bounds, NEW mode,
           Passes(y, key, mode), Before(x, y)
    PROVE  Passes(x, key, mode)
<1>1. CASE Before(y, key)
  BY <1>1, Linear DEF Passes
<1>2. CASE mode = 2 /\ IsPrefix(key, y)
  <2>1. /\ Len(key) =< Len(y)
        /\ Len(key) > 0 => key[1] = y[1]
        /\ Len(key) > 1 => key[2] = y[2]
    BY <1>2, PrefixIff
  <2>2. \/ Len(x) = 0 /\ Len(y) > 0
        \/ Len(x) > 0 /\ Len(y) > 0 /\ x[1] < y[1]
        \/ Len(x) = 1 /\ Len(y) = 2 /\ x[1] = y[1]
        \/ Len(x) = 2 /\ Len(y) = 2 /\ x[1] = y[1] /\ x[2] < y[2]
    BY BeforeIff
  <2>3. /\ Len(x) \in {0, 1, 2} /\ Len(y) \in {0, 1, 2} /\ Len(key) \in {0, 1, 2}
        /\ Len(x) > 0 => x[1] \in Int
        /\ Len(y) > 0 => y[1] \in Int
        /\ Len(y) > 1 => y[2] \in Int
    BY BoundType
  <2>4. \/ Len(key) = 0
        \/ Len(x) = 0 /\ Len(key) > 0
        \/ Len(x) > 0 /\ Len(key) > 0 /\ x[1] < key[1]
        \/ Len(x) = 1 /\ Len(key) = 2 /\ x[1] = key[1]
        \/ Len(x) = 2 /\ Len(key) = 2 /\ x[1] = key[1] /\ x[2] < key[2]
        \/ /\ Len(key) =< Len(x)
           /\ Len(key) > 0 => key[1] = x[1]
           /\ Len(key) > 1 => key[2] = x[2]
    BY <2>3, <2>1, <2>2
  <2>5. Before(x, key) \/ IsPrefix(key, x)
    BY <2>4, BoundType, BeforeIff, PrefixIff
  <2> QED BY <1>2, <2>5 DEF Passes
<1> QED BY <1>1, <1>2 DEF Passes

(* A set of natural numbers has a least one, ... *)
LEMMA LeastNumber ==
    ASSUME NEW S \in SUBSET Nat, S # {}
    PROVE  \E n \in S : \A m \in S : n =< m
<1> DEFINE R == OpToRel(<, Nat)
<1>1. IsWellFoundedOn(R, Nat)
  BY NatLessThanWellFounded
<1>2. \A x, y \in Nat : x < y => <<x, y>> \in R
  BY DEF OpToRel
<1> HIDE DEF R
<1>3. PICK n \in S : \A m \in S : ~(<<m, n>> \in R)
  BY <1>1, WFMin
<1>4. ASSUME NEW m \in S PROVE n =< m
  <2>1. n \in Nat /\ m \in Nat /\ ~(m < n)
    BY <1>2, <1>3
  <2> QED BY <2>1
<1> QED BY <1>4

(* ... and a finite set of keys a first and a last one. *)
LEMMA LeastIs ==
    ASSUME NEW S \in SUBSET Bounds, IsFiniteSet(S), S # {}
    PROVE  Least(S) \in S /\ \A y \in S : y = Least(S) \/ Before(Least(S), y)
<1> DEFINE Under(x) == {y \in S : Before(y, x)}
           N == {Cardinality(Under(x)) : x \in S}
<1>1. \A x \in S : IsFiniteSet(Under(x)) /\ Cardinality(Under(x)) \in Nat
  BY FS_Subset, FS_CardinalityType
<1>2. N \in SUBSET Nat /\ N # {}
  BY <1>1
<1>3. PICK x \in S : \A y \in S : Cardinality(Under(x)) =< Cardinality(Under(y))
  <2> HIDE DEF Under
  <2>1. PICK n \in N : \A m \in N : n =< m
    BY <1>2, LeastNumber
  <2> QED BY <2>1
<1>4. ASSUME NEW y \in S, Before(y, x) PROVE FALSE
  <2>1. Under(y) \subseteq Under(x)
    BY <1>4, Linear
  <2>2. y \in Under(x) /\ y \notin Under(y)
    BY <1>4, Linear
  <2>3. Cardinality(Under(y)) =< Cardinality(Under(x)) /\ Cardinality(Under(y)) # Cardinality(Under(x))
    BY <1>1, <2>1, <2>2, FS_Subset, Zenon
  <2>4. Cardinality(Under(x)) \in Nat /\ Cardinality(Under(y)) \in Nat
    BY <1>1
  <2> QED BY <1>3, <2>3, <2>4
<1>5. Least(S) \in S /\ \A y \in S : ~Before(y, Least(S))
  BY <1>4 DEF Least
<1> QED BY <1>5, Linear

LEMMA GreatestIs ==
    ASSUME NEW S \in SUBSET Bounds, IsFiniteSet(S), S # {}
    PROVE  Greatest(S) \in S /\ \A y \in S : y = Greatest(S) \/ Before(y, Greatest(S))
<1> DEFINE Over(x) == {y \in S : Before(x, y)}
           N == {Cardinality(Over(x)) : x \in S}
<1>1. \A x \in S : IsFiniteSet(Over(x)) /\ Cardinality(Over(x)) \in Nat
  BY FS_Subset, FS_CardinalityType
<1>2. N \in SUBSET Nat /\ N # {}
  BY <1>1
<1>3. PICK x \in S : \A y \in S : Cardinality(Over(x)) =< Cardinality(Over(y))
  <2> HIDE DEF Over
  <2>1. PICK n \in N : \A m \in N : n =< m
    BY <1>2, LeastNumber
  <2> QED BY <2>1
<1>4. ASSUME NEW y \in S, Before(x, y) PROVE FALSE
  <2>1. Over(y) \subseteq Over(x)
    BY <1>4, Linear
  <2>2. y \in Over(x) /\ y \notin Over(y)
    BY <1>4, Linear
  <2>3. Cardinality(Over(y)) =< Cardinality(Over(x)) /\ Cardinality(Over(y)) # Cardinality(Over(x))
    BY <1>1, <2>1, <2>2, FS_Subset, Zenon
  <2>4. Cardinality(Over(x)) \in Nat /\ Cardinality(Over(y)) \in Nat
    BY <1>1
  <2> QED BY <1>3, <2>3, <2>4
<1>5. Greatest(S) \in S /\ \A y \in S : ~Before(Greatest(S), y)
  BY <1>4 DEF Greatest
<1> QED BY <1>5, Linear

(* Keys and separators are short, and there are finitely many. *)
LEMMA KeysAreBounds ==
    /\ Key \subseteq Bounds /\ Short \subseteq Bounds /\ None \in Bounds
    /\ IsFiniteSet(Key) /\ IsFiniteSet(Short)
    /\ \A k \in Key : Len(k) = 2 /\ k[1] \in Int /\ k[2] \in Int
    /\ \A s \in Short : Len(s) > 0 /\ s[1] # 0
<1>1. ASSUME NEW k \in Key
      PROVE  /\ k \in Seq(Int) /\ Len(k) = 2
             /\ k[1] \in Int /\ k[2] \in Int /\ k[1] # 0
  <2>1. k \in (Nat \ {0}) \X Nat
    BY Constants
  <2>2. k = <<k[1], k[2]>> /\ k[1] \in Int /\ k[2] \in Int /\ k[1] # 0
    BY <2>1
  <2>3. \A a, b \in Int : <<a, b>> \in Seq(Int) /\ Len(<<a, b>>) = 2
    OBVIOUS
  <2> QED BY <2>2, <2>3
<1>2. ASSUME NEW k \in Key
      PROVE  <<k[1]>> \in Seq(Int) /\ Len(<<k[1]>>) = 1 /\ <<k[1]>>[1] = k[1]
  BY <1>1
<1>3. IsFiniteSet({<<k[1]>> : k \in Key})
  <2> DEFINE T == {<<k[1]>> : k \in Key}
             f == [k \in Key |-> <<k[1]>>]
  <2>1. f \in Surjection(Key, T)
    BY DEF Surjection
  <2> QED BY <2>1, Constants, FS_Surjection
<1>4. IsFiniteSet(Key) /\ IsFiniteSet(Short)
  BY <1>3, Constants, FS_Union DEF Short
<1>5. None \in Bounds
  BY DEF None, Bounds
<1>6. Key \subseteq Bounds
  <2>1. ASSUME NEW k \in Key PROVE k \in Seq(Int) /\ Len(k) =< 2
    <3>1. k \in Seq(Int) /\ Len(k) = 2
      BY <1>1
    <3> QED BY <3>1
  <2> QED BY <2>1, Zenon DEF Bounds
<1>7. ASSUME NEW s \in Short PROVE s \in Bounds /\ Len(s) > 0 /\ s[1] # 0
  <2>1. CASE s \in Key
    BY <1>1, <1>6, <2>1
  <2>2. CASE s \in {<<k[1]>> : k \in Key}
    <3>1. PICK k \in Key : s = <<k[1]>>
      BY <2>2
    <3>2. s \in Seq(Int) /\ Len(s) = 1 /\ s[1] = k[1]
      BY <1>2, <3>1
    <3> QED BY <1>1, <3>2 DEF Bounds
  <2> QED BY <2>1, <2>2 DEF Short
<1> QED BY <1>1, <1>4, <1>5, <1>6, <1>7

-----------------------------------------------------------------------------
(* The way down. *)

(* The table of the windows below each window, level by level, exists. *)
LEMMA DownExists ==
    ASSUME NEW N \in [1..MaxLevel -> [Window -> Window]]
    PROVE  \E f : f = [l \in 0..MaxLevel |->
                         [w \in Window |-> IF l = 0 THEN w ELSE f[l - 1][N[l][w]]]]
<1> DEFINE P(n) == \E f : f = [l \in 0..n |->
                         [w \in Window |-> IF l = 0 THEN w ELSE f[l - 1][N[l][w]]]]
           Bad == {n \in 0..MaxLevel : ~P(n)}
<1>1. MaxLevel \in Nat
  BY Constants
<1>2. P(0)
  <2> DEFINE f == [l \in 0..0 |-> [w \in Window |-> w]]
  <2>1. f = [l \in 0..0 |-> [w \in Window |-> IF l = 0 THEN w ELSE f[l - 1][N[l][w]]]]
    OBVIOUS
  <2> QED BY <2>1
<1>3. ASSUME NEW n \in 0..MaxLevel, n + 1 \in 0..MaxLevel, P(n) PROVE P(n + 1)
  <2>1. PICK f : f = [l \in 0..n |->
                        [w \in Window |-> IF l = 0 THEN w ELSE f[l - 1][N[l][w]]]]
    BY <1>3
  <2> DEFINE g == [l \in 0..(n + 1) |-> IF l \in 0..n THEN f[l]
                                        ELSE [w \in Window |-> f[n][N[n + 1][w]]]]
             h == [l \in 0..(n + 1) |->
                     [w \in Window |-> IF l = 0 THEN w ELSE g[l - 1][N[l][w]]]]
  <2>2. ASSUME NEW l \in 0..(n + 1) PROVE g[l] = h[l]
    <3>1. CASE l \in 0..n
      <4>1. g[l] = [w \in Window |-> IF l = 0 THEN w ELSE f[l - 1][N[l][w]]]
        BY <2>1, <3>1
      <4>2. l # 0 => l - 1 \in 0..n /\ l - 1 \in 0..(n + 1)
        BY <1>1, <3>1
      <4>3. l # 0 => g[l - 1] = f[l - 1]
        BY <4>2
      <4>4. h[l] = [w \in Window |-> IF l = 0 THEN w ELSE g[l - 1][N[l][w]]]
        OBVIOUS
      <4> HIDE DEF g, h
      <4> QED BY <4>1, <4>3, <4>4
    <3>2. CASE l \notin 0..n
      <4>1. l = n + 1 /\ l # 0 /\ l - 1 = n /\ n \in 0..n /\ n \in 0..(n + 1)
        BY <1>1, <3>2
      <4>2. g[l] = [w \in Window |-> f[n][N[n + 1][w]]] /\ g[n] = f[n]
        BY <3>2, <4>1
      <4>3. h[l] = [w \in Window |-> IF l = 0 THEN w ELSE g[l - 1][N[l][w]]]
        OBVIOUS
      <4> HIDE DEF g, h
      <4> QED BY <4>1, <4>2, <4>3
    <3> QED BY <3>1, <3>2
  <2>3. g = h
    <3>1. g = [l \in 0..(n + 1) |-> g[l]] /\ h = [l \in 0..(n + 1) |-> h[l]]
      OBVIOUS
    <3> HIDE DEF g, h
    <3> QED BY <2>2, <3>1
  <2> HIDE DEF g
  <2> QED BY <2>3
<1> HIDE DEF P
<1>4. Bad = {}
  <2> SUFFICES ASSUME Bad # {} PROVE FALSE
    OBVIOUS
  <2>1. Bad \in SUBSET Nat
    BY <1>1
  <2>2. PICK n \in Bad : \A m \in Bad : n =< m
    BY <2>1, LeastNumber
  <2>3. n \in 0..MaxLevel /\ n # 0 /\ ~P(n)
    BY <1>2, <2>2
  <2>4. n - 1 \in 0..MaxLevel /\ (n - 1) + 1 = n /\ ~(n =< n - 1)
    BY <1>1, <2>3
  <2>5. P(n - 1)
    BY <2>2, <2>4
  <2> QED BY <1>3, <2>3, <2>4, <2>5
<1>5. P(MaxLevel)
  <2>1. MaxLevel \in 0..MaxLevel
    BY <1>1
  <2> QED BY <1>4, <2>1
<1> QED BY <1>5 DEF P

(* What every window on the way down keeps: the search went right of its lower *)
(* end and left of its upper one.                                             *)
Between(key, mode, right, w) ==
  /\ w.lo = None \/ Passes(w.lo, key, mode) \/ (right /\ w.lo = key)
  /\ w.hi = None \/ ~(Passes(w.hi, key, mode) \/ (right /\ w.hi = key))

LEMMA ChildBetween ==
    ASSUME NEW t, Seps(t) \subseteq Short, NEW key, NEW mode, NEW right, NEW l, NEW w \in Window
    PROVE  LET v == Child(OnPage(t, l, w), Passed(t, key, mode, right, l, w), w)
           IN  v \in Window /\ (Between(key, mode, right, w) => Between(key, mode, right, v))
<1> DEFINE page == OnPage(t, l, w)
           passed == Passed(t, key, mode, right, l, w)
           v == Child(page, passed, w)
<1>1. page \subseteq Short /\ passed \subseteq page
  BY DEF OnPage, Passed
<1>2. \A s \in page : s \in passed <=> (Passes(s, key, mode) \/ (right /\ s = key))
  BY DEF Passed
<1>3. /\ passed \in SUBSET Bounds /\ IsFiniteSet(passed)
      /\ page \ passed \in SUBSET Bounds /\ IsFiniteSet(page \ passed)
  BY <1>1, KeysAreBounds, FS_Subset
<1>4. passed # {} => Greatest(passed) \in passed
  BY <1>3, GreatestIs
<1>5. page # passed => Least(page \ passed) \in page \ passed
  <2>1. page # passed => page \ passed # {}
    BY <1>1
  <2> QED BY <1>3, <2>1, LeastIs
<1>6. w.lo \in Short \cup {None} /\ w.hi \in Short \cup {None}
  BY DEF Window
<1>7. /\ v = [lo |-> v.lo, hi |-> v.hi]
      /\ v.lo = IF passed # {} THEN Greatest(passed) ELSE w.lo
      /\ v.hi = IF page # passed THEN Least(page \ passed) ELSE w.hi
  BY DEF Child
<1> HIDE DEF page, passed, v
<1>8. v.lo \in Short \cup {None} /\ v.hi \in Short \cup {None}
  BY <1>1, <1>4, <1>5, <1>6, <1>7
<1>9. v \in Window
  <2>1. [lo |-> v.lo, hi |-> v.hi] \in Window
    BY <1>8 DEF Window
  <2> QED BY <1>7, <2>1
<1>10. Between(key, mode, right, w) => Between(key, mode, right, v)
  BY <1>1, <1>2, <1>4, <1>5, <1>7 DEF Between
<1> QED BY <1>9, <1>10 DEF page, passed, v

(* findnxt() and findprev() end between a separator they passed and one they  *)
(* did not, whatever the tree.                                               *)
LEMMA WayBetween ==
    ASSUME NEW t, Seps(t) \subseteq Short, NEW key, NEW mode, NEW right
    PROVE  Way(t, key, mode, right) \in Window /\ Between(key, mode, right, Way(t, key, mode, right))
<1> DEFINE C(l, w) == Child(OnPage(t, l, w), Passed(t, key, mode, right, l, w), w)
           N == [l \in 1..MaxLevel |-> [w \in Window |-> C(l, w)]]
           B(w) == Between(key, mode, right, w)
           down == CHOOSE f : f = [l \in 0..MaxLevel |-> [w \in Window |->
                     IF l = 0 THEN w ELSE f[l - 1][C(l, w)]]]
           top == [lo |-> None, hi |-> None]
<1>1. \A l, w : w \in Window => C(l, w) \in Window /\ (B(w) => B(C(l, w)))
  BY ChildBetween, Zenon
<1>2. Way(t, key, mode, right) = down[MaxLevel][top]
  BY DEF Way
<1> HIDE DEF C, B
<1>3. N \in [1..MaxLevel -> [Window -> Window]]
  BY <1>1
<1>4. \A l \in 0..MaxLevel, w \in Window : l # 0 => N[l][w] = C(l, w)
  <2>1. \A l \in 0..MaxLevel : l # 0 => l \in 1..MaxLevel
    OBVIOUS
  <2> QED BY <2>1
<1> HIDE DEF N
<1>5. \A f : [l \in 0..MaxLevel |-> [w \in Window |-> IF l = 0 THEN w ELSE f[l - 1][C(l, w)]]]
           = [l \in 0..MaxLevel |-> [w \in Window |-> IF l = 0 THEN w ELSE f[l - 1][N[l][w]]]]
  BY <1>4
<1>6. down = [l \in 0..MaxLevel |-> [w \in Window |->
                IF l = 0 THEN w ELSE down[l - 1][N[l][w]]]]
  <2>1. \E f : f = [l \in 0..MaxLevel |-> [w \in Window |->
                      IF l = 0 THEN w ELSE f[l - 1][N[l][w]]]]
    BY <1>3, DownExists
  <2>2. \E f : f = [l \in 0..MaxLevel |-> [w \in Window |->
                      IF l = 0 THEN w ELSE f[l - 1][C(l, w)]]]
    <3>1. PICK f : f = [l \in 0..MaxLevel |-> [w \in Window |->
                          IF l = 0 THEN w ELSE f[l - 1][N[l][w]]]]
      BY <2>1, Zenon
    <3>2. f = [l \in 0..MaxLevel |-> [w \in Window |->
                 IF l = 0 THEN w ELSE f[l - 1][C(l, w)]]]
      BY <1>5, <3>1, Zenon
    <3> QED BY <3>2, Zenon
  <2>3. down = [l \in 0..MaxLevel |-> [w \in Window |->
                  IF l = 0 THEN w ELSE down[l - 1][C(l, w)]]]
    BY <2>2
  <2> HIDE DEF down
  <2> QED BY <1>5, <2>3
<1> HIDE DEF down
<1>7. \A w \in Window : /\ down[0][w] = w
                        /\ \A l \in 1..MaxLevel : down[l][w] = down[l - 1][C(l, w)]
  <2> SUFFICES ASSUME NEW w \in Window
               PROVE  /\ down[0][w] = w
                      /\ \A l \in 1..MaxLevel : down[l][w] = down[l - 1][C(l, w)]
    OBVIOUS
  <2>1. down[0][w] = w
    <3>1. 0 \in 0..MaxLevel
      BY Constants
    <3>2. down[0] = [v \in Window |-> IF 0 = 0 THEN v ELSE down[0 - 1][N[0][v]]]
      BY <1>6, <3>1
    <3> QED BY <3>2
  <2>2. ASSUME NEW l \in 1..MaxLevel PROVE down[l][w] = down[l - 1][C(l, w)]
    <3>1. l \in 0..MaxLevel /\ l # 0
      BY <2>2
    <3>2. down[l] = [v \in Window |-> IF l = 0 THEN v ELSE down[l - 1][N[l][v]]]
      BY <1>6, <3>1
    <3> QED BY <1>4, <3>1, <3>2
  <2> QED BY <2>1, <2>2
<1> DEFINE P(l) == \A w \in Window : B(w) => down[l][w] \in Window /\ B(down[l][w])
           Bad == {l \in 0..MaxLevel : ~P(l)}
<1>8. Bad = {}
  <2> SUFFICES ASSUME Bad # {} PROVE FALSE
    OBVIOUS
  <2>1. Bad \in SUBSET Nat
    OBVIOUS
  <2>2. PICK n \in Bad : \A m \in Bad : n =< m
    BY <2>1, LeastNumber
  <2>3. n \in 0..MaxLevel /\ n # 0 /\ ~P(n)
    BY <1>7, <2>2
  <2>4. n - 1 \in 0..MaxLevel /\ n \in 1..MaxLevel /\ ~(n =< n - 1)
    BY Constants, <2>3
  <2>5. P(n - 1)
    BY <2>2, <2>4
  <2>6. P(n)
    BY <1>1, <1>7, <2>4, <2>5
  <2> QED BY <2>3, <2>6
<1>9. top \in Window /\ B(top)
  BY DEF Window, B, Between
<1>10. MaxLevel \in 0..MaxLevel
  BY Constants
<1> QED BY <1>2, <1>8, <1>9, <1>10 DEF B

-----------------------------------------------------------------------------
(* The where and its bounds. *)

HeightOK(h) == /\ h \in [Where -> 0..Cardinality(Where)]
               /\ \A e \in Where \ {NoExpr} : Comparison(e) \/ Join(e, h)

Joins(e) == e # NoExpr /\ e.join \in {"and", "or"}

(* A table over the expressions whose entries depend on those of their parts  *)
(* only exists.                                                              *)
LEMMA TableExists ==
    ASSUME NEW h, HeightOK(h), NEW V, V # {}, NEW B \in [[Where -> V] -> [Where -> V]],
           \A m, n \in [Where -> V] : \A e \in Where :
             (Joins(e) => m[e.one] = n[e.one] /\ m[e.other] = n[e.other]) => B[m][e] = B[n][e]
    PROVE  \E m \in [Where -> V] : m = B[m]
<1> DEFINE F == [Where -> V]
           P(n) == \E m \in F : \A e \in Where : h[e] =< n => m[e] = B[m][e]
           top == Cardinality(Where)
           Bad == {n \in 0..top : ~P(n)}
<1>1. top \in Nat
  BY Constants, FS_CardinalityType
<1>2. \A e \in Where : h[e] \in 0..top
  BY DEF HeightOK
<1>3. \A e \in Where : Joins(e) => /\ e.one \in Where /\ e.other \in Where
                                   /\ h[e.one] < h[e] /\ h[e.other] < h[e]
  BY DEF HeightOK, Joins, Join, Comparison
<1>4. \A m \in F : B[m] \in F
  OBVIOUS
<1>5. P(0)
  <2>1. PICK v \in V : TRUE
    OBVIOUS
  <2>2. [e \in Where |-> v] \in F
    OBVIOUS
  <2>3. PICK n \in F : TRUE
    BY <2>2
  <2>4. ASSUME NEW e \in Where, h[e] =< 0 PROVE ~Joins(e)
    <3>1. Joins(e) => h[e.one] \in 0..top /\ h[e.one] < h[e]
      BY <1>2, <1>3
    <3> QED BY <1>1, <1>2, <2>4, <3>1
  <2>5. \A e \in Where : h[e] =< 0 => B[n][e] = B[B[n]][e]
    BY <1>4, <2>4
  <2> QED BY <1>4, <2>5
<1>6. ASSUME NEW n \in 0..top, n + 1 \in 0..top, P(n) PROVE P(n + 1)
  <2>1. PICK m \in F : \A e \in Where : h[e] =< n => m[e] = B[m][e]
    BY <1>6
  <2>2. ASSUME NEW e \in Where, h[e] =< n + 1 PROVE B[m][e] = B[B[m]][e]
    <3>1. ASSUME Joins(e)
          PROVE  m[e.one] = B[m][e.one] /\ m[e.other] = B[m][e.other]
      <4>1. /\ e.one \in Where /\ e.other \in Where
            /\ h[e.one] < h[e] /\ h[e.other] < h[e]
        BY <1>3, <3>1
      <4>2. h[e] \in Int /\ h[e.one] \in Int /\ h[e.other] \in Int /\ n \in Int
        BY <1>1, <1>2, <4>1
      <4>3. h[e.one] =< n /\ h[e.other] =< n
        BY <2>2, <4>1, <4>2
      <4> QED BY <2>1, <4>1, <4>3
    <3> QED BY <1>4, <3>1
  <2> QED BY <1>4, <2>2
<1> HIDE DEF P
<1>7. Bad = {}
  <2> SUFFICES ASSUME Bad # {} PROVE FALSE
    OBVIOUS
  <2>1. Bad \in SUBSET Nat
    BY <1>1
  <2>2. PICK n \in Bad : \A m \in Bad : n =< m
    BY <2>1, LeastNumber
  <2>3. n \in 0..top /\ n # 0 /\ ~P(n)
    BY <1>5, <2>2
  <2>4. n - 1 \in 0..top /\ (n - 1) + 1 = n /\ ~(n =< n - 1)
    BY <1>1, <2>3
  <2>5. P(n - 1)
    BY <2>2, <2>4
  <2> QED BY <1>6, <2>3, <2>4, <2>5
<1>8. P(top)
  <2>1. top \in 0..top
    BY <1>1
  <2> QED BY <1>7, <2>1
<1>9. PICK m \in F : \A e \in Where : h[e] =< top => m[e] = B[m][e]
  BY <1>8 DEF P
<1>10. \A e \in Where : h[e] =< top
  BY <1>1, <1>2
<1>11. m = B[m]
  BY <1>4, <1>9, <1>10
<1> QED BY <1>11

(* What holds of an expression if it holds of its parts holds of all.        *)
LEMMA WhereInduction ==
    ASSUME NEW h, HeightOK(h), NEW T \in SUBSET Where,
           \A e \in Where : (Joins(e) => e.one \in T /\ e.other \in T) => e \in T
    PROVE  T = Where
<1> SUFFICES ASSUME Where \ T # {} PROVE FALSE
  OBVIOUS
<1> DEFINE N == {h[e] : e \in Where \ T}
<1>1. \A e \in Where : h[e] \in Nat
  BY Constants, FS_CardinalityType DEF HeightOK
<1>2. N \in SUBSET Nat /\ N # {}
  BY <1>1
<1>3. PICK n \in N : \A m \in N : n =< m
  BY <1>2, LeastNumber
<1>4. PICK e \in Where \ T : h[e] = n
  BY <1>3
<1>5. Joins(e) => /\ e.one \in Where /\ e.other \in Where
                  /\ h[e.one] < h[e] /\ h[e.other] < h[e]
  BY DEF HeightOK, Joins, Join, Comparison
<1>6. \A d \in Where \ T : ~(h[d] < h[e])
  <2>1. ASSUME NEW d \in Where \ T PROVE ~(h[d] < h[e])
    <3>1. h[d] \in N /\ h[d] \in Nat /\ h[e] \in Nat
      BY <1>1
    <3> QED BY <1>3, <1>4, <3>1
  <2> QED BY <2>1
<1> QED BY <1>4, <1>5, <1>6

(* What _match() answers. *)
LEMMA MatchIs ==
    ASSUME NEW k
    PROVE  /\ Match(k) \in [Where -> BOOLEAN]
           /\ \A e \in Where : Match(k)[e] <=>
                \/ e = NoExpr
                \/ e.join = "or" /\ (Match(k)[e.one] \/ Match(k)[e.other])
                \/ e.join = "and" /\ Match(k)[e.one] /\ Match(k)[e.other]
                \/ e.join = "cmp" /\ Sign(k[e.field], e.value) \in e.op
<1> DEFINE Body(m, e) ==
             \/ e = NoExpr
             \/ e.join = "or" /\ (m[e.one] \/ m[e.other])
             \/ e.join = "and" /\ m[e.one] /\ m[e.other]
             \/ e.join = "cmp" /\ Sign(k[e.field], e.value) \in e.op
           F == [Where -> BOOLEAN]
           B == [m \in F |-> [e \in Where |-> Body(m, e)]]
           match == CHOOSE m : m = [e \in Where |-> Body(m, e)]
<1>1. PICK h : HeightOK(h)
  BY Expressions, Zenon DEF HeightOK
<1>2. \A m \in F : \A e \in Where : Body(m, e) \in BOOLEAN
  BY Zenon
<1>3. \A m, n \in F : \A e \in Where :
        (Joins(e) => m[e.one] = n[e.one] /\ m[e.other] = n[e.other]) => Body(m, e) = Body(n, e)
  BY DEF Joins
<1>4. Match(k) = match
  BY Zenon DEF Match
<1> HIDE DEF Body
<1>5. B \in [F -> F] /\ \A m \in F : \A e \in Where : B[m][e] = Body(m, e)
  BY <1>2
<1>6. \A m, n \in F : \A e \in Where :
        (Joins(e) => m[e.one] = n[e.one] /\ m[e.other] = n[e.other]) => B[m][e] = B[n][e]
  BY <1>3, <1>5
<1>7. \A m \in F : B[m] = [e \in Where |-> Body(m, e)]
  OBVIOUS
<1> HIDE DEF B
<1>8. PICK n \in F : n = B[n]
  BY <1>1, <1>5, <1>6, TableExists
<1>9. n = [e \in Where |-> Body(n, e)]
  BY <1>7, <1>8
<1>10. match = [e \in Where |-> Body(match, e)]
  BY <1>9
<1> HIDE DEF match
<1>11. \A e \in Where : match[e] = Body(match, e)
  BY <1>10, Zenon
<1>12. \A e \in Where : Body(match, e) \in BOOLEAN
  BY Zenon DEF Body
<1>13. match \in [Where -> BOOLEAN]
  BY <1>10, <1>12, Zenon
<1>14. \A e \in Where : match[e] <=> Body(match, e)
  BY <1>11, Zenon
<1> QED BY <1>4, <1>13, <1>14, Zenon DEF Body

(* What _bound() answers. *)
BoundValues == {None} \cup {<<i>> : i \in Int}
BoundBody(op, f, b, e) ==
  IF e = NoExpr THEN None ELSE
  CASE e.join = "or" -> IF None \in {b[e.one], b[e.other]} THEN None
                        ELSE Weaker(op, b[e.one], b[e.other])
    [] e.join = "and" -> IF b[e.one] # None THEN b[e.one] ELSE b[e.other]
    [] OTHER -> IF e.field = f /\ e.op \subseteq op THEN <<e.value>> ELSE None

LEMMA BoundIs ==
    ASSUME NEW op, NEW f
    PROVE  /\ Bound(op, f) \in [Where -> BoundValues]
           /\ \A e \in Where : Bound(op, f)[e] = BoundBody(op, f, Bound(op, f), e)
<1> DEFINE Body(b, e) ==
             IF e = NoExpr THEN None ELSE
             CASE e.join = "or" -> IF None \in {b[e.one], b[e.other]} THEN None
                                   ELSE Weaker(op, b[e.one], b[e.other])
               [] e.join = "and" -> IF b[e.one] # None THEN b[e.one] ELSE b[e.other]
               [] OTHER -> IF e.field = f /\ e.op \subseteq op THEN <<e.value>> ELSE None
           F == [Where -> BoundValues]
           B == [b \in F |-> [e \in Where |-> Body(b, e)]]
           bound == CHOOSE b : b = [e \in Where |-> Body(b, e)]
<1>1. PICK h : HeightOK(h)
  BY Expressions, Zenon DEF HeightOK
<1>2. ASSUME NEW b, NEW e \in Where,
             Joins(e) => b[e.one] \in BoundValues /\ b[e.other] \in BoundValues
      PROVE  Body(b, e) \in BoundValues
  <2>1. None \in BoundValues /\ \A i \in Int : <<i>> \in BoundValues
    BY DEF BoundValues
  <2>2. CASE e = NoExpr
    BY <2>1, <2>2
  <2>3. CASE e # NoExpr /\ e.join = "or"
    BY <1>2, <2>1, <2>3 DEF Joins, Weaker
  <2>4. CASE e # NoExpr /\ e.join = "and"
    BY <1>2, <2>1, <2>4 DEF Joins
  <2>5. CASE e # NoExpr /\ e.join # "and" /\ e.join # "or"
    <3>1. e.value \in Int
      BY <1>1, <2>5 DEF HeightOK, Join, Comparison
    <3> QED BY <2>1, <2>5, <3>1
  <2> QED BY <2>2, <2>3, <2>4, <2>5
<1>3. \A b, c : \A e \in Where :
        (Joins(e) => b[e.one] = c[e.one] /\ b[e.other] = c[e.other]) => Body(b, e) = Body(c, e)
  BY DEF Joins
<1>4. Bound(op, f) = bound
  BY DEF Bound
<1> HIDE DEF Body
<1>5. B \in [F -> F] /\ \A b \in F : \A e \in Where : B[b][e] = Body(b, e)
  <2>1. \A e \in Where : Joins(e) => e.one \in Where /\ e.other \in Where
    BY <1>1 DEF HeightOK, Joins, Join, Comparison
  <2>2. \A b \in F : \A e \in Where : Body(b, e) \in BoundValues
    BY <1>2, <2>1
  <2> QED BY <2>2
<1>6. \A b, c \in F : \A e \in Where :
        (Joins(e) => b[e.one] = c[e.one] /\ b[e.other] = c[e.other]) => B[b][e] = B[c][e]
  BY <1>3, <1>5
<1>7. \A b \in F : B[b] = [e \in Where |-> Body(b, e)]
  OBVIOUS
<1>8. BoundValues # {}
  BY DEF BoundValues
<1> HIDE DEF B
<1>9. PICK b \in F : b = B[b]
  BY <1>1, <1>5, <1>6, <1>8, TableExists
<1>10. b = [e \in Where |-> Body(b, e)]
  BY <1>7, <1>9
<1>11. bound = [e \in Where |-> Body(bound, e)]
  BY <1>10
<1> HIDE DEF bound
<1>12. \A e \in Where : bound[e] = Body(bound, e)
  BY <1>11, Zenon
<1> DEFINE T == {e \in Where : bound[e] \in BoundValues}
<1>13. T = Where
  <2>1. ASSUME NEW e \in Where, Joins(e) => e.one \in T /\ e.other \in T PROVE e \in T
    BY <1>2, <1>12, <2>1
  <2> HIDE DEF T
  <2>2. T \in SUBSET Where
    BY DEF T
  <2> QED BY <1>1, <2>1, <2>2, WhereInduction
<1>14. bound \in [Where -> BoundValues]
  BY <1>11, <1>13
<1> QED BY <1>4, <1>12, <1>14, Zenon DEF Body, BoundBody

LEMMA OneIs ==
    ASSUME NEW i \in Int
    PROVE  <<i>> # None /\ <<i>>[1] = i /\ Len(<<i>>) = 1 /\ <<i>> \in Seq(Int)
<1>1. Len(<<i>>) = 1 /\ Len(None) = 0
  BY DEF None
<1> QED BY <1>1

Ops == {AtLeast, AtMost}

LEMMA SignIs ==
    ASSUME NEW x \in Int, NEW y \in Int
    PROVE  /\ Sign(x, y) \in AtLeast <=> x >= y
           /\ Sign(x, y) \in AtMost <=> x =< y
BY DEF Sign, AtLeast, AtMost

(* A key that matches keeps every bound: the one of an "or" is the weaker of   *)
(* the bounds of both sides, and there is none if one side has none.          *)
LEMMA BoundRight ==
    ASSUME NEW op \in Ops, NEW f \in 1..2, NEW k \in Key, NEW e \in Where,
           Match(k)[e], Bound(op, f)[e] # None
    PROVE  /\ Bound(op, f)[e][1] \in Int /\ Bound(op, f)[e] = <<Bound(op, f)[e][1]>>
           /\ Sign(k[f], Bound(op, f)[e][1]) \in op
<1> DEFINE m == Match(k)
           b == Bound(op, f)
           T == {d \in Where : m[d] /\ b[d] # None => Sign(k[f], b[d][1]) \in op}
<1>1. PICK h : HeightOK(h)
  BY Expressions, Zenon DEF HeightOK
<1>2. k[f] \in Int
  <2>1. k[1] \in Int /\ k[2] \in Int /\ (f = 1 \/ f = 2)
    BY KeysAreBounds
  <2> QED BY <2>1
<1>3. \A d \in Where : b[d] = BoundBody(op, f, b, d) /\ b[d] \in BoundValues
  BY BoundIs
<1>4. \A d \in Where : b[d] # None => b[d][1] \in Int /\ b[d] = <<b[d][1]>>
  BY <1>3 DEF BoundValues
<1>5. \A d \in Where : m[d] <=>
        \/ d = NoExpr
        \/ d.join = "or" /\ (m[d.one] \/ m[d.other])
        \/ d.join = "and" /\ m[d.one] /\ m[d.other]
        \/ d.join = "cmp" /\ Sign(k[d.field], d.value) \in d.op
  BY MatchIs
<1> HIDE DEF m, b
<1>6. ASSUME NEW d \in Where, Joins(d) => d.one \in T /\ d.other \in T, m[d], b[d] # None
      PROVE  Sign(k[f], b[d][1]) \in op
  <2>1. d # NoExpr
    BY <1>3, <1>6 DEF BoundBody
  <2>2. CASE d.join = "or"
    <3>1. b[d] = IF None \in {b[d.one], b[d.other]} THEN None ELSE Weaker(op, b[d.one], b[d.other])
      BY <1>3, <2>1, <2>2 DEF BoundBody
    <3>2. b[d.one] # None /\ b[d.other] # None /\ b[d] = Weaker(op, b[d.one], b[d.other])
      BY <1>6, <3>1
    <3>3. d.one \in T /\ d.other \in T /\ d.one \in Where /\ d.other \in Where
      BY <1>6, <2>1, <2>2 DEF Joins
    <3>4. Sign(k[f], b[d.one][1]) \in op \/ Sign(k[f], b[d.other][1]) \in op
      BY <1>5, <1>6, <2>1, <2>2, <3>2, <3>3
    <3>5. b[d.one][1] \in Int /\ b[d.other][1] \in Int
      BY <1>4, <3>2, <3>3
    <3>6. CASE op = AtLeast
      BY <1>2, <3>2, <3>4, <3>5, <3>6, SignIs DEF Weaker
    <3>7. CASE op = AtMost
      <4>1. op # AtLeast
        BY <3>7 DEF AtLeast, AtMost
      <4> QED BY <1>2, <3>2, <3>4, <3>5, <3>7, <4>1, SignIs DEF Weaker
    <3> QED BY <3>6, <3>7 DEF Ops
  <2>3. CASE d.join = "and"
    <3>1. b[d] = IF b[d.one] # None THEN b[d.one] ELSE b[d.other]
      BY <1>3, <2>1, <2>3 DEF BoundBody
    <3>2. d.one \in T /\ d.other \in T /\ d.one \in Where /\ d.other \in Where
      BY <1>6, <2>1, <2>3 DEF Joins
    <3>3. m[d.one] /\ m[d.other]
      BY <1>5, <1>6, <2>1, <2>3
    <3> QED BY <1>6, <3>1, <3>2, <3>3
  <2>4. CASE d.join # "and" /\ d.join # "or"
    <3>1. Comparison(d)
      BY <1>1, <2>1, <2>4 DEF HeightOK, Join
    <3>2. b[d] = IF d.field = f /\ d.op \subseteq op THEN <<d.value>> ELSE None
      BY <1>3, <2>1, <2>4 DEF BoundBody
    <3>3. d.field = f /\ d.op \subseteq op /\ b[d][1] = d.value
      BY <1>6, <3>2
    <3>4. Sign(k[d.field], d.value) \in d.op
      BY <1>5, <1>6, <2>1, <2>4
    <3> QED BY <3>3, <3>4
  <2> QED BY <2>2, <2>3, <2>4
<1>7. T = Where
  <2>1. ASSUME NEW d \in Where, Joins(d) => d.one \in T /\ d.other \in T PROVE d \in T
    BY <1>6, <2>1
  <2> HIDE DEF T
  <2>2. T \in SUBSET Where
    BY DEF T
  <2> QED BY <1>1, <2>1, <2>2, WhereInduction
<1> QED BY <1>4, <1>7 DEF m, b

(* _beyond() is right: from an entry past a bound no key matches.             *)
LEMMA BeyondRight ==
    ASSUME NEW e \in Where, NEW k \in Key, NEW x \in Key, Match(k)[e], NEW op \in Ops,
           Beyond(e, op, x),
           op = AtMost => x = k \/ Before(x, k),
           op = AtLeast => x = k \/ Before(k, x)
    PROVE  FALSE
<1>1. PICK f \in 1..2 : /\ Bound(op, f)[e] # None
                        /\ Sign(x[f], Bound(op, f)[e][1]) \notin op
                        /\ \A g \in 1..(f - 1) : Bound(op, g)[e] = <<x[g]>>
  BY DEF Beyond
<1>2. /\ Len(x) = 2 /\ x[1] \in Int /\ x[2] \in Int /\ x \in Bounds
      /\ Len(k) = 2 /\ k[1] \in Int /\ k[2] \in Int /\ k \in Bounds
  BY KeysAreBounds
<1>3. /\ op = AtMost => x[1] < k[1] \/ (x[1] = k[1] /\ x[2] =< k[2])
      /\ op = AtLeast => k[1] < x[1] \/ (x[1] = k[1] /\ k[2] =< x[2])
  BY <1>2, BeforeIff
<1>4. Bound(op, f)[e][1] \in Int /\ Sign(k[f], Bound(op, f)[e][1]) \in op
  BY <1>1, BoundRight
<1>5. CASE f = 1
  <2>1. CASE op = AtMost
    BY <1>1, <1>2, <1>3, <1>4, <1>5, <2>1, SignIs
  <2>2. CASE op = AtLeast
    BY <1>1, <1>2, <1>3, <1>4, <1>5, <2>2, SignIs
  <2> QED BY <2>1, <2>2 DEF Ops
<1>6. CASE f = 2
  <2>1. 1 \in 1..(f - 1) /\ 1 \in 1..2
    BY <1>6
  <2>2. Bound(op, 1)[e] = <<x[1]>> /\ Bound(op, 1)[e] # None /\ Bound(op, 1)[e][1] = x[1]
    BY <1>1, <1>2, <2>1, OneIs
  <2>3. Sign(k[1], x[1]) \in op
    BY <2>1, <2>2, BoundRight
  <2>4. CASE op = AtMost
    BY <1>1, <1>2, <1>3, <1>4, <1>6, <2>3, <2>4, SignIs
  <2>5. CASE op = AtLeast
    BY <1>1, <1>2, <1>3, <1>4, <1>6, <2>3, <2>5, SignIs
  <2> QED BY <2>4, <2>5 DEF Ops
<1>7. f = 1 \/ f = 2
  OBVIOUS
<1> QED BY <1>5, <1>6, <1>7

(* xkey() is right: a scan that begins at the key it makes passes over no key   *)
(* that matches.                                                             *)
LEMMA XkeyRight ==
    ASSUME NEW e \in Where, NEW op \in Ops
    PROVE  /\ Xkey(e, op) \in Bounds /\ Xkey(e, op) # Garbage
           /\ \A k \in Key : Match(k)[e] =>
                /\ op = AtLeast => ~Passes(k, Xkey(e, op), 1)
                /\ op = AtMost => Passes(k, Xkey(e, op), 2)
<1> DEFINE x == Xkey(e, op)
           b1 == Bound(op, 1)[e]
           b2 == Bound(op, 2)[e]
<1>1. b1 \in BoundValues /\ b2 \in BoundValues
  BY BoundIs
<1>2. \/ x = None
      \/ b1 # None /\ b2 = None /\ Len(x) = 1 /\ x[1] = b1[1] /\ x \in Bounds
      \/ b1 # None /\ b2 # None /\ Len(x) = 2 /\ x[1] = b1[1] /\ x[2] = b2[1] /\ x \in Bounds
  <2>1. CASE b1 = None
    BY <2>1 DEF Xkey
  <2>2. CASE b1 # None
    <3>1. PICK i \in Int : b1 = <<i>>
      BY <1>1, <2>2 DEF BoundValues
    <3>2. x = b1 \o b2
      BY <2>2 DEF Xkey
    <3>3. CASE b2 = None
      <4>1. x = <<i>>
        BY <3>1, <3>2, <3>3, OneIs, ConcatEmptySeq DEF None
      <4> QED BY <2>2, <3>1, <3>3, <4>1, OneIs DEF Bounds
    <3>4. CASE b2 # None
      <4>1. PICK j \in Int : b2 = <<j>>
        BY <1>1, <3>4 DEF BoundValues
      <4>2. x \in Seq(Int) /\ Len(x) = 2 /\ x[1] = i /\ x[2] = j
        <5>1. /\ x \in Seq(Int) /\ Len(x) = 1 + 1
              /\ \A n \in 1..(1 + 1) : x[n] = IF n =< 1 THEN <<i>>[n] ELSE <<j>>[n - 1]
          <6>1. x = <<i>> \o <<j>>
            BY <3>1, <3>2, <4>1
          <6> HIDE DEF x
          <6> QED BY <6>1, OneIs, ConcatProperties
        <5> QED BY <5>1, OneIs
      <4>3. x \in Bounds
        <5> HIDE DEF x
        <5>1. 2 =< 2
          OBVIOUS
        <5>2. x \in Seq(Int) /\ Len(x) =< 2
          BY <4>2, <5>1
        <5> QED BY <5>2 DEF Bounds
      <4> QED BY <2>2, <3>1, <3>4, <4>1, <4>2, <4>3, OneIs
    <3> QED BY <3>3, <3>4
  <2> QED BY <2>1, <2>2
<1>3. x \in Bounds /\ x # Garbage
  <2>1. x \in Bounds
    BY <1>2, KeysAreBounds
  <2>2. Len(Garbage) = 3
    BY DEF Garbage
  <2>3. ASSUME x = Garbage PROVE FALSE
    <3> HIDE DEF x
    <3>1. Len(x) \in {0, 1, 2}
      BY <2>1, BoundType
    <3>2. Len(x) = 3
      BY <2>2, <2>3
    <3> QED BY <3>1, <3>2
  <2> QED BY <2>1, <2>3
<1>4. ASSUME NEW k \in Key, Match(k)[e]
      PROVE  /\ op = AtLeast => ~Passes(k, x, 1)
             /\ op = AtMost => Passes(k, x, 2)
  <2>1. Len(k) = 2 /\ k[1] \in Int /\ k[2] \in Int /\ k \in Bounds
    BY KeysAreBounds
  <2>2. /\ b1 # None => b1[1] \in Int /\ Sign(k[1], b1[1]) \in op
        /\ b2 # None => b2[1] \in Int /\ Sign(k[2], b2[1]) \in op
    <3>1. 1 \in 1..2 /\ 2 \in 1..2
      OBVIOUS
    <3> QED BY <1>4, <3>1, BoundRight
  <2> HIDE DEF x, b1, b2
  <2>3. CASE op = AtLeast
    <3>1. ~Before(k, x)
      <4>1. x # None => k[1] >= x[1] /\ (Len(x) = 2 => k[2] >= x[2]) /\ Len(x) > 0
        BY <1>2, <2>1, <2>2, <2>3, SignIs
      <4>2. x = None => Len(x) = 0
        BY DEF None
      <4>3. Len(x) > 0 => x[1] \in Int /\ (Len(x) > 1 => x[2] \in Int)
        BY <1>3, BoundType
      <4> QED BY <1>3, <2>1, <4>1, <4>2, <4>3, BeforeIff, BoundType
    <3>2. AtLeast # AtMost
      BY DEF AtLeast, AtMost
    <3> QED BY <2>3, <3>1, <3>2 DEF Passes
  <2>4. CASE op = AtMost
    <3>1. Before(k, x) \/ IsPrefix(x, k)
      <4>1. x # None => k[1] =< x[1] /\ (Len(x) = 2 => k[2] =< x[2]) /\ (Len(x) = 1 \/ Len(x) = 2)
        BY <1>2, <2>1, <2>2, <2>4, SignIs
      <4>2. x = None => Len(x) = 0
        BY DEF None
      <4>3. Len(x) > 0 => x[1] \in Int /\ (Len(x) > 1 => x[2] \in Int)
        BY <1>3, BoundType
      <4> QED BY <1>3, <2>1, <4>1, <4>2, <4>3, BeforeIff, PrefixIff
    <3>2. AtLeast # AtMost
      BY DEF AtLeast, AtMost
    <3> QED BY <2>4, <3>1, <3>2 DEF Passes
  <2> QED BY <2>3, <2>4 DEF Ops
<1> QED BY <1>3, <1>4

-----------------------------------------------------------------------------
(* The cursor, for both directions alike. *)

(* k is on the side of a key that a search for it in direction d comes to.    *)
ReachAt(d, key, mode, k) == IF d = "next" THEN ~Passes(k, key, mode) ELSE Passes(k, key, mode)

LEMMA FreshLost ==
    Fresh \notin Key /\ Lost \notin Key /\ Fresh # Lost
<1>1. Len(Fresh) = 1 /\ Len(Lost) = 2 /\ Lost[1] = 0
  BY DEF Fresh, Lost
<1>2. \A k \in Key : Len(k) = 2 /\ k[1] # 0
  BY KeysAreBounds DEF Short
<1> QED BY <1>1, <1>2

LEMMA PastOrder ==
    ASSUME NEW d \in Dirs, NEW x \in Key, NEW y \in Key
    PROVE  /\ ~Past(d, x, x)
           /\ x = y \/ Past(d, x, y) \/ Past(d, y, x)
           /\ \A p \in Key \cup {Fresh, Lost} : Past(d, x, y) /\ Past(d, y, p) => Past(d, x, p)
<1>1. x \in Bounds /\ y \in Bounds /\ Len(x) = 2 /\ Len(y) = 2
  BY KeysAreBounds
<1>2. Fresh \notin Key /\ Lost \notin Key /\ Fresh # Lost
  BY FreshLost
<1>3. \A p \in Key : p # Fresh /\ p # Lost /\ p \in Bounds
  BY <1>2, KeysAreBounds
<1>4. \A p \in Key : \A k : Past(d, k, p) <=> IF d = "next" THEN Before(p, k) ELSE Before(k, p)
  BY <1>3 DEF Past
<1>5. \A k : Past(d, k, Fresh) /\ ~Past(d, k, Lost)
  <2>1. ASSUME NEW k PROVE Past(d, k, Fresh)
    BY DEF Past
  <2>2. ASSUME NEW k PROVE ~Past(d, k, Lost)
    BY <1>2 DEF Past
  <2> QED BY <2>1, <2>2
<1>6. ASSUME NEW p \in Key, Past(d, x, y), Past(d, y, p) PROVE Past(d, x, p)
  BY <1>1, <1>3, <1>4, <1>6, Linear
<1> QED BY <1>1, <1>4, <1>5, <1>6, Linear

(* A search that comes to k comes to what is past k. *)
LEMMA ReachUp ==
    ASSUME NEW d \in Dirs, NEW key \in Bounds, NEW mode, NEW x \in Key, NEW k \in Key,
           ReachAt(d, key, mode, x), Past(d, k, x)
    PROVE  ReachAt(d, key, mode, k)
<1>1. x \in Bounds /\ k \in Bounds
  BY KeysAreBounds
<1>2. x # Fresh /\ x # Lost
  BY FreshLost
<1>3. CASE d = "next"
  BY <1>1, <1>2, <1>3, PassesDown DEF ReachAt, Past
<1>4. CASE d = "prev"
  BY <1>1, <1>2, <1>4, PassesDown DEF ReachAt, Past
<1> QED BY <1>3, <1>4 DEF Dirs

(* A cursor that turns goes on behind the record it is at. *)
LEMMA ReachTurned ==
    ASSUME NEW d \in Dirs, NEW p \in Key, NEW k \in Key
    PROVE  ReachAt(d, p, Turned(Other(d)), k) <=> Past(d, k, p)
<1>1. p \in Bounds /\ k \in Bounds /\ Len(p) = 2 /\ Len(k) = 2
  BY KeysAreBounds
<1>2. p # Fresh /\ p # Lost
  BY FreshLost
<1>3. IsPrefix(p, k) <=> p = k
  BY <1>1, PrefixIff, SameIff
<1>4. CASE d = "next"
  <2>1. Turned(Other(d)) = 2
    BY <1>4 DEF Turned, Other
  <2>2. Past(d, k, p) <=> Before(p, k)
    BY <1>2, <1>4 DEF Past
  <2>3. ReachAt(d, p, Turned(Other(d)), k) <=> ~(Before(k, p) \/ p = k)
    BY <1>3, <1>4, <2>1 DEF ReachAt, Passes
  <2> QED BY <1>1, <2>2, <2>3, Linear
<1>5. CASE d = "prev"
  <2>1. Turned(Other(d)) = 1
    BY <1>5 DEF Turned, Other
  <2> QED BY <1>2, <1>5, <2>1 DEF ReachAt, Passes, Past
<1> QED BY <1>4, <1>5 DEF Dirs

(* From a separator between x and k on, k is past x. *)
LEMMA ReachBeyond ==
    ASSUME NEW d \in Dirs, NEW key \in Bounds, NEW x \in Key, NEW k \in Key,
           ~ReachAt(d, key, 1, x), ReachAt(d, key, 1, k)
    PROVE  Past(d, k, x)
<1>1. x \in Bounds /\ k \in Bounds
  BY KeysAreBounds
<1>2. x # Fresh /\ x # Lost
  BY FreshLost
<1>3. CASE d = "next"
  BY <1>1, <1>2, <1>3, Linear DEF ReachAt, Past, Passes
<1>4. CASE d = "prev"
  BY <1>1, <1>2, <1>4, Linear DEF ReachAt, Past, Passes
<1> QED BY <1>3, <1>4 DEF Dirs

(* The leaf _stepfwd() and _stepbak() copy, and the separator they go on from: *)
(* together they have all the tree has on the side searched, and no more.     *)
LEMMA LeafRight ==
    ASSUME NEW d \in Dirs, NEW t, Seps(t) \subseteq Short, t.keys \subseteq Key,
           NEW key \in Bounds, NEW mode \in 1..2, NEW way, way = Descent(t, d, key, mode),
           NEW sep, sep = IF d = "next" THEN way.hi ELSE way.lo, NEW k \in Key
    PROVE  /\ sep \in Short \cup {None}
           /\ k \in LeafKeys(t, way.lo, way.hi) /\ sep # None => ~ReachAt(d, sep, 1, k)
           /\ k \in t.keys /\ ReachAt(d, key, mode, k) =>
                k \in LeafKeys(t, way.lo, way.hi) \/ (sep # None /\ ReachAt(d, sep, 1, k))
           /\ sep # None /\ ReachAt(d, sep, 1, k) => ReachAt(d, key, mode, k)
<1> DEFINE right == d = "next" /\ mode = 1
<1>1. way \in Window /\ Between(key, mode, right, way)
  BY WayBetween DEF Descent
<1>2. way.lo \in Short \cup {None} /\ way.hi \in Short \cup {None}
  BY <1>1 DEF Window
<1>3. way.lo \in Bounds /\ way.hi \in Bounds /\ k \in Bounds /\ None \in Bounds
  BY <1>2, KeysAreBounds
<1>4. \A x \in Bounds : ~Before(x, None)
  <2>1. Len(None) = 0
    BY DEF None
  <2>2. ASSUME NEW x \in Bounds PROVE ~Before(x, None)
    BY <1>3, <2>1, BeforeIff
  <2> QED BY <2>2
<1>5. k \in LeafKeys(t, way.lo, way.hi) <=>
        k \in t.keys /\ ~Before(k, way.lo) /\ (way.hi = None \/ Before(k, way.hi))
  BY DEF LeafKeys, Within
<1>6. sep \in Short \cup {None}
  BY <1>2
<1>7. CASE d = "next"
  <2>1. sep = way.hi
    BY <1>7
  <2>2. \A s : ReachAt(d, s, 1, k) <=> ~Before(k, s)
    BY <1>7 DEF ReachAt, Passes
  <2>3. ReachAt(d, key, mode, k) <=> ~Passes(k, key, mode)
    BY <1>7 DEF ReachAt
  <2>4. ASSUME Before(k, way.lo) PROVE Passes(k, key, mode)
    <3>1. Passes(way.lo, key, mode) \/ (mode = 1 /\ way.lo = key)
      BY <1>1, <1>3, <1>4, <2>4 DEF Between
    <3> QED BY <1>3, <2>4, <3>1, PassesDown DEF Passes
  <2>5. ASSUME way.hi # None, ~Before(k, way.hi) PROVE ~Passes(k, key, mode)
    <3>1. ~Passes(way.hi, key, mode)
      BY <1>1, <2>5 DEF Between
    <3>2. k = way.hi \/ Before(way.hi, k)
      BY <1>3, <2>5, Linear
    <3> QED BY <1>3, <3>1, <3>2, PassesDown
  <2> QED BY <1>5, <1>6, <2>1, <2>2, <2>3, <2>4, <2>5
<1>8. CASE d = "prev"
  <2>1. sep = way.lo /\ ~right
    BY <1>8
  <2>2. \A s : ReachAt(d, s, 1, k) <=> Before(k, s)
    BY <1>8 DEF ReachAt, Passes
  <2>3. ReachAt(d, key, mode, k) <=> Passes(k, key, mode)
    BY <1>8 DEF ReachAt
  <2>4. ASSUME way.lo # None, Before(k, way.lo) PROVE Passes(k, key, mode)
    <3>1. Passes(way.lo, key, mode)
      BY <1>1, <2>1, <2>4 DEF Between
    <3> QED BY <1>3, <2>4, <3>1, PassesDown
  <2>5. ASSUME way.hi # None, ~Before(k, way.hi) PROVE ~Passes(k, key, mode)
    <3>1. ~Passes(way.hi, key, mode)
      BY <1>1, <2>5 DEF Between
    <3>2. k = way.hi \/ Before(way.hi, k)
      BY <1>3, <2>5, Linear
    <3> QED BY <1>3, <3>1, <3>2, PassesDown
  <2>6. Before(k, way.lo) => way.lo # None
    BY <1>3, <1>4
  <2> QED BY <1>5, <1>6, <2>1, <2>2, <2>3, <2>4, <2>5, <2>6
<1> QED BY <1>7, <1>8 DEF Dirs

(* The entry in direction d is the first one there. *)
LEMMA EntryIs ==
    ASSUME NEW d \in Dirs, td.node[d] \in SUBSET Key, td.node[d] # {}
    PROVE  /\ Entry(d) \in td.node[d] /\ Entry(d) \in Key
           /\ \A y \in td.node[d] : y = Entry(d) \/ Past(d, y, Entry(d))
<1>1. td.node[d] \in SUBSET Bounds /\ IsFiniteSet(td.node[d])
  BY KeysAreBounds, FS_Subset
<1>2. \A x \in Key : x # Fresh /\ x # Lost
  BY FreshLost
<1>3. CASE d = "next"
  <2>1. Entry(d) \in td.node[d] /\ \A y \in td.node[d] : y = Entry(d) \/ Before(Entry(d), y)
    BY <1>1, <1>3, LeastIs DEF Entry
  <2> QED BY <1>2, <1>3, <2>1 DEF Past
<1>4. CASE d = "prev"
  <2>1. Entry(d) \in td.node[d] /\ \A y \in td.node[d] : y = Entry(d) \/ Before(y, Entry(d))
    BY <1>1, <1>4, GreatestIs DEF Entry
  <2> QED BY <1>2, <1>4, <2>1 DEF Past
<1> QED BY <1>3, <1>4 DEF Dirs

(* A fresh cursor comes to every key that matches, in either direction. *)
LEMMA FreshReach ==
    ASSUME NEW e \in Where, NEW d \in Dirs
    PROVE  /\ NewTd(e).key[d] \in Bounds /\ NewTd(e).key[d] # Garbage
           /\ NewTd(e).mode[d] \in 1..2
           /\ \A k \in Key : Match(k)[e] => ReachAt(d, NewTd(e).key[d], NewTd(e).mode[d], k)
<1>1. NewTd(e).key[d] = Xkey(e, IF d = "next" THEN AtLeast ELSE AtMost)
  BY DEF NewTd
<1>2. NewTd(e).mode[d] = IF d = "next" THEN 1 ELSE 2
  BY DEF NewTd
<1>3. AtLeast \in Ops /\ AtMost \in Ops
  BY DEF Ops
<1>4. CASE d = "next"
  BY <1>1, <1>2, <1>3, <1>4, XkeyRight DEF ReachAt
<1>5. CASE d = "prev"
  BY <1>1, <1>2, <1>3, <1>5, XkeyRight DEF ReachAt
<1> QED BY <1>4, <1>5 DEF Dirs

(* The trees other programs publish. *)
LEMMA TreesType ==
    ASSUME NEW t \in Trees
    PROVE  /\ t = Empty \/ Parted(t)
           /\ Seps(t) \subseteq Short /\ t.keys \subseteq Key
<1>1. CASE t = Empty
  BY <1>1 DEF Empty, Seps
<1>2. CASE t # Empty
  <2>1. PICK ks \in (SUBSET Key) \ {{}}, f \in Shapes : t = [keys |-> ks, level |-> f]
    BY <1>2 DEF Trees
  <2>2. Parted(t)
    BY <1>2 DEF Trees
  <2>3. PICK S \in SUBSET Short : f \in [S -> 1..MaxLevel]
    BY DEF Shapes
  <2> QED BY <2>1, <2>2, <2>3 DEF Seps
<1> QED BY <1>1, <1>2

(* What is not a key. *)
LEMMA NoKeys ==
    /\ None \notin Key /\ None # Fresh /\ None # Lost
    /\ Garbage \notin Bounds
<1>1. Len(None) = 0 /\ Len(Fresh) = 1 /\ Len(Lost) = 2 /\ Len(Garbage) = 3
  BY DEF None, Fresh, Lost, Garbage
<1>2. \A k \in Key : Len(k) = 2
  BY KeysAreBounds
<1>3. ASSUME NEW x \in Bounds PROVE Len(x) # 3
  <2>1. Len(x) \in {0, 1, 2}
    BY BoundType
  <2> QED BY <2>1
<1> QED BY <1>1, <1>2, <1>3

-----------------------------------------------------------------------------
(* What holds of the cursor between two steps. *)

(* The direction it goes in, and the keys it has still to come to: those of    *)
(* the leaf it holds, and those on the side of its key buffer.                *)
Dir == IF td.back THEN "prev" ELSE "next"
Reach(d, k) == ReachAt(d, td.key[d], td.mode[d], k)
Ahead(d, k) == k \in td.node[d] \/ ((td.loaded => td.key[d] # None) /\ Reach(d, k))

(* A call that runs goes in that direction and has no lock; its other key      *)
(* buffer has been given up; the record it waits for a lock on is the place.  *)
Calls ==
  /\ call.at # "idle" => call.dir = Dir /\ mine = None
  /\ call.at = "step" => td.key[Other(Dir)] = None
  /\ call.at = "lock" => answer = pos /\ pos \in Key

(* Between two calls the other key buffer begins at the place. *)
Place ==
  /\ pos = Fresh /\ call.at # "step" => call = Idle /\ td = NewTd(expr)
  /\ pos \in Key /\ call.at # "step" =>
       td.key[Other(Dir)] = pos /\ td.mode[Other(Dir)] = Turned(Dir)

Buffers == \A d \in Dirs : td.key[d] = Garbage => call.at = "idle" /\ GivesUp(d)

(* The leaf ends before the separator the cursor goes on from. *)
InLeaf ==
  /\ ~td.loaded => \A d \in Dirs : td.node[d] = {}
  /\ td.loaded => /\ td.mode[Dir] = 1
                  /\ td.key[Dir] # None => \A x \in td.node[Dir] : ~Reach(Dir, x)

(* Nothing is ahead but what is past the place; all that matches, was there    *)
(* since the select and is past the place is ahead, and so it is past every   *)
(* entry of the leaf.                                                        *)
Ordered == pos # Lost => \A k \in Key : Ahead(Dir, k) => Past(Dir, k, pos)
Covered == pos # Lost => \A k \in steady : Match(k)[expr] /\ Past(Dir, k, pos) => Ahead(Dir, k)
Dense ==
  \A x \in td.node[Dir], k \in steady : Match(k)[expr] /\ Past(Dir, k, x) => Ahead(Dir, k)

Moves == InLeaf /\ Ordered /\ Covered /\ Dense
Inv == TypeOK /\ Calls /\ Place /\ Buffers /\ Moves /\ GivesRecords

TdType == [loaded : BOOLEAN, node : [Dirs -> SUBSET Key], key : [Dirs -> Bounds \cup {Garbage}],
           mode : [Dirs -> 1..2], ended : BOOLEAN, back : BOOLEAN]

LEMMA Types ==
    ASSUME TypeOK
    PROVE  /\ td \in TdType /\ td.node \in [Dirs -> SUBSET Key]
           /\ td.key \in [Dirs -> Bounds \cup {Garbage}] /\ td.mode \in [Dirs -> 1..2]
           /\ td.loaded \in BOOLEAN /\ td.ended \in BOOLEAN /\ td.back \in BOOLEAN
           /\ td = [loaded |-> td.loaded, node |-> td.node, key |-> td.key,
                    mode |-> td.mode, ended |-> td.ended, back |-> td.back]
           /\ Dir \in Dirs /\ Other(Dir) \in Dirs /\ Other(Dir) # Dir
           /\ \A d \in Dirs : d = Dir \/ d = Other(Dir)
           /\ td.back = (Dir = "prev")
           /\ steady \subseteq Key /\ pos \in Key \cup {Fresh, Lost}
BY DEF TypeOK, TdType, Dir, Dirs, Other

-----------------------------------------------------------------------------
(* What the steps leave of the cursor. *)

LEMMA NewFields ==
    ASSUME NEW e \in Where
    PROVE  /\ NewTd(e) \in TdType
           /\ NewTd(e).loaded = FALSE /\ NewTd(e).ended = FALSE /\ NewTd(e).back = FALSE
           /\ \A d \in Dirs : NewTd(e).node[d] = {} /\ NewTd(e).key[d] # Garbage
<1>1. \A d \in Dirs : NewTd(e).key[d] \in Bounds /\ NewTd(e).key[d] # Garbage
  BY FreshReach
<1>2. NewTd(e).key \in [Dirs -> Bounds \cup {Garbage}]
  <2> DEFINE key == [d \in Dirs |-> Xkey(e, IF d = "next" THEN AtLeast ELSE AtMost)]
  <2>1. NewTd(e).key = key
    BY DEF NewTd
  <2>2. \A d \in Dirs : key[d] \in Bounds
    BY <1>1, <2>1
  <2>3. key = [d \in Dirs |-> key[d]]
    OBVIOUS
  <2> HIDE DEF key
  <2> QED BY <2>1, <2>2, <2>3
<1>3. NewTd(e).node \in [Dirs -> SUBSET Key] /\ \A d \in Dirs : NewTd(e).node[d] = {}
  BY DEF NewTd
<1>4. NewTd(e).mode \in [Dirs -> 1..2]
  BY DEF NewTd
<1>5. NewTd(e).loaded = FALSE /\ NewTd(e).ended = FALSE /\ NewTd(e).back = FALSE
  BY DEF NewTd
<1>6. NewTd(e) = [loaded |-> NewTd(e).loaded, node |-> NewTd(e).node, key |-> NewTd(e).key,
                  mode |-> NewTd(e).mode, ended |-> NewTd(e).ended, back |-> NewTd(e).back]
  BY DEF NewTd
<1>7. NewTd(e) \in TdType
  <2> HIDE DEF NewTd
  <2> QED BY <1>2, <1>3, <1>4, <1>5, <1>6 DEF TdType
<1> QED BY <1>1, <1>3, <1>5, <1>7

LEMMA NothingFields ==
    ASSUME TypeOK, Nothing
    PROVE  /\ td' \in TdType /\ td'.loaded = FALSE /\ td'.ended = TRUE /\ td'.back = td.back
           /\ \A d \in Dirs : /\ td'.node[d] = {}
                              /\ td'.key[d] = IF td.key[d] = None THEN None ELSE Garbage
<1>1. td \in TdType /\ None \in Bounds
  BY Types, KeysAreBounds
<1>2. td' = [Relnode(td) EXCEPT !.ended = TRUE,
               !.key = [d \in Dirs |-> IF @[d] = None THEN None ELSE Garbage]]
  BY DEF Nothing
<1> QED BY <1>1, <1>2 DEF TdType, Relnode

LEMMA BeginFields ==
    ASSUME NEW t \in TdType, NEW d \in Dirs
    PROVE  /\ Begin(t, d) \in TdType
           /\ Begin(t, d).loaded = t.loaded /\ Begin(t, d).node = t.node
           /\ Begin(t, d).key[Other(d)] = None /\ Begin(t, d).key[d] = t.key[d]
           /\ Begin(t, d).mode = t.mode /\ Begin(t, d).ended = t.ended /\ Begin(t, d).back = t.back
<1>1. None \in Bounds /\ Other(d) \in Dirs /\ Other(d) # d
  BY KeysAreBounds DEF Dirs, Other
<1> QED BY <1>1 DEF TdType, Begin

LEMMA TurnFields ==
    ASSUME NEW t \in TdType, NEW b \in BOOLEAN
    PROVE  LET u == [Relnode(t) EXCEPT !.back = b]
           IN  /\ u \in TdType /\ u.loaded = FALSE /\ \A d \in Dirs : u.node[d] = {}
               /\ u.key = t.key /\ u.mode = t.mode /\ u.ended = t.ended /\ u.back = b
BY DEF TdType, Relnode

LEMMA SteppedFields ==
    ASSUME TypeOK, NEW d \in Dirs, Entry(d) \in Key
    PROVE  /\ Stepped(d) \in TdType /\ Stepped(d).loaded = td.loaded
           /\ Stepped(d).node[d] = td.node[d] \ {Entry(d)}
           /\ Stepped(d).key = td.key /\ Stepped(d).mode = td.mode
           /\ Stepped(d).ended = td.ended /\ Stepped(d).back = td.back
<1>1. td \in TdType /\ Other(d) \in Dirs /\ Other(d) # d
  BY Types DEF Dirs, Other
<1> DEFINE x == Entry(d)
           s == [td EXCEPT !.node[d] = @ \ {x}]
           u == [s EXCEPT !.node[Other(d)] = @ \cup {x}]
<1>2. Stepped(d) = u /\ x \in Key
  BY DEF Stepped
<1> HIDE DEF x
<1>3. /\ s \in TdType /\ s.loaded = td.loaded /\ s.node[d] = td.node[d] \ {x}
      /\ s.key = td.key /\ s.mode = td.mode /\ s.ended = td.ended /\ s.back = td.back
  BY <1>1 DEF TdType
<1> HIDE DEF s
<1>4. /\ u \in TdType /\ u.loaded = s.loaded /\ u.node[d] = s.node[d]
      /\ u.key = s.key /\ u.mode = s.mode /\ u.ended = s.ended /\ u.back = s.back
  BY <1>1, <1>2, <1>3 DEF TdType
<1> HIDE DEF u
<1> QED BY <1>2, <1>3, <1>4 DEF x

(* The other key buffer begins at the record taken. *)
Behind(t, d, x) == [t EXCEPT !.key[Other(d)] = x, !.mode[Other(d)] = Turned(d)]

LEMMA TakeFields ==
    ASSUME NEW t \in TdType, NEW d \in Dirs, NEW x \in Key
    PROVE  /\ Behind(t, d, x) \in TdType
           /\ Behind(t, d, x).loaded = t.loaded /\ Behind(t, d, x).node = t.node
           /\ Behind(t, d, x).key[d] = t.key[d] /\ Behind(t, d, x).mode[d] = t.mode[d]
           /\ Behind(t, d, x).key[Other(d)] = x
           /\ Behind(t, d, x).mode[Other(d)] = Turned(d)
           /\ Behind(t, d, x).ended = t.ended /\ Behind(t, d, x).back = t.back
<1>1. Other(d) \in Dirs /\ Other(d) # d /\ x \in Bounds
  BY KeysAreBounds DEF Dirs, Other
<1>2. Turned(d) \in 1..2
  BY DEF Turned
<1> QED BY <1>1, <1>2 DEF TdType, Behind

LEMMA LoadFields ==
    ASSUME TypeOK, Load, call.dir \in Dirs
    PROVE  \E way, sep : LET d == call.dir
                             leaf == LeafKeys(tree, way.lo, way.hi)
           IN  /\ way = Descent(tree, d, td.key[d], td.mode[d])
               /\ sep = IF d = "next" THEN way.hi ELSE way.lo
               /\ td'.loaded = TRUE /\ td'.ended = td.ended /\ td'.back = td.back
               /\ td'.node[d] = {k \in leaf : ReachAt(d, td.key[d], td.mode[d], k)}
               /\ td'.node[Other(d)] \subseteq leaf
               /\ td'.key[d] = sep /\ td'.key[Other(d)] = td.key[Other(d)]
               /\ td'.mode[d] = 1 /\ td'.mode[Other(d)] = td.mode[Other(d)]
               /\ sep \in Bounds => td' \in TdType
<1> DEFINE d == call.dir
           way == Descent(tree, d, td.key[d], td.mode[d])
           leaf == LeafKeys(tree, way.lo, way.hi)
           passed == {k \in leaf : Passes(k, td.key[d], td.mode[d])}
           sep == IF d = "next" THEN way.hi ELSE way.lo
           node == [prev |-> passed, next |-> leaf \ passed]
<1>1. td' = [td EXCEPT !.loaded = TRUE, !.node = node, !.key[d] = sep, !.mode[d] = 1]
  BY DEF Load
<1>2. td \in TdType /\ Other(d) \in Dirs /\ Other(d) # d
  BY Types DEF Dirs, Other
<1>3. leaf \in SUBSET Key
  BY DEF LeafKeys, TypeOK
<1>4. /\ node \in [Dirs -> SUBSET Key]
      /\ node[d] = {k \in leaf : ReachAt(d, td.key[d], td.mode[d], k)}
      /\ node[Other(d)] \subseteq leaf
  <2>1. node["prev"] = passed /\ node["next"] = leaf \ passed /\ node \in [Dirs -> SUBSET Key]
    BY <1>3 DEF Dirs
  <2>2. d = "next" \/ d = "prev"
    BY DEF Dirs
  <2>3. passed \subseteq leaf /\ leaf \ passed \subseteq leaf
    OBVIOUS
  <2>4. CASE d = "next"
    <3>1. leaf \ passed = {k \in leaf : ~Passes(k, td.key[d], td.mode[d])}
      OBVIOUS
    <3>2. {k \in leaf : ReachAt(d, td.key[d], td.mode[d], k)} = {k \in leaf : ~Passes(k, td.key[d], td.mode[d])}
      BY <2>4 DEF ReachAt
    <3>3. Other(d) = "prev"
      BY <2>4 DEF Other
    <3> HIDE DEF node, leaf, passed, d
    <3> QED BY <2>1, <2>3, <2>4, <3>1, <3>2, <3>3
  <2>5. CASE d = "prev"
    <3>1. passed = {k \in leaf : Passes(k, td.key[d], td.mode[d])}
      OBVIOUS
    <3>2. {k \in leaf : ReachAt(d, td.key[d], td.mode[d], k)} = {k \in leaf : Passes(k, td.key[d], td.mode[d])}
      BY <2>5 DEF ReachAt
    <3>3. Other(d) = "next"
      BY <2>5 DEF Other
    <3> HIDE DEF node, leaf, passed, d
    <3> QED BY <2>1, <2>3, <2>5, <3>1, <3>2, <3>3
  <2> QED BY <2>2, <2>4, <2>5
<1>5. d \in Dirs
  OBVIOUS
<1> HIDE DEF node, sep, d
<1>6. /\ td'.loaded = TRUE /\ td'.ended = td.ended /\ td'.back = td.back
      /\ td'.node = node
      /\ td'.key[d] = sep /\ td'.key[Other(d)] = td.key[Other(d)]
      /\ td'.mode[d] = 1 /\ td'.mode[Other(d)] = td.mode[Other(d)]
      /\ sep \in Bounds => td' \in TdType
  <2>1. node \in [Dirs -> SUBSET Key]
    BY <1>4
  <2>2. td' = [loaded |-> TRUE, node |-> node, key |-> [td.key EXCEPT ![d] = sep],
               mode |-> [td.mode EXCEPT ![d] = 1], ended |-> td.ended, back |-> td.back]
    BY <1>1, Types
  <2> DEFINE key == [td.key EXCEPT ![d] = sep]
             mode == [td.mode EXCEPT ![d] = 1]
  <2>3. /\ key[d] = sep /\ key[Other(d)] = td.key[Other(d)]
        /\ sep \in Bounds => key \in [Dirs -> Bounds \cup {Garbage}]
    BY <1>2, <1>5, Types
  <2>4. /\ mode[d] = 1 /\ mode[Other(d)] = td.mode[Other(d)]
        /\ mode \in [Dirs -> 1..2]
    BY <1>2, <1>5, Types
  <2>5. td.ended \in BOOLEAN /\ td.back \in BOOLEAN
    BY Types
  <2> HIDE DEF key, mode
  <2> QED BY <2>1, <2>2, <2>3, <2>4, <2>5 DEF TdType, key, mode
<1> HIDE DEF way, leaf
<1>7. leaf = LeafKeys(tree, way.lo, way.hi) /\ way = Descent(tree, d, td.key[d], td.mode[d])
      /\ sep = (IF d = "next" THEN way.hi ELSE way.lo) /\ d = call.dir
  BY DEF leaf, way, sep, d
<1> QED BY <1>4, <1>6, <1>7

-----------------------------------------------------------------------------
(* Every step keeps it. *)

LEMMA TypeStep ==
    ASSUME TypeOK, td' \in TdType, tree' = tree, expr' = expr, left' = left, steady' = steady,
           answer' \in Key \cup {None}, mine' \in Key \cup {None}, pos' \in Key \cup {Fresh, Lost},
           call' \in [dir : Dirs, lock : {"no", "lock", "lockr"}, at : {"idle", "step", "lock"}]
    PROVE  TypeOK'
BY DEF TypeOK, TdType

(* A step that leaves the direction the cursor goes in alone. *)
LEMMA SameWay ==
    ASSUME TypeOK, Moves, Dir' = Dir, td'.loaded = td.loaded,
           \A d \in Dirs : td'.node[d] = td.node[d],
           td'.key[Dir] = td.key[Dir], td'.mode[Dir] = td.mode[Dir],
           pos' = pos, expr' = expr, steady' \subseteq steady
    PROVE  Moves'
<1>1. Dir \in Dirs
  BY Types
<1>2. \A k : Ahead(Dir, k)' <=> Ahead(Dir, k)
  BY <1>1 DEF Ahead, Reach
<1>3. \A k : Reach(Dir, k)' <=> Reach(Dir, k)
  BY DEF Reach
<1>4. InLeaf'
  BY <1>1, <1>3 DEF Moves, InLeaf
<1>5. Ordered'
  BY <1>2 DEF Moves, Ordered
<1>6. Covered'
  BY <1>2 DEF Moves, Covered
<1>7. Dense'
  BY <1>1, <1>2 DEF Moves, Dense
<1> QED BY <1>4, <1>5, <1>6, <1>7 DEF Moves

LEMMA InitKeeps ==
    ASSUME Init PROVE Inv
<1>1. /\ td = NewTd(expr) /\ expr \in Where /\ call = Idle /\ answer = None /\ mine = None
      /\ pos = Fresh /\ steady = tree.keys /\ tree \in Trees /\ left = Updates
  BY DEF Init
<1>2. /\ td \in TdType /\ td.loaded = FALSE
      /\ \A d \in Dirs : td.node[d] = {} /\ td.key[d] # Garbage
  BY <1>1, NewFields
<1>3. TypeOK
  BY <1>1, <1>2, TreesType, Constants DEF TypeOK, TdType, Idle, Dirs
<1>4. Dir \in Dirs /\ steady \subseteq Key
  BY <1>3, Types
<1>5. \A k \in Key : Match(k)[expr] => Reach(Dir, k)
  BY <1>1, <1>4, FreshReach DEF Reach
<1>6. InLeaf /\ Ordered /\ Covered /\ Dense
  BY <1>1, <1>2, <1>4, <1>5 DEF InLeaf, Ordered, Covered, Dense, Ahead, Past
<1>7. Calls /\ Place /\ Buffers
  BY <1>1, <1>2, FreshLost DEF Calls, Place, Buffers, Idle
<1>8. GivesRecords
  BY <1>1, NoKeys DEF GivesRecords
<1> QED BY <1>3, <1>6, <1>7, <1>8 DEF Inv, Moves

LEMMA UpdateKeeps ==
    ASSUME Inv, NEW k \in Key, Update(k) PROVE Inv'
<1>1. /\ k # mine /\ steady' = steady \cap tree'.keys /\ left' = left - 1 /\ left > 0
      /\ UNCHANGED <<td, expr, call, answer, mine, pos>>
  BY DEF Update
<1>2. PICK ks \in {tree.keys \cup {k}, tree.keys \ {k}} : tree' \in TreesOf(ks)
  BY DEF Update
<1>3. tree' \in Trees /\ tree'.keys = ks
  BY <1>2 DEF TreesOf
<1>4. TypeOK'
  <2>1. tree' = Empty \/ Parted(tree')
    BY <1>3, TreesType
  <2>2. Seps(tree') \subseteq Short /\ tree'.keys \subseteq Key
    BY <1>3, TreesType
  <2>3. left' \in 0..Updates
    BY <1>1, Constants DEF Inv, TypeOK
  <2>4. /\ td' \in TdType /\ expr' \in Where /\ answer' \in Key \cup {None}
        /\ mine' \in Key \cup {None} /\ pos' \in Key \cup {Fresh, Lost}
        /\ call' \in [dir : Dirs, lock : {"no", "lock", "lockr"}, at : {"idle", "step", "lock"}]
    BY <1>1 DEF Inv, TypeOK, TdType
  <2> QED BY <1>1, <2>1, <2>2, <2>3, <2>4 DEF TypeOK, TdType
<1>5. Dir' = Dir
  BY <1>1 DEF Dir
<1>6. Moves'
  BY <1>1, <1>5, SameWay DEF Inv
<1>7. Calls' /\ Place' /\ Buffers'
  BY <1>1, <1>5 DEF Inv, Calls, Place, Buffers, GivesUp
<1>8. GivesRecords'
  BY <1>1, <1>2, <1>3 DEF Inv, GivesRecords
<1> QED BY <1>4, <1>6, <1>7, <1>8 DEF Inv

LEMMA CdbrestrictKeeps ==
    ASSUME Inv, Cdbrestrict PROVE Inv'
<1>1. /\ expr' \in Where /\ td' = NewTd(expr') /\ pos' = Fresh /\ steady' = tree.keys
      /\ call = Idle /\ UNCHANGED <<tree, call, answer, mine, left>>
  BY DEF Cdbrestrict
<1>2. /\ td' \in TdType /\ td'.loaded = FALSE
      /\ \A d \in Dirs : td'.node[d] = {} /\ td'.key[d] # Garbage
  BY <1>1, NewFields
<1>3. TypeOK'
  BY <1>1, <1>2 DEF Inv, TypeOK, TdType
<1>4. Dir' \in Dirs /\ steady' \subseteq Key
  BY <1>1 DEF Inv, TypeOK, Dir, Dirs
<1>5. \A k \in Key : Match(k)[expr'] => Reach(Dir, k)'
  BY <1>1, <1>4, FreshReach DEF Reach
<1>6. InLeaf' /\ Ordered' /\ Covered' /\ Dense'
  BY <1>1, <1>2, <1>4, <1>5 DEF InLeaf, Ordered, Covered, Dense, Ahead, Past
<1>7. Calls' /\ Place' /\ Buffers'
  BY <1>1, <1>2, FreshLost DEF Calls, Place, Buffers, Idle
<1>8. GivesRecords'
  BY <1>1, NoKeys, FreshLost DEF Inv, TypeOK, GivesRecords
<1> QED BY <1>3, <1>6, <1>7, <1>8 DEF Inv, Moves

LEMMA StartKeeps ==
    ASSUME Inv, NEW d \in Dirs, NEW lock \in {"no", "lock", "lockr"}, Start(d, lock) PROVE Inv'
<1>1. /\ call = Idle /\ mine' = None /\ UNCHANGED <<tree, expr, left, pos, steady>>
  BY DEF Start
<1>2. TypeOK /\ td \in TdType /\ Dir \in Dirs /\ Other(Dir) \in Dirs
  BY Types DEF Inv
<1>3. CASE GivesUp(d)
  <2>1. answer' = None /\ UNCHANGED <<td, call>>
    BY <1>3 DEF Start
  <2>2. Dir' = Dir
    BY <2>1 DEF Dir
  <2>3. TypeOK'
    BY <1>1, <1>2, <2>1, TypeStep DEF TypeOK
  <2>4. Moves'
    BY <1>1, <1>2, <2>1, <2>2, SameWay DEF Inv
  <2>5. Calls' /\ Place' /\ Buffers'
    BY <1>1, <2>1, <2>2 DEF Inv, Calls, Place, Buffers, GivesUp, Idle
  <2>6. GivesRecords'
    BY <1>1, <1>2, <2>1, NoKeys DEF TypeOK, GivesRecords
  <2> QED BY <2>3, <2>4, <2>5, <2>6 DEF Inv
<1>4. CASE ~GivesUp(d)
  <2> DEFINE t == IF td.back = (d = "prev") THEN td ELSE [Relnode(td) EXCEPT !.back = (d = "prev")]
  <2>1. td' = Begin(t, d) /\ call' = [dir |-> d, lock |-> lock, at |-> "step"] /\ answer' = answer
    BY <1>4 DEF Start
  <2>2. t \in TdType /\ t.key = td.key /\ t.mode = td.mode /\ t.back = (d = "prev")
    BY <1>2, TurnFields
  <2>3. t.ended = td.ended
    BY <1>2, TurnFields
  <2>4. t = td \/ (t.loaded = FALSE /\ \A e \in Dirs : t.node[e] = {})
    BY <1>2, TurnFields
  <2>5. t = td \/ d # Dir
    <3>1. td.back = (Dir = "prev")
      BY <1>2, Types
    <3> QED BY <3>1
  <2> HIDE DEF t
  <2>6. /\ td' \in TdType /\ td'.loaded = t.loaded /\ td'.node = t.node
        /\ td'.key[Other(d)] = None /\ td'.key[d] = td.key[d] /\ td'.mode = td.mode
        /\ td'.ended = td.ended /\ td'.back = (d = "prev")
    BY <2>1, <2>2, <2>3, BeginFields
  <2>7. Dir' = d
    BY <2>6 DEF Dir, Dirs
  <2>8. call'.at = "step" /\ call'.dir = d
    BY <2>1
  <2>9. td.key[d] # Garbage
    BY <1>4 DEF Inv, Buffers
  <2>10. TypeOK'
    BY <1>1, <1>2, <2>1, <2>6, TypeStep DEF TypeOK
  <2>11. Calls' /\ Place'
    BY <1>1, <2>6, <2>7, <2>8 DEF Calls, Place
  <2>12. Buffers'
    <3>1. \A e \in Dirs : e = d \/ e = Other(d)
      BY DEF Dirs, Other
    <3>2. None # Garbage
      BY NoKeys, KeysAreBounds
    <3> QED BY <2>6, <2>9, <3>1, <3>2 DEF Buffers
  <2>13. GivesRecords'
    BY <1>1, <2>1 DEF Inv, GivesRecords
  <2>14. CASE t = td /\ d = Dir
    <3>1. Moves'
      BY <1>1, <1>2, <2>6, <2>7, <2>14, SameWay DEF Inv
    <3> QED BY <2>10, <2>11, <2>12, <2>13, <3>1 DEF Inv
  <2>15. CASE d # Dir
    <3>1. d = Other(Dir) /\ Dir = Other(d)
      BY <1>2, <2>15 DEF Dirs, Other
    <3>2. td'.loaded = FALSE /\ \A e \in Dirs : td'.node[e] = {}
      <4>1. t.back # td.back
        BY <2>2, <2>15, <1>2 DEF Dir, Dirs, TdType
      <4> QED BY <2>4, <2>6, <4>1
    <3>3. \A k : Ahead(Dir, k)' <=> ReachAt(d, td.key[d], td.mode[d], k)
      BY <2>6, <2>7, <3>2 DEF Ahead, Reach
    <3>4. InLeaf' /\ Dense'
      BY <2>7, <3>2 DEF InLeaf, Dense
    <3>5. pos' = pos /\ expr' = expr /\ steady' = steady /\ steady \subseteq Key
      BY <1>1, <1>2, Types
    <3>6. CASE pos \in Key
      <4>1. td.key[d] = pos /\ td.mode[d] = Turned(Other(d))
        BY <1>1, <3>1, <3>6 DEF Inv, Place, Idle
      <4>2. \A k \in Key : Ahead(Dir, k)' <=> Past(d, k, pos)
        BY <3>3, <3>6, <4>1, ReachTurned
      <4>3. Ordered' /\ Covered'
        BY <2>7, <3>5, <4>2 DEF Ordered, Covered
      <4> QED BY <2>10, <2>11, <2>12, <2>13, <3>4, <4>3 DEF Inv, Moves
    <3>7. CASE pos = Fresh
      <4>1. td = NewTd(expr)
        BY <1>1, <3>7 DEF Inv, Place, Idle
      <4>2. \A k \in Key : Match(k)[expr] => Ahead(Dir, k)'
        BY <1>2, <3>3, <4>1, FreshReach DEF TypeOK
      <4>3. Ordered' /\ Covered'
        BY <3>5, <3>7, <4>2 DEF Ordered, Covered, Past
      <4> QED BY <2>10, <2>11, <2>12, <2>13, <3>4, <4>3 DEF Inv, Moves
    <3>8. CASE pos = Lost
      <4>1. Ordered' /\ Covered'
        BY <3>5, <3>8 DEF Ordered, Covered
      <4> QED BY <2>10, <2>11, <2>12, <2>13, <3>4, <4>1 DEF Inv, Moves
    <3> QED BY <1>2, <3>6, <3>7, <3>8 DEF TypeOK
  <2> QED BY <2>5, <2>14, <2>15
<1> QED BY <1>3, <1>4

LEMMA NothingKeeps ==
    ASSUME Inv, Nothing, call.at = "step" PROVE Inv'
<1>1. /\ call' = Idle /\ answer' = None /\ pos' = Lost
      /\ UNCHANGED <<tree, expr, mine, left, steady>>
  BY DEF Nothing
<1>2. TypeOK /\ td \in TdType /\ Dir \in Dirs /\ \A d \in Dirs : d = Dir \/ d = Other(Dir)
  BY Types DEF Inv
<1>3. /\ td' \in TdType /\ td'.loaded = FALSE /\ td'.ended = TRUE /\ td'.back = td.back
      /\ \A d \in Dirs : /\ td'.node[d] = {}
                         /\ td'.key[d] = IF td.key[d] = None THEN None ELSE Garbage
  BY <1>2, NothingFields
<1>4. Dir' = Dir
  BY <1>3 DEF Dir
<1>5. TypeOK'
  <2>1. Idle \in [dir : Dirs, lock : {"no", "lock", "lockr"}, at : {"idle", "step", "lock"}]
    BY DEF Idle, Dirs
  <2> QED BY <1>1, <1>2, <1>3, <2>1, TypeStep DEF TypeOK
<1>6. Moves'
  BY <1>1, <1>2, <1>3, <1>4 DEF Moves, InLeaf, Ordered, Covered, Dense
<1>7. Calls' /\ Place'
  BY <1>1, FreshLost DEF Calls, Place, Idle
<1>8. Buffers'
  <2>1. td.key[Other(Dir)] = None /\ td.back = (Dir = "prev")
    BY <1>2, Types DEF Inv, Calls
  <2>2. \A d \in Dirs : td'.key[d] = Garbage => d = Dir
    <3>1. None # Garbage
      BY NoKeys, KeysAreBounds
    <3> QED BY <1>2, <1>3, <2>1, <3>1
  <2>3. call'.at = "idle"
    BY <1>1 DEF Idle
  <2> QED BY <1>3, <2>1, <2>2, <2>3 DEF Buffers, GivesUp
<1>9. GivesRecords'
  BY <1>1, NoKeys DEF Inv, GivesRecords, Calls, TypeOK
<1> QED BY <1>5, <1>6, <1>7, <1>8, <1>9 DEF Inv

LEMMA LoadKeeps ==
    ASSUME Inv, Load PROVE Inv'
<1> DEFINE d == Dir
           key == td.key[d]
           mode == td.mode[d]
<1>1. /\ call.at = "step" /\ call.dir = d /\ td.node[d] = {} /\ (td.loaded => key # None)
      /\ UNCHANGED <<tree, expr, call, answer, mine, left, pos, steady>>
  BY DEF Load, HasEntry, Inv, Calls
<1>2. TypeOK /\ td \in TdType /\ d \in Dirs /\ Other(d) \in Dirs /\ d # Other(d)
      /\ (\A e \in Dirs : e = d \/ e = Other(d)) /\ key \in Bounds \cup {Garbage}
      /\ mode \in 1..2 /\ steady \subseteq Key
  BY Types DEF Inv
<1>3. key \in Bounds
  BY <1>1, <1>2 DEF Inv, Buffers
<1>4. PICK way, sep : LET leaf == LeafKeys(tree, way.lo, way.hi)
        IN  /\ way = Descent(tree, d, key, mode)
            /\ sep = IF d = "next" THEN way.hi ELSE way.lo
            /\ td'.loaded = TRUE /\ td'.ended = td.ended /\ td'.back = td.back
            /\ td'.node[d] = {k \in leaf : ReachAt(d, key, mode, k)}
            /\ td'.node[Other(d)] \subseteq leaf
            /\ td'.key[d] = sep /\ td'.key[Other(d)] = td.key[Other(d)]
            /\ td'.mode[d] = 1 /\ td'.mode[Other(d)] = td.mode[Other(d)]
            /\ sep \in Bounds => td' \in TdType
  BY <1>1, <1>2, LoadFields
<1> DEFINE leaf == LeafKeys(tree, way.lo, way.hi)
<1>5. ASSUME NEW k \in Key
      PROVE  /\ sep \in Short \cup {None}
             /\ k \in leaf /\ sep # None => ~ReachAt(d, sep, 1, k)
             /\ k \in tree.keys /\ ReachAt(d, key, mode, k) =>
                  k \in leaf \/ (sep # None /\ ReachAt(d, sep, 1, k))
             /\ sep # None /\ ReachAt(d, sep, 1, k) => ReachAt(d, key, mode, k)
  <2>1. Seps(tree) \subseteq Short /\ tree.keys \subseteq Key
    BY <1>2 DEF TypeOK
  <2> HIDE DEF d, key, mode
  <2> QED BY <1>2, <1>3, <1>4, <2>1, LeafRight
<1>6. sep \in Bounds /\ sep # Garbage
  <2>1. sep \in Short \cup {None}
    BY <1>5, Constants
  <2> QED BY <2>1, KeysAreBounds, NoKeys
<1>7. Dir' = d
  BY <1>4 DEF Dir
<1>8. leaf \subseteq Key
  BY <1>2 DEF LeafKeys, TypeOK
<1> HIDE DEF d, key, mode, leaf
<1>9. \A k : Ahead(Dir, k)' <=>
        (k \in leaf /\ ReachAt(d, key, mode, k)) \/ (sep # None /\ ReachAt(d, sep, 1, k))
  BY <1>4, <1>7 DEF Ahead, Reach, leaf
<1>10. \A k : Ahead(Dir, k) <=> ReachAt(d, key, mode, k)
  BY <1>1 DEF Ahead, Reach, d, key, mode
<1>11. \A k \in Key : Ahead(Dir, k)' => Ahead(Dir, k)
  BY <1>5, <1>9, <1>10
<1>12. \A k \in steady : Ahead(Dir, k) => Ahead(Dir, k)'
  <2>1. steady \subseteq tree.keys
    BY <1>2 DEF TypeOK
  <2> QED BY <1>2, <1>5, <1>9, <1>10, <2>1
<1>13. TypeOK'
  BY <1>1, <1>2, <1>4, <1>6, TypeStep DEF TypeOK
<1>14. InLeaf'
  <2>1. \A x \in td'.node[d] : x \in leaf /\ x \in Key
    BY <1>4, <1>8 DEF leaf
  <2>2. td'.key[d] # None => \A x \in td'.node[d] : ~ReachAt(d, td'.key[d], td'.mode[d], x)
    BY <1>4, <1>5, <2>1
  <2> QED BY <1>4, <1>7, <2>2 DEF InLeaf, Reach
<1>15. Ordered'
  BY <1>1, <1>7, <1>11 DEF Inv, Moves, Ordered, d
<1>16. Covered'
  BY <1>1, <1>7, <1>12 DEF Inv, Moves, Covered, d
<1>17. Dense'
  <2>1. ASSUME NEW x \in td'.node[d], NEW k \in steady, Past(d, k, x) PROVE Ahead(Dir, k)'
    <3>1. x \in Key /\ ReachAt(d, key, mode, x) /\ k \in Key
      BY <1>2, <1>4, <1>8 DEF leaf
    <3>2. ReachAt(d, key, mode, k)
      BY <1>2, <1>3, <2>1, <3>1, ReachUp
    <3> QED BY <1>10, <1>12, <3>2
  <2> QED BY <1>1, <1>7, <2>1 DEF Dense
<1>18. Calls' /\ Place'
  BY <1>1, <1>4, <1>7 DEF Inv, Calls, Place, d
<1>19. Buffers'
  <2>1. td.key[Other(d)] = None /\ None # Garbage
    BY <1>1, NoKeys, KeysAreBounds DEF Inv, Calls, d
  <2> QED BY <1>2, <1>4, <1>6, <2>1 DEF Buffers
<1>20. GivesRecords'
  BY <1>1 DEF Inv, GivesRecords
<1> QED BY <1>13, <1>14, <1>15, <1>16, <1>17, <1>18, <1>19, <1>20 DEF Inv, Moves

(* What is ahead of a call that has an entry in its leaf is that entry and what *)
(* is past it; and what is past it, matches and was there all the time is     *)
(* ahead.                                                                    *)
LEMMA EntryAhead ==
    ASSUME Inv, call.at = "step", HasEntry(call.dir)
    PROVE  /\ call.dir = Dir /\ Dir \in Dirs /\ td.loaded
           /\ Entry(Dir) \in td.node[Dir] /\ Entry(Dir) \in Key
           /\ \A k \in Key : Ahead(Dir, k) => k = Entry(Dir) \/ Past(Dir, k, Entry(Dir))
           /\ \A k \in steady : Match(k)[expr] /\ Past(Dir, k, Entry(Dir)) => Ahead(Dir, k)
<1>1. call.dir = Dir /\ td.node[Dir] # {}
  BY DEF Inv, Calls, HasEntry
<1>2. Dir \in Dirs /\ td.node[Dir] \in SUBSET Key /\ td.key[Dir] \in Bounds \cup {Garbage}
  BY Types DEF Inv
<1>3. td.key[Dir] \in Bounds
  BY <1>2 DEF Inv, Buffers
<1>4. Entry(Dir) \in td.node[Dir] /\ Entry(Dir) \in Key
      /\ \A y \in td.node[Dir] : y = Entry(Dir) \/ Past(Dir, y, Entry(Dir))
  BY <1>1, <1>2, EntryIs
<1>5. td.loaded
  BY <1>1, <1>2 DEF Inv, Moves, InLeaf
<1>6. ASSUME NEW k \in Key, Ahead(Dir, k), k \notin td.node[Dir] PROVE Past(Dir, k, Entry(Dir))
  <2>1. td.key[Dir] # None /\ ReachAt(Dir, td.key[Dir], td.mode[Dir], k)
    BY <1>5, <1>6 DEF Ahead, Reach
  <2>2. td.mode[Dir] = 1 /\ ~ReachAt(Dir, td.key[Dir], td.mode[Dir], Entry(Dir))
    BY <1>4, <1>5, <2>1 DEF Inv, Moves, InLeaf, Reach
  <2> QED BY <1>2, <1>3, <1>4, <2>1, <2>2, ReachBeyond
<1> QED BY <1>1, <1>2, <1>4, <1>5, <1>6 DEF Inv, Moves, Dense

(* The step over an entry. *)
LEMMA OverEntry ==
    ASSUME Inv, call.at = "step", HasEntry(call.dir),
           td' \in TdType, td'.loaded = td.loaded, td'.back = td.back,
           td'.node[Dir] = td.node[Dir] \ {Entry(Dir)},
           td'.key[Dir] = td.key[Dir], td'.mode[Dir] = td.mode[Dir],
           UNCHANGED <<expr, steady>>
    PROVE  /\ Dir' = Dir /\ InLeaf' /\ Dense'
           /\ \A k \in Key : Ahead(Dir, k)' <=> Ahead(Dir, k) /\ k # Entry(Dir)
<1> DEFINE x == Entry(Dir)
<1>1. /\ Dir \in Dirs /\ td.loaded /\ x \in td.node[Dir] /\ x \in Key
      /\ \A k \in Key : Ahead(Dir, k) => k = x \/ Past(Dir, k, x)
  BY EntryAhead
<1> HIDE DEF x
<1>2. Dir' = Dir
  BY DEF Dir
<1>3. td'.node[Dir] = td.node[Dir] \ {x} /\ td.node[Dir] \subseteq Key /\ steady \subseteq Key
  BY Types DEF Inv, x
<1>4. \A k : Reach(Dir, k)' <=> Reach(Dir, k)
  BY <1>2 DEF Reach
<1>5. InLeaf'
  BY <1>1, <1>2, <1>3, <1>4 DEF Inv, Moves, InLeaf
<1>6. td.key[Dir] # None => ~Reach(Dir, x)
  BY <1>1 DEF Inv, Moves, InLeaf
<1>7. \A k \in Key : Ahead(Dir, k)' <=> Ahead(Dir, k) /\ k # x
  BY <1>1, <1>2, <1>3, <1>4, <1>6 DEF Ahead
<1>8. Dense'
  <2>1. ASSUME NEW y \in td'.node[Dir], NEW k \in steady, Match(k)[expr], Past(Dir, k, y)
        PROVE  Ahead(Dir, k)'
    <3>1. y \in Key /\ y \in td.node[Dir] /\ y # x /\ k \in Key
      BY <1>3
    <3>2. Ahead(Dir, k)
      BY <2>1, <3>1 DEF Inv, Moves, Dense
    <3>3. Past(Dir, y, x)
      BY <1>1, <3>1 DEF Ahead
    <3>4. k # x
      BY <1>1, <2>1, <3>1, <3>3, PastOrder
    <3> QED BY <1>7, <3>1, <3>2, <3>4
  <2> QED BY <1>2, <2>1 DEF Dense
<1> QED BY <1>2, <1>5, <1>7, <1>8 DEF x

LEMMA SkipKeeps ==
    ASSUME Inv, Skip PROVE Inv'
<1>1. /\ call.at = "step" /\ HasEntry(call.dir) /\ ~Match(Entry(call.dir))[expr]
      /\ td' = Stepped(call.dir)
      /\ UNCHANGED <<tree, expr, call, answer, mine, left, pos, steady>>
  BY DEF Skip
<1>2. /\ call.dir = Dir /\ Dir \in Dirs /\ Entry(Dir) \in Key
      /\ TypeOK /\ steady \subseteq Key
  BY <1>1, EntryAhead, Types DEF Inv
<1>3. /\ td' \in TdType /\ td'.loaded = td.loaded /\ td'.node[Dir] = td.node[Dir] \ {Entry(Dir)}
      /\ td'.key = td.key /\ td'.mode = td.mode /\ td'.ended = td.ended /\ td'.back = td.back
  BY <1>1, <1>2, SteppedFields
<1>4. /\ Dir' = Dir /\ InLeaf' /\ Dense'
      /\ \A k \in Key : Ahead(Dir, k)' <=> Ahead(Dir, k) /\ k # Entry(Dir)
  BY <1>1, <1>3, OverEntry
<1>5. TypeOK'
  BY <1>1, <1>2, <1>3, TypeStep DEF TypeOK
<1>6. Ordered'
  BY <1>1, <1>4 DEF Inv, Moves, Ordered
<1>7. Covered'
  BY <1>1, <1>2, <1>4 DEF Inv, Moves, Covered
<1>8. Calls' /\ Place' /\ Buffers'
  BY <1>1, <1>3, <1>4 DEF Inv, Calls, Place, Buffers, GivesUp
<1>9. GivesRecords'
  BY <1>1 DEF Inv, GivesRecords
<1> QED BY <1>4, <1>5, <1>6, <1>7, <1>8, <1>9 DEF Inv, Moves

LEMMA TakeKeeps ==
    ASSUME Inv, Take PROVE Inv'
<1> DEFINE x == Entry(Dir)
<1>1. /\ call.at = "step" /\ HasEntry(call.dir) /\ Match(Entry(call.dir))[expr]
      /\ td' = [Stepped(call.dir) EXCEPT !.key[Other(call.dir)] = Entry(call.dir),
                                         !.mode[Other(call.dir)] = Turned(call.dir)]
      /\ pos' = Entry(call.dir) /\ answer' = Entry(call.dir)
      /\ call' = IF call.lock = "no" THEN Idle ELSE [call EXCEPT !.at = "lock"]
      /\ UNCHANGED <<tree, expr, mine, left, steady>>
  BY DEF Take
<1>2. /\ call.dir = Dir /\ Dir \in Dirs /\ x \in Key
      /\ \A k \in Key : Ahead(Dir, k) => k = x \/ Past(Dir, k, x)
      /\ \A k \in steady : Match(k)[expr] /\ Past(Dir, k, x) => Ahead(Dir, k)
  BY <1>1, EntryAhead
<1>3. TypeOK /\ steady \subseteq Key /\ Other(Dir) \in Dirs /\ \A d \in Dirs : d = Dir \/ d = Other(Dir)
  BY Types DEF Inv
<1>4. /\ Stepped(Dir) \in TdType /\ Stepped(Dir).loaded = td.loaded
      /\ Stepped(Dir).node[Dir] = td.node[Dir] \ {x}
      /\ Stepped(Dir).key = td.key /\ Stepped(Dir).mode = td.mode
      /\ Stepped(Dir).ended = td.ended /\ Stepped(Dir).back = td.back
  BY <1>2, <1>3, SteppedFields
<1>5. /\ td' \in TdType /\ td'.loaded = td.loaded
      /\ td'.node[Dir] = td.node[Dir] \ {x}
      /\ td'.key[Dir] = td.key[Dir] /\ td'.mode[Dir] = td.mode[Dir]
      /\ td'.key[Other(Dir)] = x /\ td'.mode[Other(Dir)] = Turned(Dir)
      /\ td'.ended = td.ended /\ td'.back = td.back
  <2>1. td' = Behind(Stepped(Dir), Dir, x)
    BY <1>1, <1>2 DEF Behind
  <2> QED BY <1>2, <1>4, <2>1, TakeFields
<1>6. /\ Dir' = Dir /\ InLeaf' /\ Dense'
      /\ \A k \in Key : Ahead(Dir, k)' <=> Ahead(Dir, k) /\ k # x
  BY <1>1, <1>5, OverEntry
<1> HIDE DEF x
<1>7. pos' = x /\ answer' = x /\ Match(x)[expr] /\ x # Fresh /\ x # Lost
  BY <1>1, <1>2, FreshLost DEF x
<1>8. call' = Idle \/ call' = [call EXCEPT !.at = "lock"]
  BY <1>1
<1>9. TypeOK'
  <2>1. call' \in [dir : Dirs, lock : {"no", "lock", "lockr"}, at : {"idle", "step", "lock"}]
    BY <1>3, <1>8 DEF TypeOK, Idle, Dirs
  <2> QED BY <1>1, <1>2, <1>3, <1>5, <1>7, <2>1, TypeStep DEF TypeOK
<1>10. Ordered'
  BY <1>2, <1>6, <1>7 DEF Ordered
<1>11. Covered'
  <2>1. ~Past(Dir, x, x)
    BY <1>2, PastOrder
  <2> QED BY <1>1, <1>2, <1>3, <1>6, <1>7, <2>1 DEF Covered
<1>12. /\ call'.at = "idle" \/ call'.at = "lock"
       /\ call'.at # "idle" => call'.dir = call.dir
  BY <1>3, <1>8 DEF Idle, TypeOK
<1>13. Calls' /\ Place'
  BY <1>1, <1>2, <1>5, <1>6, <1>7, <1>12 DEF Inv, Calls, Place
<1>14. Buffers'
  <2>1. x # Garbage /\ td.key[Dir] # Garbage
    BY <1>1, <1>2, KeysAreBounds, NoKeys DEF Inv, Buffers
  <2> QED BY <1>3, <1>5, <2>1 DEF Buffers
<1>15. GivesRecords'
  <2>1. mine' = None
    BY <1>1 DEF Inv, Calls
  <2> QED BY <1>1, <1>7, <2>1 DEF GivesRecords
<1> QED BY <1>6, <1>9, <1>10, <1>11, <1>13, <1>14, <1>15 DEF Inv, Moves

LEMMA LockKeeps ==
    ASSUME Inv, Lock PROVE Inv'
<1>1. call.at = "lock" /\ UNCHANGED <<tree, expr, left, pos, steady>>
  BY DEF Lock
<1>2. /\ TypeOK /\ td \in TdType /\ Dir \in Dirs /\ Other(Dir) \in Dirs
      /\ \A d \in Dirs : d = Dir \/ d = Other(Dir)
  BY Types DEF Inv
<1>3. call.dir = Dir /\ mine = None /\ answer = pos /\ pos \in Key /\ pos # Fresh
  BY <1>1, FreshLost DEF Inv, Calls
<1>4. CASE Getr(answer)
  <2>1. mine' = answer /\ call' = Idle /\ UNCHANGED <<td, answer>>
    BY <1>4 DEF Lock
  <2>2. answer \in tree.keys
    BY <1>4 DEF Getr, LeafKeys
  <2>3. Dir' = Dir
    BY <2>1 DEF Dir
  <2>4. TypeOK'
    <3>1. Idle \in [dir : Dirs, lock : {"no", "lock", "lockr"}, at : {"idle", "step", "lock"}]
      BY DEF Idle, Dirs
    <3> QED BY <1>1, <1>2, <1>3, <2>1, <3>1, TypeStep DEF TypeOK
  <2>5. Moves'
    BY <1>1, <1>2, <2>1, <2>3, SameWay DEF Inv
  <2>6. Calls' /\ Place'
    BY <1>1, <1>3, <2>1, <2>3 DEF Inv, Calls, Place, Idle
  <2>7. Buffers'
    BY <1>1, <2>1 DEF Inv, Buffers
  <2>8. GivesRecords'
    BY <1>1, <2>1, <2>2 DEF Inv, GivesRecords
  <2> QED BY <2>4, <2>5, <2>6, <2>7, <2>8 DEF Inv
<1>5. CASE ~Getr(answer)
  <2>1. td' = Begin(td, Dir) /\ call' = [call EXCEPT !.at = "step"] /\ UNCHANGED <<mine, answer>>
    BY <1>3, <1>5 DEF Lock
  <2>2. /\ td' \in TdType /\ td'.loaded = td.loaded /\ td'.node = td.node
        /\ td'.key[Other(Dir)] = None /\ td'.key[Dir] = td.key[Dir]
        /\ td'.mode = td.mode /\ td'.ended = td.ended /\ td'.back = td.back
    BY <1>2, <2>1, BeginFields
  <2>3. Dir' = Dir
    BY <2>2 DEF Dir
  <2>4. call' \in [dir : Dirs, lock : {"no", "lock", "lockr"}, at : {"idle", "step", "lock"}]
        /\ call'.at = "step" /\ call'.dir = Dir
    BY <1>2, <1>3, <2>1 DEF TypeOK
  <2>5. TypeOK'
    BY <1>1, <1>2, <2>1, <2>2, <2>4, TypeStep DEF TypeOK
  <2>6. Moves'
    BY <1>1, <1>2, <2>2, <2>3, SameWay DEF Inv
  <2>7. Calls' /\ Place'
    BY <1>3, <2>1, <2>2, <2>3, <2>4 DEF Calls, Place
  <2>8. Buffers'
    <3>1. None # Garbage /\ td.key[Dir] # Garbage
      BY <1>1, <1>2, NoKeys, KeysAreBounds DEF Inv, Buffers
    <3> QED BY <1>2, <2>2, <3>1 DEF Buffers
  <2>9. GivesRecords'
    BY <1>1, <2>1 DEF Inv, GivesRecords
  <2> QED BY <2>5, <2>6, <2>7, <2>8, <2>9 DEF Inv
<1> QED BY <1>4, <1>5

LEMMA LockedElsewhereKeeps ==
    ASSUME Inv, LockedElsewhere PROVE Inv'
<1>1. /\ call.at = "lock" /\ call' = Idle
      /\ UNCHANGED <<tree, td, expr, answer, mine, left, pos, steady>>
  BY DEF LockedElsewhere
<1>2. TypeOK /\ td \in TdType
  BY Types DEF Inv
<1>3. pos # Fresh /\ Dir' = Dir
  BY <1>1, FreshLost DEF Inv, Calls, Dir
<1>4. TypeOK'
  <2>1. Idle \in [dir : Dirs, lock : {"no", "lock", "lockr"}, at : {"idle", "step", "lock"}]
    BY DEF Idle, Dirs
  <2> QED BY <1>1, <1>2, <2>1, TypeStep DEF TypeOK
<1>5. Moves'
  BY <1>1, <1>2, <1>3, SameWay DEF Inv
<1>6. Calls' /\ Place' /\ Buffers'
  BY <1>1, <1>3 DEF Inv, Calls, Place, Buffers, Idle
<1>7. GivesRecords'
  BY <1>1 DEF Inv, GivesRecords
<1> QED BY <1>4, <1>5, <1>6, <1>7 DEF Inv

LEMMA NextKeeps ==
    ASSUME Inv, [Next]_vars PROVE Inv'
<1>1. CASE UNCHANGED vars
  BY <1>1 DEF vars, Inv, TypeOK, Calls, Place, Buffers, GivesUp, Moves, InLeaf, Ordered, Covered,
              Dense, Ahead, Reach, Dir, GivesRecords
<1>2. CASE Load
  BY <1>2, LoadKeeps
<1>3. CASE NoMore
  BY <1>3, NothingKeeps DEF NoMore
<1>4. CASE Take
  BY <1>4, TakeKeeps
<1>5. CASE PastBounds
  BY <1>5, NothingKeeps DEF PastBounds
<1>6. CASE Skip
  BY <1>6, SkipKeeps
<1>7. CASE Lock
  BY <1>7, LockKeeps
<1>8. CASE LockedElsewhere
  BY <1>8, LockedElsewhereKeeps
<1>9. CASE Cdbrestrict
  BY <1>9, CdbrestrictKeeps
<1>10. ASSUME NEW k \in Key, Update(k) PROVE Inv'
  BY <1>10, UpdateKeeps
<1>11. ASSUME NEW d \in Dirs, NEW lock \in {"no", "lock", "lockr"}, Start(d, lock) PROVE Inv'
  BY <1>11, StartKeeps
<1> QED BY <1>1, <1>2, <1>3, <1>4, <1>5, <1>6, <1>7, <1>8, <1>9, <1>10, <1>11 DEF Next, Step

-----------------------------------------------------------------------------
(* The theorems. *)

(* Whatever other programs do to the table, whichever way the calls turn and   *)
(* whatever the where, what the cursor has still to come to is what is past   *)
(* its place.                                                                *)
THEOREM InvCorrect == Spec => []Inv
<1>1. Init => Inv
  BY InitKeeps
<1>2. Inv /\ [Next]_vars => Inv'
  BY NextKeeps
<1> QED BY <1>1, <1>2, PTL DEF Spec

(* The variables keep their types. *)
THEOREM TypeCorrect == Spec => []TypeOK
<1>1. Inv => TypeOK
  BY DEF Inv
<1> QED BY <1>1, InvCorrect, PTL

(* No search goes by a key buffer nobody has filled; a record that is given    *)
(* matches the where, and one given with a lock is in the table.              *)
THEOREM GivenRightCorrect == Spec => []GivenRight
<1>1. Inv => GivenRight
  <2>1. ASSUME Inv, call.at = "step" PROVE td.key[call.dir] # Garbage
    BY <2>1, Types DEF Inv, Calls, Buffers
  <2> QED BY <2>1 DEF Inv, GivenRight, BuffersFilled
<1> QED BY <1>1, InvCorrect, PTL

(* The records come in the order of their keys and none comes twice. *)
THEOREM OrderlyCorrect == Spec => Orderly
<1>1. Inv /\ [Next]_vars => [Take /\ pos # Lost => Past(call.dir, pos', pos)]_vars
  <2> SUFFICES ASSUME Inv, Take, pos # Lost PROVE Past(call.dir, pos', pos)
    OBVIOUS
  <2>1. call.at = "step" /\ HasEntry(call.dir) /\ pos' = Entry(call.dir)
    BY DEF Take
  <2>2. call.dir = Dir /\ Entry(Dir) \in td.node[Dir] /\ Entry(Dir) \in Key
    BY <2>1, EntryAhead
  <2>3. Ahead(Dir, Entry(Dir))
    BY <2>2 DEF Ahead
  <2> QED BY <2>1, <2>2, <2>3 DEF Inv, Moves, Ordered
<1> QED BY <1>1, InvCorrect, PTL DEF Spec, Orderly

(* No record that matches and was there all the time is passed over. *)
THEOREM NoneMissedCorrect == Spec => NoneMissed
<1>1. Inv /\ [Next]_vars =>
        [call.at = "step" /\ pos' # pos =>
           \A k \in steady : Match(k)[expr] /\ Past(call.dir, k, pos)
                             => k = pos' \/ Past(call.dir, k, pos')]_vars
  <2> SUFFICES ASSUME Inv, Next, call.at = "step", pos' # pos,
                      NEW k \in steady, Match(k)[expr], Past(call.dir, k, pos)
               PROVE  k = pos' \/ Past(call.dir, k, pos')
    OBVIOUS
  <2>1. /\ TypeOK /\ Dir \in Dirs /\ k \in Key /\ k \in tree.keys /\ call.dir = Dir
        /\ expr \in Where
    BY Types DEF Inv, TypeOK, Calls
  <2>2. pos # Lost
    BY FreshLost DEF Past
  <2>3. Ahead(Dir, k)
    BY <2>1, <2>2 DEF Inv, Moves, Covered
  <2>4. CASE Take
    <3>1. HasEntry(call.dir) /\ pos' = Entry(call.dir)
      BY <2>4 DEF Take
    <3> QED BY <2>1, <2>3, <3>1, EntryAhead
  <2>5. CASE NoMore
    <3>1. td.node[Dir] = {} /\ ((td.loaded /\ td.key[Dir] = None) \/ tree = Empty)
      BY <2>1, <2>5 DEF NoMore, HasEntry
    <3>2. tree # Empty
      BY <2>1 DEF Empty
    <3> QED BY <2>3, <3>1, <3>2 DEF Ahead
  <2>6. CASE PastBounds
    <3>1. HasEntry(Dir) /\ ~Match(Entry(Dir))[expr] /\ Beyond(expr, Limit(Dir), Entry(Dir))
      BY <2>1, <2>6 DEF PastBounds
    <3>2. Entry(Dir) \in Key /\ (k = Entry(Dir) \/ Past(Dir, k, Entry(Dir)))
      BY <2>1, <2>3, <3>1, EntryAhead
    <3>3. Entry(Dir) # Fresh
      BY <3>2, FreshLost
    <3>4. CASE Dir = "next"
      <4>1. Limit(Dir) = AtMost /\ AtMost \in Ops /\ AtMost # AtLeast
        BY <3>4 DEF Limit, Ops, AtMost, AtLeast
      <4>2. Entry(Dir) = k \/ Before(Entry(Dir), k)
        BY <3>2, <3>3, <3>4 DEF Past
      <4> QED BY <2>1, <3>1, <3>2, <4>1, <4>2, BeyondRight
    <3>5. CASE Dir = "prev"
      <4>1. Limit(Dir) = AtLeast /\ AtLeast \in Ops /\ AtMost # AtLeast
        BY <3>5 DEF Limit, Ops, AtMost, AtLeast
      <4>2. Entry(Dir) = k \/ Before(k, Entry(Dir))
        BY <3>2, <3>3, <3>5 DEF Past
      <4> QED BY <2>1, <3>1, <3>2, <4>1, <4>2, BeyondRight
    <3> QED BY <2>1, <3>4, <3>5 DEF Dirs
  <2>7. Take \/ NoMore \/ PastBounds
    <3>1. call # Idle
      BY DEF Idle
    <3>2. Load \/ Skip \/ Lock \/ LockedElsewhere => FALSE
      BY DEF Load, Skip, Lock, LockedElsewhere
    <3>3. Cdbrestrict => FALSE
      BY <3>1 DEF Cdbrestrict
    <3>4. \A d, lock : Start(d, lock) => FALSE
      BY <3>1 DEF Start
    <3>5. \A j : Update(j) => FALSE
      BY DEF Update
    <3> QED BY <3>2, <3>3, <3>4, <3>5 DEF Next, Step
  <2> QED BY <2>4, <2>5, <2>6, <2>7
<1> QED BY <1>1, InvCorrect, PTL DEF Spec, NoneMissed
=============================================================================
