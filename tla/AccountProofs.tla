---------------------------- MODULE AccountProofs ----------------------------
(***************************************************************************)
(* What TLAPS proves of the lists of an update, for every size of pages,   *)
(* keys and records and every depth of the tree: when putchange() puts the *)
(* pages of PageList2 by, the tree has given up exactly those.             *)
(*                                                                         *)
(* The inductive invariant: at each level, the pages of the tree that      *)
(* would be if the node were written there are those of the old tree and   *)
(* those captured, but for the pages of list2, each listed once.  A round  *)
(* swaps the children of one page for others, and takes into the lists     *)
(* what it swaps; the pages below them stay below, for a key leads to the  *)
(* same page before and after.                                             *)
(***************************************************************************)
EXTENDS BalanceProofs

-----------------------------------------------------------------------------
(* The books of an update. Sequence s has the pages K, each once.          *)
Once(s, K) ==
    /\ s \in Seq(Int)
    /\ \A x : x \in K <=> \E i \in 1 .. Len(s) : s[i] = x
    /\ \A i, j \in 1 .. Len(s) : s[i] = s[j] => i = j

LEMMA OncePut ==
    ASSUME NEW s, NEW K, Once(s, K), NEW i \in 1 .. Len(s), NEW n \in Int, n \notin K
    PROVE  Once([s EXCEPT ![i] = n], (K \ {s[i]}) \cup {n})
<1> DEFINE t == [s EXCEPT ![i] = n]
<1>1. s \in Seq(Int) /\ Len(s) \in Nat /\ DOMAIN s = 1 .. Len(s)
  BY DEF Once
<1>2. t \in Seq(Int) /\ Len(t) = Len(s)
  BY <1>1
<1>3. \A j \in 1 .. Len(s) : t[j] = IF j = i THEN n ELSE s[j]
  BY <1>1
<1> HIDE DEF t
<1>4. \A j \in 1 .. Len(s) : s[j] \in K
  BY DEF Once
<1>5. \A x : x \in (K \ {s[i]}) \cup {n} <=> \E j \in 1 .. Len(t) : t[j] = x
  BY <1>2, <1>3, <1>4 DEF Once
<1>6. \A j, k \in 1 .. Len(t) : t[j] = t[k] => j = k
  BY <1>2, <1>3, <1>4 DEF Once
<1>7. Once(t, (K \ {s[i]}) \cup {n})
  BY <1>2, <1>5, <1>6 DEF Once
<1> QED  BY <1>7 DEF t

LEMMA OnceAppend ==
    ASSUME NEW s, NEW K, Once(s, K), NEW n \in Int, n \notin K
    PROVE  Once(Append(s, n), K \cup {n})
<1> DEFINE t == Append(s, n)
<1>1. s \in Seq(Int) /\ Len(s) \in Nat
  BY DEF Once
<1>2. t \in Seq(Int) /\ Len(t) = Len(s) + 1
  BY <1>1
<1>3. \A j \in 1 .. Len(s) + 1 : t[j] = IF j = Len(s) + 1 THEN n ELSE s[j]
  BY <1>1
<1> HIDE DEF t
<1>4. \A j \in 1 .. Len(s) : s[j] \in K
  BY DEF Once
<1>5. \A x : x \in K \cup {n} <=> \E j \in 1 .. Len(t) : t[j] = x
  <2>1. \A x : (\E j \in 1 .. Len(t) : t[j] = x) <=> x = n \/ \E j \in 1 .. Len(s) : s[j] = x
    <3> TAKE x
    <3> DEFINE l == Len(s)
    <3>1. l \in Nat /\ Len(t) = l + 1 /\ l + 1 \in 1 .. l + 1 /\ \A j \in 1 .. l : j \in 1 .. l + 1 /\ j # l + 1
      BY <1>1, <1>2
    <3>2. \A j \in 1 .. l + 1 : j \in 1 .. l \/ j = l + 1
      BY <3>1
    <3>3. t[l + 1] = n /\ \A j \in 1 .. l : t[j] = s[j]
      BY <1>3, <3>1
    <3> HIDE DEF l
    <3>4. (\E j \in 1 .. l + 1 : t[j] = x) <=> t[l + 1] = x \/ \E j \in 1 .. l : t[j] = x
      BY ONLY <3>1, <3>2
    <3>5. (\E j \in 1 .. l : t[j] = x) <=> \E j \in 1 .. l : s[j] = x
      BY ONLY <3>3
    <3> QED  BY <3>1, <3>3, <3>4, <3>5 DEF l
  <2>2. \A x : x \in K <=> \E j \in 1 .. Len(s) : s[j] = x
    BY DEF Once
  <2>3. \A x : x \in K \cup {n} <=> x = n \/ x \in K
    OBVIOUS
  <2> QED  BY ONLY <2>1, <2>2, <2>3
<1>6. \A j, k \in 1 .. Len(t) : t[j] = t[k] => j = k
  <2>1. \A j, k \in 1 .. Len(s) : s[j] = s[k] => j = k
    BY DEF Once
  <2>2. \A j \in 1 .. Len(s) : s[j] # n
    BY <1>4
  <2>3. \A j \in 1 .. Len(t) : (j \in 1 .. Len(s) /\ t[j] = s[j]) \/ (j = Len(s) + 1 /\ t[j] = n)
    BY <1>1, <1>2, <1>3
  <2> QED  BY ONLY <2>1, <2>2, <2>3
<1>7. Once(t, K \cup {n})
  BY <1>2, <1>5, <1>6 DEF Once
<1> QED  BY <1>7 DEF t

LEMMA OnceInsert ==
    ASSUME NEW s, NEW K, Once(s, K), NEW i \in 1 .. Len(s), NEW n \in Int, n \notin K
    PROVE  Once(InsertAt(s, i + 1, n), K \cup {n})
<1> DEFINE t == InsertAt(s, i + 1, n)
<1>1. s \in Seq(Int) /\ Len(s) \in Nat /\ i + 1 \in 1 .. Len(s) + 1
  BY DEF Once
<1> DEFINE c == i + 1
<1>8. s \in Seq(Int) /\ c \in 1 .. Len(s) + 1 /\ n \in Int
  BY <1>1
<1> HIDE DEF c
<1>9. /\ InsertAt(s, c, n) \in Seq(Int) /\ Len(InsertAt(s, c, n)) = Len(s) + 1
      /\ \A j \in 1 .. Len(s) + 1 :
            InsertAt(s, c, n)[j] = IF j < c THEN s[j] ELSE IF j = c THEN n ELSE s[j - 1]
  <2>1. PICK S : S = Int
    OBVIOUS
  <2>2. s \in Seq(S) /\ c \in 1 .. Len(s) + 1 /\ n \in S
    BY <1>8, <2>1
  <2>3. /\ InsertAt(s, c, n) \in Seq(S) /\ Len(InsertAt(s, c, n)) = Len(s) + 1
        /\ \A j \in 1 .. Len(s) + 1 :
              InsertAt(s, c, n)[j] = IF j < c THEN s[j] ELSE IF j = c THEN n ELSE s[j - 1]
    BY ONLY <2>2, InsertAtIs
  <2> QED  BY <2>1, <2>3
<1>2. t \in Seq(Int) /\ Len(t) = Len(s) + 1
  BY ONLY <1>9 DEF c
<1>3. \A j \in 1 .. Len(s) + 1 :
          t[j] = IF j < i + 1 THEN s[j] ELSE IF j = i + 1 THEN n ELSE s[j - 1]
  BY ONLY <1>9 DEF c
<1> HIDE DEF t
<1>4. \A j \in 1 .. Len(s) : s[j] \in K
  BY DEF Once
<1>10. \A j \in 1 .. Len(t) :
          \/ j < i + 1 /\ j \in 1 .. Len(s) /\ t[j] = s[j]
          \/ j = i + 1 /\ t[j] = n
          \/ j > i + 1 /\ j - 1 \in 1 .. Len(s) /\ t[j] = s[j - 1]
  <2> TAKE j \in 1 .. Len(t)
  <2>1. j \in 1 .. Len(s) + 1
    BY <1>2
  <2>2. t[j] = IF j < i + 1 THEN s[j] ELSE IF j = i + 1 THEN n ELSE s[j - 1]
    BY <1>3, <2>1
  <2>3. j < i + 1 => j \in 1 .. Len(s)
    BY <1>1, <2>1
  <2>4. j > i + 1 => j - 1 \in 1 .. Len(s) /\ ~(j < i + 1) /\ j # i + 1
    BY <1>1, <2>1
  <2>5. j < i + 1 \/ j = i + 1 \/ j > i + 1
    BY <1>1, <2>1
  <2>6. j = i + 1 => ~(j < i + 1)
    BY <1>1, <2>1
  <2>7. CASE j < i + 1
    BY <2>2, <2>3, <2>7
  <2>8. CASE j = i + 1
    BY <2>2, <2>6, <2>8
  <2>9. CASE j > i + 1
    BY <2>2, <2>4, <2>9
  <2> QED  BY ONLY <2>5, <2>7, <2>8, <2>9
<1>5. \A x : x \in K \cup {n} <=> \E j \in 1 .. Len(t) : t[j] = x
  <2>1. ASSUME NEW j \in 1 .. Len(t) PROVE t[j] \in K \cup {n}
    BY <1>10, <1>4, <2>1
  <2>2. t[i + 1] = n /\ i + 1 \in 1 .. Len(t)
    BY <1>1, <1>2, <1>3
  <2>3. ASSUME NEW j \in 1 .. Len(s) PROVE \E k \in 1 .. Len(t) : t[k] = s[j]
    <3>1. CASE j < i + 1
      <4>1. j \in 1 .. Len(t) /\ j \in 1 .. Len(s) + 1
        BY <1>1, <1>2, <2>3
      <4>2. t[j] = s[j]
        BY <4>1, <1>3, <3>1
      <4> QED  BY <4>1, <4>2
    <3>2. CASE ~(j < i + 1)
      <4>1. j + 1 \in 1 .. Len(t) /\ j + 1 > i + 1 /\ (j + 1) - 1 = j
        BY <1>1, <1>2, <2>3, <3>2
      <4>2. t[j + 1] = s[(j + 1) - 1]
        BY <4>1, <1>2, <1>3, <1>1
      <4> QED  BY <4>1, <4>2
    <3> QED  BY <3>1, <3>2
  <2>4. \A x : x \in K => \E j \in 1 .. Len(s) : s[j] = x
    BY DEF Once
  <2> QED  BY <2>1, <2>2, <2>3, <2>4
<1>6. \A j, k \in 1 .. Len(t) : t[j] = t[k] => j = k
  <2>1. \A j, k \in 1 .. Len(s) : s[j] = s[k] => j = k
    BY DEF Once
  <2>2. \A j \in 1 .. Len(s) : s[j] # n
    BY <1>4
  <2> SUFFICES ASSUME NEW j \in 1 .. Len(t), NEW l \in 1 .. Len(t), t[j] = t[l]
               PROVE  j = l
    OBVIOUS
  <2>3. /\ \/ j < i + 1 /\ j \in 1 .. Len(s) /\ t[j] = s[j]
           \/ j = i + 1 /\ t[j] = n
           \/ j > i + 1 /\ j - 1 \in 1 .. Len(s) /\ t[j] = s[j - 1]
        /\ \/ l < i + 1 /\ l \in 1 .. Len(s) /\ t[l] = s[l]
           \/ l = i + 1 /\ t[l] = n
           \/ l > i + 1 /\ l - 1 \in 1 .. Len(s) /\ t[l] = s[l - 1]
    BY <1>10
  <2>4. j \in Int /\ l \in Int /\ i \in Int
    BY <1>1, <1>2
  <2>5. j - 1 = l - 1 => j = l
    BY <2>4
  <2>6. j < i + 1 /\ l > i + 1 => j # l - 1
    BY <2>4
  <2>7. l < i + 1 /\ j > i + 1 => l # j - 1
    BY <2>4
  <2> QED  BY ONLY <2>1, <2>2, <2>3, <2>5, <2>6, <2>7, t[j] = t[l]
<1>7. Once(t, K \cup {n})
  BY <1>2, <1>5, <1>6 DEF Once
<1> QED  BY <1>7 DEF t

LEMMA OnceRemove ==
    ASSUME NEW s, NEW K, Once(s, K), NEW i \in 1 .. Len(s)
    PROVE  Once(RemoveAt(s, i), K \ {s[i]})
<1> DEFINE t == RemoveAt(s, i)
<1>1. s \in Seq(Int) /\ Len(s) \in Nat
  BY DEF Once
<1>2. t \in Seq(Int) /\ Len(t) = Len(s) - 1
  BY <1>1, RemoveAtIs
<1>3. \A j \in 1 .. Len(s) - 1 : t[j] = IF j < i THEN s[j] ELSE s[j + 1]
  BY <1>1, RemoveAtIs
<1> HIDE DEF t
<1>4. /\ \A j, k \in 1 .. Len(s) : s[j] = s[k] => j = k
      /\ \A x : x \in K <=> \E j \in 1 .. Len(s) : s[j] = x
  BY DEF Once
<1>5. \A x : x \in K \ {s[i]} <=> \E j \in 1 .. Len(t) : t[j] = x
  <2>1. ASSUME NEW j \in 1 .. Len(t) PROVE t[j] \in K \ {s[i]}
    <3>1. j \in 1 .. Len(s) /\ j + 1 \in 1 .. Len(s)
      BY <1>1, <1>2, <2>1
    <3>2. t[j] = IF j < i THEN s[j] ELSE s[j + 1]
      BY <1>2, <1>3, <2>1
    <3> QED  BY <1>1, <1>4, <3>1, <3>2
  <2>2. ASSUME NEW j \in 1 .. Len(s), j # i PROVE \E k \in 1 .. Len(t) : t[k] = s[j]
    <3>1. CASE j < i
      <4>1. j \in 1 .. Len(s) - 1
        BY <1>1, <2>2, <3>1
      <4> QED  BY <4>1, <1>2, <1>3, <3>1
    <3>2. CASE j > i
      <4>1. j - 1 \in 1 .. Len(s) - 1 /\ ~(j - 1 < i) /\ (j - 1) + 1 = j
        BY <1>1, <2>2, <3>2
      <4>2. t[j - 1] = s[(j - 1) + 1]
        BY <4>1, <1>3
      <4> QED  BY <4>1, <4>2, <1>2
    <3> QED  BY <1>1, <2>2, <3>1, <3>2
  <2> QED  BY <2>1, <2>2, <1>4
<1>6. \A j, k \in 1 .. Len(t) : t[j] = t[k] => j = k
  <2>1. \A j \in 1 .. Len(t) :
          \/ j < i /\ j \in 1 .. Len(s) /\ t[j] = s[j]
          \/ j >= i /\ j + 1 \in 1 .. Len(s) /\ t[j] = s[j + 1]
    BY <1>1, <1>2, <1>3
  <2> SUFFICES ASSUME NEW j \in 1 .. Len(t), NEW l \in 1 .. Len(t), t[j] = t[l]
               PROVE  j = l
    OBVIOUS
  <2>2. /\ \/ j < i /\ j \in 1 .. Len(s) /\ t[j] = s[j]
           \/ j >= i /\ j + 1 \in 1 .. Len(s) /\ t[j] = s[j + 1]
        /\ \/ l < i /\ l \in 1 .. Len(s) /\ t[l] = s[l]
           \/ l >= i /\ l + 1 \in 1 .. Len(s) /\ t[l] = s[l + 1]
    BY <2>1
  <2>3. \A a, b \in 1 .. Len(s) : s[a] = s[b] => a = b
    BY ONLY <1>4
  <2>4. j \in Int /\ l \in Int /\ i \in Int
    BY <1>1, <1>2
  <2>5. /\ j + 1 = l + 1 => j = l
        /\ j < i /\ l >= i => j # l + 1
        /\ l < i /\ j >= i => l # j + 1
    BY <2>4
  <2> QED  BY ONLY <2>2, <2>3, <2>5, t[j] = t[l]
<1>7. Once(t, K \ {s[i]})
  BY <1>2, <1>5, <1>6 DEF Once
<1> QED  BY <1>7 DEF t

(* The pages ks of a row of nodes and R of the rest of a tree are those of *)
(* A and m, made for it, but for those of list l.                          *)
Books(ks, l, m, A, R) ==
    \E K, B : /\ Once(ks, K) /\ Once(l, B) /\ B \subseteq A \cup m
              /\ R \cap K = {} /\ R \cup K = (A \cup m) \ B

LEMMA BooksPut ==
    ASSUME NEW ks, NEW l, NEW m, NEW A, NEW R, Books(ks, l, m, A, R),
           NEW i \in 1 .. Len(ks), NEW n \in Int, n \notin A \cup m
    PROVE  Books([ks EXCEPT ![i] = n], Append(l, ks[i]), m \cup {n}, A, R)
<1>1. PICK K, B : /\ Once(ks, K) /\ Once(l, B) /\ B \subseteq A \cup m
                  /\ R \cap K = {} /\ R \cup K = (A \cup m) \ B
  BY DEF Books
<1>2. PICK c : c = ks[i]
  OBVIOUS
<1>3. c \in K /\ c \in Int
  BY <1>1, <1>2 DEF Once
<1>4. Once([ks EXCEPT ![i] = n], (K \ {c}) \cup {n})
  BY <1>1, <1>2, OncePut
<1>5. Once(Append(l, c), B \cup {c})
  BY <1>1, <1>3, OnceAppend
<1>6. /\ B \cup {c} \subseteq A \cup (m \cup {n}) /\ R \cap ((K \ {c}) \cup {n}) = {}
      /\ R \cup ((K \ {c}) \cup {n}) = (A \cup (m \cup {n})) \ (B \cup {c})
  BY <1>1, <1>3
<1> QED  BY <1>2, <1>4, <1>5, <1>6 DEF Books

LEMMA BooksInsert ==
    ASSUME NEW ks, NEW l, NEW m, NEW A, NEW R, Books(ks, l, m, A, R),
           NEW i \in 1 .. Len(ks), NEW n \in Int, n \notin A \cup m
    PROVE  Books(InsertAt(ks, i + 1, n), l, m \cup {n}, A, R)
<1>1. PICK K, B : /\ Once(ks, K) /\ Once(l, B) /\ B \subseteq A \cup m
                  /\ R \cap K = {} /\ R \cup K = (A \cup m) \ B
  BY DEF Books
<1>2. Once(InsertAt(ks, i + 1, n), K \cup {n})
  BY <1>1, OnceInsert
<1>3. /\ B \subseteq A \cup (m \cup {n}) /\ R \cap (K \cup {n}) = {}
      /\ R \cup (K \cup {n}) = (A \cup (m \cup {n})) \ B
  BY <1>1
<1> QED  BY <1>1, <1>2, <1>3 DEF Books

(* Two neighbours become one; the list gets both.                          *)
LEMMA BooksMerge ==
    ASSUME NEW ks, NEW l, NEW m, NEW A, NEW R, Books(ks, l, m, A, R),
           NEW i \in 1 .. Len(ks), i + 1 \in 1 .. Len(ks), NEW n \in Int, n \notin A \cup m,
           NEW a, NEW b, {a, b} = {ks[i], ks[i + 1]}
    PROVE  Books([RemoveAt(ks, i + 1) EXCEPT ![i] = n], Append(Append(l, a), b), m \cup {n}, A, R)
<1>1. PICK K, B : /\ Once(ks, K) /\ Once(l, B) /\ B \subseteq A \cup m
                  /\ R \cap K = {} /\ R \cup K = (A \cup m) \ B
  BY DEF Books
<1>2. PICK c, e : c = ks[i] /\ e = ks[i + 1]
  OBVIOUS
<1>3. c \in K /\ c \in Int /\ e \in K /\ e \in Int /\ c # e /\ ks \in Seq(Int) /\ Len(ks) \in Nat
  BY <1>1, <1>2 DEF Once
<1>4. a \in K /\ a \in Int /\ b \in K /\ b \in Int /\ a # b
  <2>1. a \in {c, e} /\ b \in {c, e} /\ c \in {a, b} /\ e \in {a, b}
    BY <1>2
  <2> QED  BY ONLY <1>3, <2>1
<1>5. Once(RemoveAt(ks, i + 1), K \ {e})
  BY <1>1, <1>2, OnceRemove
<1>6. i \in 1 .. Len(RemoveAt(ks, i + 1)) /\ RemoveAt(ks, i + 1)[i] = c
  <2>1. /\ Len(RemoveAt(ks, i + 1)) = Len(ks) - 1
        /\ \A j \in 1 .. Len(ks) - 1 :
              RemoveAt(ks, i + 1)[j] = IF j < i + 1 THEN ks[j] ELSE ks[j + 1]
    BY <1>3, RemoveAtIs
  <2> QED  BY <1>2, <1>3, <2>1
<1>7. Once([RemoveAt(ks, i + 1) EXCEPT ![i] = n], ((K \ {e}) \ {c}) \cup {n})
  <2>1. n \notin K \ {e}
    BY <1>1
  <2>2. PICK t : t = RemoveAt(ks, i + 1)
    OBVIOUS
  <2>3. Once([t EXCEPT ![i] = n], ((K \ {e}) \ {t[i]}) \cup {n})
    BY <1>5, <1>6, <2>1, <2>2, OncePut
  <2> QED  BY <1>6, <2>2, <2>3
<1>8. Once(Append(Append(l, a), b), (B \cup {a}) \cup {b})
  <2>1. Once(Append(l, a), B \cup {a})
    BY <1>1, <1>4, OnceAppend
  <2> QED  BY <1>1, <1>4, <2>1, OnceAppend
<1>9. {a, b} = {c, e}
  BY <1>2
<1>10. /\ (B \cup {a}) \cup {b} \subseteq A \cup (m \cup {n})
       /\ R \cap (((K \ {e}) \ {c}) \cup {n}) = {}
       /\ R \cup (((K \ {e}) \ {c}) \cup {n}) = (A \cup (m \cup {n})) \ ((B \cup {a}) \cup {b})
  BY <1>1, <1>3, <1>4, <1>9
<1> QED  BY <1>7, <1>8, <1>10 DEF Books

(* The nodes of a round keep their pages. *)
HasPage(nd) == "page" \in DOMAIN nd
Keeps(m, nd) == HasPage(m) /\ m.page = nd.page
PairKeeps(m, l, r) == Keeps(m.left, l) /\ Keeps(m.right, r)

LEMMA NodeKeeps ==
    ASSUME NEW nd, HasPage(nd), NEW i, NEW e
    PROVE  Keeps(SetKid(nd, i, e), nd) /\ Keeps(Addpage(nd, i, e), nd) /\ Keeps(Delpage(nd, i), nd)
BY DEF Keeps, HasPage, SetKid, Addpage, Delpage

LEMMA MoveKeeps ==
    ASSUME NEW l, HasPage(l), NEW r, HasPage(r), NEW n
    PROVE  PairKeeps(Moveleft(l, r, n), l, r) /\ PairKeeps(Moveright(l, r, n), l, r)
<1>1. PairKeeps(Moveleft(l, r, n), l, r)
  BY DEF PairKeeps, Keeps, HasPage, Moveleft
<1>2. PairKeeps(Moveright(l, r, n), l, r)
  BY DEF PairKeeps, Keeps, HasPage, Moveright
<1> QED  BY <1>1, <1>2

LEMMA ShareKeeps ==
    ASSUME NEW l, HasPage(l), NEW r, HasPage(r)
    PROVE  PairKeeps(Promote(Redistrib(l, r)), l, r)
<1>1. PICK m : m = RedistribRight(l, r)
  OBVIOUS
<1>2. PairKeeps(m, l, r)
  BY <1>1, MoveKeeps DEF RedistribRight
<1>3. PICK q : q = RedistribLeft(m)
  OBVIOUS
<1>4. PairKeeps(q, l, r)
  <2>1. \E n : q = [Moveleft(m.left, m.right, n) EXCEPT !.moved = m.moved - @]
    BY <1>3 DEF RedistribLeft
  <2>2. PICK n : q = [Moveleft(m.left, m.right, n) EXCEPT !.moved = m.moved - @]
    BY <2>1
  <2>3. q.left = Moveleft(m.left, m.right, n).left /\ q.right = Moveleft(m.left, m.right, n).right
    BY <2>2 DEF Moveleft
  <2>4. PairKeeps(Moveleft(m.left, m.right, n), m.left, m.right)
    <3>1. PICK a, b : a = m.left /\ b = m.right
      OBVIOUS
    <3>2. HasPage(a) /\ HasPage(b)
      BY <1>2, <3>1 DEF PairKeeps, Keeps
    <3>3. PairKeeps(Moveleft(a, b, n), a, b)
      BY ONLY <3>2, MoveKeeps
    <3> QED  BY <3>1, <3>3
  <2> QED  BY <1>2, <2>3, <2>4 DEF PairKeeps, Keeps
<1>5. Redistrib(l, r) = q
  BY <1>1, <1>3 DEF Redistrib
<1>6. PICK p : p = Promote(q)
  OBVIOUS
<1>7. p.right = q.right /\ (p.left = q.left \/ p.left = Delpage(q.left, Count(q.left) - 1))
  BY <1>6 DEF Promote
<1>8. Keeps(p.left, l)
  BY <1>4, <1>7, NodeKeeps DEF PairKeeps, Keeps
<1> QED  BY <1>4, <1>5, <1>6, <1>7, <1>8 DEF PairKeeps

(* A record of a round keeps the books.                                    *)
InBooks(w, ks, A, R) ==
    /\ Fields(w) /\ "kids" \in DOMAIN w.parent
    /\ Books(ks, w.list2, w.made, A, R) /\ A \subseteq DOMAIN w.disk
InRound(w, A, R) ==
    /\ InBooks(w, w.parent.kids, A, R)
    /\ ~w.done => w.node.page = Kid(w.parent, w.idx)

LEMMA CaptureIs ==
    ASSUME NEW w, NEW x, Capture(w) \in x.made, 0 \notin x.made
    PROVE  Capture(w) \in Int /\ Capture(w) \notin DOMAIN w.disk \cup w.made
<1>1. Capture(w) # 0
  OBVIOUS
<1> QED  BY <1>1, UnusedIs DEF Capture

Posed(w, ks, A, R, i, x) ==
    /\ InBooks(x, [ks EXCEPT ![i + 1] = Capture(w)], A, R) /\ x.idx = w.idx /\ x.node = w.node
    /\ x.parent.kids = [w.parent.kids EXCEPT ![i + 1] = Capture(w)]
LEMMA ReposBooks ==
    ASSUME NEW w, NEW ks, NEW A, NEW R, InBooks(w, ks, A, R),
           NEW i, i + 1 \in 1 .. Len(ks), NEW nd, nd.page = ks[i + 1],
           NEW x, x = Repos(w, i, nd), 0 \notin x.made
    PROVE  Posed(w, ks, A, R, i, x)
<1>1. Reposed(x, w, i, nd)
  BY ReposIs DEF InBooks
<1>2. PICK n : n = Capture(w)
  OBVIOUS
<1>3. /\ Fields(x) /\ x.made = w.made \cup {n} /\ x.parent = SetKid(w.parent, i, n)
      /\ x.list2 = Append(w.list2, nd.page) /\ DOMAIN w.disk \subseteq DOMAIN x.disk
      /\ x.idx = w.idx /\ x.node = w.node
  BY <1>1, <1>2 DEF Reposed, Putnode
<1>4. n \in Int /\ n \notin DOMAIN w.disk \cup w.made
  BY <1>2, <1>3, CaptureIs
<1>5. Books([ks EXCEPT ![i + 1] = n], x.list2, x.made, A, R)
  <2>1. n \notin A \cup w.made
    BY <1>4 DEF InBooks
  <2>2. Books(ks, w.list2, w.made, A, R)
    BY DEF InBooks
  <2>3. PICK j : j = i + 1
    OBVIOUS
  <2>4. Books([ks EXCEPT ![j] = n], Append(w.list2, ks[j]), w.made \cup {n}, A, R)
    BY <1>4, <2>1, <2>2, <2>3, BooksPut
  <2> QED  BY <1>3, <2>3, <2>4
<1>6. "kids" \in DOMAIN x.parent /\ x.parent.kids = [w.parent.kids EXCEPT ![i + 1] = n]
  BY <1>3 DEF InBooks, SetKid
<1> QED  BY <1>2, <1>3, <1>5, <1>6 DEF InBooks, Posed

(* adopt(). *)
OneAdopted(w, i, x, A, R) ==
    /\ InBooks(x, x.parent.kids, A, R) /\ x.idx = w.idx /\ x.node = w.node
    /\ Len(x.parent.kids) = Len(w.parent.kids)
    /\ \A j \in 1 .. Len(w.parent.kids) : j # i + 1 => x.parent.kids[j] = w.parent.kids[j]
LEMMA Adopt1Books ==
    ASSUME NEW w, NEW A, NEW R, InBooks(w, w.parent.kids, A, R),
           NEW i, i + 1 \in 1 .. Len(w.parent.kids), NEW nd, nd.page = Kid(w.parent, i),
           NEW x, x = Adopt1(w, i, nd), 0 \notin x.made
    PROVE  OneAdopted(w, i, x, A, R)
<1>1. CASE nd.end > PgSize
  BY <1>1 DEF Adopt1, OneAdopted
<1>2. CASE ~(nd.end > PgSize)
  <2>1. x = Repos(w, i, nd) /\ nd.page = w.parent.kids[i + 1]
    BY <1>2 DEF Adopt1, Kid
  <2>2. PICK ks, n : ks = w.parent.kids /\ n = Capture(w)
    OBVIOUS
  <2>3. /\ InBooks(x, [ks EXCEPT ![i + 1] = n], A, R) /\ x.idx = w.idx /\ x.node = w.node
        /\ x.parent.kids = [ks EXCEPT ![i + 1] = n]
    <3>1. nd.page = ks[i + 1] /\ i + 1 \in 1 .. Len(ks) /\ InBooks(w, ks, A, R)
      BY <2>1, <2>2
    <3>2. Posed(w, ks, A, R, i, x)
      BY <2>1, <3>1, ReposBooks
    <3> QED  BY <2>2, <3>2 DEF Posed
  <2>4. ks \in Seq(Int)
    BY <2>2 DEF InBooks, Books, Once
  <2>5. Len([ks EXCEPT ![i + 1] = n]) = Len(ks)
    BY <2>4
  <2>6. \A j \in 1 .. Len(ks) : j # i + 1 => [ks EXCEPT ![i + 1] = n][j] = ks[j]
    BY <2>4
  <2> QED  BY <2>2, <2>3, <2>5, <2>6 DEF OneAdopted
<1> QED  BY <1>1, <1>2

AtPair(w, i, p) ==
    /\ i \in Nat /\ i + 2 =< Len(w.parent.kids)
    /\ p.left.page = Kid(w.parent, i) /\ p.right.page = Kid(w.parent, i + 1)
LEMMA AdoptBooks ==
    ASSUME NEW w, NEW A, NEW R, InBooks(w, w.parent.kids, A, R),
           NEW i, NEW p, AtPair(w, i, p),
           NEW x, x = Adopt(w, i, p), 0 \notin x.made
    PROVE  InBooks(x, x.parent.kids, A, R) /\ x.idx = w.idx
<1>0. /\ i \in Nat /\ i + 2 =< Len(w.parent.kids)
      /\ p.left.page = Kid(w.parent, i) /\ p.right.page = Kid(w.parent, i + 1)
  BY DEF AtPair
<1>1. PICK w0, x1, x2 :
         /\ w0 = [w EXCEPT !.parent = Modpage(w.parent, i, p.entry)]
         /\ x1 = Adopt1(w0, i, p.left) /\ x2 = Adopt1(x1, i + 1, p.right)
  OBVIOUS
<1>2. x = [x2 EXCEPT !.done = ~(p.left.end > PgSize \/ p.right.end > PgSize)]
  BY <1>1 DEF Adopt
<1>3. PICK ks : ks = w.parent.kids
  OBVIOUS
<1>4. ks \in Seq(Int) /\ Len(ks) \in Nat
  BY <1>3 DEF InBooks, Books, Once
<1>5. InBooks(w0, ks, A, R) /\ w0.parent.kids = ks /\ w0.idx = w.idx
  BY <1>1, <1>3 DEF InBooks, Fields, Modpage
<1>6. i + 1 \in 1 .. Len(ks) /\ i + 2 \in 1 .. Len(ks) /\ i + 2 # i + 1
  BY <1>0, <1>3, <1>4
<1>7. Fields(x1) /\ Fields(x2) /\ x1.made \subseteq x2.made
  <2>1. \A q, j, nd : Fields(q) => Fields(Adopt1(q, j, nd)) /\ q.made \subseteq Adopt1(q, j, nd).made
    <3> TAKE q, j, nd
    <3> HAVE Fields(q)
    <3>1. Reposed(Repos(q, j, nd), q, j, nd)
      BY ReposIs
    <3>2. Adopt1(q, j, nd) \in {q, Repos(q, j, nd)}
      BY DEF Adopt1
    <3> QED  BY <3>1, <3>2 DEF Reposed
  <2>2. Fields(w0)
    BY <1>5 DEF InBooks
  <2> QED  BY <1>1, <2>1, <2>2
<1>8. /\ x.made = x2.made /\ x.idx = x2.idx /\ x.parent = x2.parent /\ x.list2 = x2.list2
      /\ x.disk = x2.disk /\ Fields(x)
  BY <1>2, <1>7 DEF Fields
<1>9. 0 \notin x1.made /\ 0 \notin x2.made
  BY <1>7, <1>8
<1>10. /\ InBooks(x1, x1.parent.kids, A, R) /\ x1.idx = w.idx /\ Len(x1.parent.kids) = Len(ks)
       /\ \A j \in 1 .. Len(ks) : j # i + 1 => x1.parent.kids[j] = ks[j]
  <2>1. p.left.page = Kid(w0.parent, i)
    BY <1>0, <1>3, <1>5 DEF Kid
  <2>2. InBooks(w0, w0.parent.kids, A, R) /\ i + 1 \in 1 .. Len(w0.parent.kids)
    BY <1>5, <1>6
  <2>3. PICK nd : nd = p.left
    OBVIOUS
  <2>4. nd.page = Kid(w0.parent, i) /\ x1 = Adopt1(w0, i, nd) /\ 0 \notin x1.made
    BY ONLY <2>1, <2>3, <1>1, <1>9
  <2>5. OneAdopted(w0, i, x1, A, R)
    BY ONLY <2>2, <2>4, Adopt1Books
  <2> QED  BY <2>5, <1>5 DEF OneAdopted
<1>11. InBooks(x2, x2.parent.kids, A, R) /\ x2.idx = w.idx
  <2>1. PICK j : j = i + 1
    OBVIOUS
  <2>2. j + 1 = i + 2 /\ j + 1 \in 1 .. Len(x1.parent.kids)
    BY <1>0, <1>6, <1>10, <2>1
  <2>3. p.right.page = Kid(x1.parent, j)
    BY <1>0, <1>3, <1>6, <1>10, <2>1, <2>2 DEF Kid
  <2>4. x2 = Adopt1(x1, j, p.right) /\ InBooks(x1, x1.parent.kids, A, R)
    BY <1>1, <1>10, <2>1
  <2>5. PICK nd : nd = p.right
    OBVIOUS
  <2>6. nd.page = Kid(x1.parent, j) /\ x2 = Adopt1(x1, j, nd) /\ 0 \notin x2.made
    BY ONLY <2>3, <2>4, <2>5, <1>9
  <2>7. OneAdopted(x1, j, x2, A, R)
    BY ONLY <2>2, <2>4, <2>6, Adopt1Books
  <2> QED  BY <1>10, <2>7 DEF OneAdopted
<1> QED  BY <1>8, <1>11 DEF InBooks

LEMMA AdoptedBooks ==
    ASSUME NEW w, NEW A, NEW R, InBooks(w, w.parent.kids, A, R),
           NEW i, NEW p, AtPair(w, i, p),
           NEW nd, HasPage(nd),
           NEW x, x = Adopted(Adopt(w, i, p), w.idx, nd), 0 \notin x.made
    PROVE  InRound(x, A, R)
<1>1. PICK a : a = Adopt(w, i, p)
  OBVIOUS
<1>2. Fields(a)
  BY <1>1, AdoptFields DEF InBooks
<1>3. Renamed(x, a, w.idx, nd)
  BY <1>1, <1>2, AdoptedIs
<1>4. 0 \notin a.made
  BY <1>3 DEF Renamed
<1>5. InBooks(a, a.parent.kids, A, R) /\ a.idx = w.idx
  <2>1. InBooks(w, w.parent.kids, A, R) /\ AtPair(w, i, p)
    OBVIOUS
  <2> QED  BY ONLY <1>1, <1>4, <2>1, AdoptBooks
<1>6. x.node.page = Kid(a.parent, w.idx)
  BY <1>3 DEF Renamed, HasPage
<1> QED  BY <1>3, <1>5, <1>6 DEF Renamed, InRound, InBooks

LEMMA MergeBooks ==
    ASSUME NEW w, NEW A, NEW R, InBooks(w, w.parent.kids, A, R),
           NEW i \in Nat, i + 2 =< Len(w.parent.kids), ~w.parent.leaf,
           NEW nd, {nd.page, w.node.page} = {Kid(w.parent, i), Kid(w.parent, i + 1)},
           NEW x, x = Merge(w, i, nd), 0 \notin x.made
    PROVE  InRound(x, A, R)
<1>1. PICK w0, x1 : w0 = [w EXCEPT !.parent = Delpage(w.parent, i)] /\ x1 = Repos(w0, i, nd)
  OBVIOUS
<1>2. x = [x1 EXCEPT !.list2 = Append(@, w.node.page), !.done = TRUE]
  BY <1>1 DEF Merge
<1>3. PICK ks, n : ks = w.parent.kids /\ n = Capture(w0)
  OBVIOUS
<1>4. ks \in Seq(Int) /\ Len(ks) \in Nat /\ Fields(w) /\ "kids" \in DOMAIN w.parent
  BY <1>3 DEF InBooks, Books, Once
<1>5. /\ Fields(w0) /\ w0.list2 = w.list2 /\ w0.made = w.made /\ w0.disk = w.disk
      /\ w0.parent.kids = RemoveAt(ks, i + 2) /\ "kids" \in DOMAIN w0.parent
  BY <1>1, <1>3, <1>4 DEF Fields, Delpage
<1>6. Reposed(x1, w0, i, nd)
  BY <1>1, <1>5, ReposIs
<1>7. /\ Fields(x1) /\ x1.made = w.made \cup {n} /\ DOMAIN w.disk \subseteq DOMAIN x1.disk
      /\ x1.list2 = Append(w.list2, nd.page) /\ "kids" \in DOMAIN x1.parent
      /\ x1.parent.kids = [RemoveAt(ks, i + 2) EXCEPT ![i + 1] = n]
  BY <1>3, <1>5, <1>6 DEF Reposed, Putnode, SetKid
<1>8. /\ Fields(x) /\ x.made = x1.made /\ x.disk = x1.disk /\ x.parent = x1.parent
      /\ x.list2 = Append(Append(w.list2, nd.page), w.node.page) /\ x.done
  BY <1>2, <1>7 DEF Fields
<1>9. n \in Int /\ n \notin A \cup w.made
  <2>1. n \in Int /\ n \notin DOMAIN w0.disk \cup w0.made
    BY <1>3, <1>7, <1>8, CaptureIs
  <2> QED  BY <2>1, <1>5 DEF InBooks
<1>10. Books(x.parent.kids, x.list2, x.made, A, R)
  <2>1. PICK j, a, b, l, m : j = i + 1 /\ a = nd.page /\ b = w.node.page /\ l = w.list2 /\ m = w.made
    OBVIOUS
  <2>2. j \in 1 .. Len(ks) /\ j + 1 \in 1 .. Len(ks) /\ j + 1 = i + 2
    BY <1>3, <1>4, <2>1
  <2>3. {a, b} = {ks[j], ks[j + 1]}
    <3>1. (i + 1) + 1 = i + 2
      OBVIOUS
    <3> QED  BY <1>3, <2>1, <2>2, <3>1 DEF Kid
  <2>4. Books(ks, l, m, A, R) /\ n \notin A \cup m
    BY <1>3, <1>9, <2>1 DEF InBooks
  <2>5. Books([RemoveAt(ks, j + 1) EXCEPT ![j] = n], Append(Append(l, a), b), m \cup {n}, A, R)
    BY ONLY <1>9, <2>2, <2>3, <2>4, BooksMerge
  <2> QED  BY <1>7, <1>8, <2>1, <2>2, <2>5
<1>11. A \subseteq DOMAIN x.disk
  BY <1>7, <1>8 DEF InBooks
<1> QED  BY <1>7, <1>8, <1>10, <1>11 DEF InRound, InBooks

(* The two halves of _spread().                                            *)
LEMMA SpreadLeftBooks ==
    ASSUME NEW w, NEW A, NEW R, InRound(w, A, R), HasPage(w.node), ~w.parent.leaf, ~w.done,
           w.idx \in Nat, w.idx > 0, w.idx + 1 =< Len(w.parent.kids),
           NEW x, x = SpreadLeft(w), ~x.bad, 0 \notin x.made
    PROVE  InRound(x, A, R)
<1>1. PICK i, nd : i = w.idx - 1 /\ nd = w.node
  OBVIOUS
<1>2. i \in Nat /\ i + 1 = w.idx /\ i + 2 = w.idx + 1 /\ i + 2 =< Len(w.parent.kids)
  BY <1>1
<1>3. PICK s, t : s = Getnode(w.disk, Kid(w.parent, i)) /\ t = ReachLeft(nd, s, Entry(w.parent, i))
  OBVIOUS
<1>4. Fields(w) /\ InBooks(w, w.parent.kids, A, R) /\ nd.page = Kid(w.parent, i + 1) /\ HasPage(nd)
  BY <1>1, <1>2 DEF InRound, InBooks
<1>5. Chkpage(w.disk[Kid(w.parent, i)])
  <2> SUFFICES ASSUME ~Chkpage(w.disk[Kid(w.parent, i)]) PROVE FALSE
    OBVIOUS
  <2>1. x = [w EXCEPT !.bad = TRUE]
    BY <1>1 DEF SpreadLeft
  <2> QED  BY <1>4, <2>1 DEF Fields
<1>6. x = JoinLeft(w, i, t)
  BY <1>1, <1>3, <1>5 DEF SpreadLeft
<1>7. HasPage(t) /\ t.page = Kid(w.parent, i)
  <2>1. HasPage(s) /\ s.page = Kid(w.parent, i)
    BY <1>3 DEF Getnode, HasPage
  <2>2. \A j, e, l, m : Keeps(SetKid(Addpage(s, j, e), l, m), s)
    BY <2>1, NodeKeeps DEF Keeps
  <2>3. Keeps(t, s)
    BY <1>3, <2>1, <2>2 DEF ReachLeft, Keeps
  <2> QED  BY <2>1, <2>3 DEF Keeps
<1>8. CASE nd.end + t.end > PgSize
  <2>1. x = ShareLeft(w, i, Redistrib(t, nd))
    BY <1>1, <1>6, <1>8 DEF JoinLeft
  <2>2. CASE Redistrib(t, nd).moved = 0
    BY <2>1, <2>2 DEF ShareLeft
  <2>3. CASE Redistrib(t, nd).moved # 0
    <3>1. PICK p : p = Promote(Redistrib(t, nd))
      OBVIOUS
    <3>2. PairKeeps(p, t, nd)
      BY <1>4, <1>7, <3>1, ShareKeeps
    <3>3. AtPair(w, i, p) /\ HasPage(p.right)
      BY <1>2, <1>4, <1>7, <3>2 DEF AtPair, PairKeeps, Keeps
    <3>4. x = Adopted(Adopt(w, i, p), w.idx, p.right)
      BY <1>2, <2>1, <2>3, <3>1 DEF ShareLeft, AdoptLeft
    <3> QED  BY ONLY <1>4, <3>3, <3>4, 0 \notin x.made, AdoptedBooks
  <2> QED  BY <2>2, <2>3
<1>9. CASE ~(nd.end + t.end > PgSize)
  <2>1. PICK m : m = Moveleft(t, nd, Count(nd)).left
    OBVIOUS
  <2>2. x = Merge(w, i, m)
    BY <1>1, <1>6, <1>9, <2>1 DEF JoinLeft
  <2>3. m.page = Kid(w.parent, i)
    BY <1>4, <1>7, <2>1, MoveKeeps DEF PairKeeps, Keeps
  <2>4. {m.page, w.node.page} = {Kid(w.parent, i), Kid(w.parent, i + 1)}
    BY <1>1, <1>4, <2>3
  <2>5. i \in Nat /\ i + 2 =< Len(w.parent.kids) /\ ~w.parent.leaf
    BY <1>2
  <2> QED  BY ONLY <1>4, <2>2, <2>4, <2>5, 0 \notin x.made, MergeBooks
<1> QED  BY <1>8, <1>9

LEMMA SpreadRightBooks ==
    ASSUME NEW w, NEW A, NEW R, InRound(w, A, R), HasPage(w.node), ~w.parent.leaf, ~w.done,
           w.idx \in Nat, w.idx + 2 =< Len(w.parent.kids),
           NEW x, x = SpreadRight(w), ~x.bad, 0 \notin x.made
    PROVE  InRound(x, A, R)
<1>1. PICK i, nd : i = w.idx /\ nd = w.node
  OBVIOUS
<1>2. i \in Nat /\ i + 2 =< Len(w.parent.kids)
  BY <1>1
<1>3. PICK s, t : s = Getnode(w.disk, Kid(w.parent, i + 1)) /\ t = ReachRight(nd, s, Entry(w.parent, i))
  OBVIOUS
<1>4. Fields(w) /\ InBooks(w, w.parent.kids, A, R) /\ nd.page = Kid(w.parent, i) /\ HasPage(nd)
  BY <1>1, <1>2 DEF InRound, InBooks
<1>5. Chkpage(w.disk[Kid(w.parent, i + 1)])
  <2> SUFFICES ASSUME ~Chkpage(w.disk[Kid(w.parent, i + 1)]) PROVE FALSE
    OBVIOUS
  <2>1. x = [w EXCEPT !.bad = TRUE]
    BY <1>1 DEF SpreadRight
  <2> QED  BY <1>4, <2>1 DEF Fields
<1>6. x = JoinRight(w, i, t)
  BY <1>1, <1>3, <1>5 DEF SpreadRight
<1>7. HasPage(t) /\ t.page = Kid(w.parent, i + 1)
  <2>1. HasPage(s) /\ s.page = Kid(w.parent, i + 1)
    BY <1>3 DEF Getnode, HasPage
  <2>2. \A j, e, l, m : Keeps(SetKid(Addpage(s, j, e), l, m), s)
    BY <2>1, NodeKeeps DEF Keeps
  <2>3. Keeps(t, s)
    BY <1>3, <2>1, <2>2 DEF ReachRight, Keeps
  <2> QED  BY <2>1, <2>3 DEF Keeps
<1>8. CASE nd.end + t.end > PgSize
  <2>1. x = ShareRight(w, i, Redistrib(nd, t))
    BY <1>1, <1>6, <1>8 DEF JoinRight
  <2>2. CASE Redistrib(nd, t).moved = 0
    BY <2>1, <2>2 DEF ShareRight
  <2>3. CASE Redistrib(nd, t).moved # 0
    <3>1. PICK p : p = Promote(Redistrib(nd, t))
      OBVIOUS
    <3>2. PairKeeps(p, nd, t)
      BY <1>4, <1>7, <3>1, ShareKeeps
    <3>3. AtPair(w, i, p) /\ HasPage(p.left)
      BY <1>2, <1>4, <1>7, <3>2 DEF AtPair, PairKeeps, Keeps
    <3>4. x = Adopted(Adopt(w, i, p), w.idx, p.left)
      BY <1>1, <2>1, <2>3, <3>1 DEF ShareRight, AdoptRight
    <3> QED  BY ONLY <1>4, <3>3, <3>4, 0 \notin x.made, AdoptedBooks
  <2> QED  BY <2>2, <2>3
<1>9. CASE ~(nd.end + t.end > PgSize)
  <2>1. PICK m : m = Moveright(nd, t, Count(nd)).right
    OBVIOUS
  <2>2. x = Merge(w, i, m)
    BY <1>1, <1>6, <1>9, <2>1 DEF JoinRight
  <2>3. m.page = Kid(w.parent, i + 1)
    BY <1>4, <1>7, <2>1, MoveKeeps DEF PairKeeps, Keeps
  <2>4. {m.page, w.node.page} = {Kid(w.parent, i), Kid(w.parent, i + 1)}
    BY <1>1, <1>4, <2>3
  <2>5. i \in Nat /\ i + 2 =< Len(w.parent.kids) /\ ~w.parent.leaf
    BY <1>2
  <2> QED  BY ONLY <1>4, <2>2, <2>4, <2>5, 0 \notin x.made, MergeBooks
<1> QED  BY <1>8, <1>9

(* _spread(). *)
LEMMA SpreadBooks ==
    ASSUME NEW w, NEW z, NEW M, NEW v, Ready(w, z, M, v), NEW A, NEW R, InRound(w, A, R),
           NEW x, x = Spread(w), ~x.bad, 0 \notin x.made
    PROVE  InRound(x, A, R)
<1>1. PICK w1 : w1 = IF w.idx > 0 THEN SpreadLeft(w) ELSE w
  OBVIOUS
<1>2. x = ThenRight(w1)
  BY <1>1 DEF Spread
<1>3. Fields(w)
  BY DEF Ready, Going
<1>4. Fields(w1)
  BY <1>1, <1>3, SpreadGrows DEF Grows
<1>5. ~w1.bad /\ 0 \notin w1.made
  <2>1. CASE ~w1.done /\ ~w1.bad /\ Count(w1.parent) # w1.idx
    <3>1. x = SpreadRight(w1)
      BY <1>2, <2>1 DEF ThenRight
    <3> QED  BY <2>1, <3>1, <1>4, SpreadGrows DEF Grows
  <2>2. CASE ~(~w1.done /\ ~w1.bad /\ Count(w1.parent) # w1.idx)
    BY <1>2, <2>2 DEF ThenRight
  <2> QED  BY <2>1, <2>2
<1>6. \A q, y, N : Ready(q, y, N, v) =>
          /\ HasPage(q.node) /\ ~q.parent.leaf /\ ~q.done /\ q.idx \in Nat
          /\ q.idx + 1 =< Len(q.parent.kids)
          /\ Count(q.parent) # q.idx => q.idx + 2 =< Len(q.parent.kids)
  <2> TAKE q, y, N
  <2> HAVE Ready(q, y, N, v)
  <2>1. /\ Par(y, q.parent, N, v, {q.idx + 1}) /\ q.idx \in 0 .. Len(q.parent.ents) /\ ~q.done
        /\ q.node \in NodeType
    BY DEF Ready, Going, Fit
  <2>2. Len(q.parent.ents) \in Nat /\ Len(q.parent.kids) = Len(q.parent.ents) + 1 /\ ~q.parent.leaf
    BY <2>1, ParIs DEF Par
  <2>3. HasPage(q.node)
    BY <2>1 DEF NodeType, HasPage
  <2> QED  BY <2>1, <2>2, <2>3 DEF Count
<1>7. InRound(w1, A, R)
  <2>1. CASE w.idx > 0
    <3>1. w1 = SpreadLeft(w)
      BY <1>1, <2>1
    <3> QED  BY <1>5, <1>6, <2>1, <3>1, SpreadLeftBooks
  <2>2. CASE ~(w.idx > 0)
    BY <1>1, <2>2
  <2> QED  BY <2>1, <2>2
<1>8. CASE ~w1.done /\ Count(w1.parent) # w1.idx
  <2>1. x = SpreadRight(w1)
    BY <1>2, <1>5, <1>8 DEF ThenRight
  <2>2. \E y, N : Outcome(w, z, w1, y, N, v)
    <3>1. CASE w.idx > 0
      BY <1>1, <1>5, <3>1, SpreadLeftGood
    <3>2. CASE ~(w.idx > 0)
      BY <1>1, <3>2, OutcomeSame
    <3> QED  BY <3>1, <3>2
  <2>3. \E y, N : Ready(w1, y, N, v)
    BY <1>8, <2>2 DEF Outcome
  <2> QED  BY <1>6, <1>7, <1>8, <2>1, <2>3, SpreadRightBooks
<1>9. CASE ~(~w1.done /\ Count(w1.parent) # w1.idx)
  BY <1>2, <1>7, <1>9 DEF ThenRight
<1> QED  BY <1>8, <1>9

(* _split(): the node's own page is where it will be placed.               *)
Hole(w) == [w.parent.kids EXCEPT ![w.idx + 1] = w.node.page]
InSplit(w, A, R) ==
    /\ InBooks(w, Hole(w), A, R) /\ w.parent.kids \in Seq(Int) /\ ~w.parent.leaf /\ HasPage(w.node)
    /\ w.idx \in Nat /\ w.idx + 1 \in 1 .. Len(w.parent.kids)

LEMMA PutIs ==
    ASSUME NEW s \in Seq(Int), NEW i \in 1 .. Len(s), NEW n \in Int, NEW t, t = [s EXCEPT ![i] = n]
    PROVE  /\ t \in Seq(Int) /\ Len(t) = Len(s)
           /\ \A j \in 1 .. Len(s) : t[j] = IF j = i THEN n ELSE s[j]
<1>1. Len(s) \in Nat /\ DOMAIN s = 1 .. Len(s)
  OBVIOUS
<1> QED  BY <1>1

LEMMA InsertHole ==
    ASSUME NEW s \in Seq(Int), NEW i \in 1 .. Len(s), NEW c \in Int, NEW n \in Int
    PROVE  [[InsertAt(s, i + 1, s[i]) EXCEPT ![i + 1] = n] EXCEPT ![i] = c]
           = InsertAt([s EXCEPT ![i] = c], i + 1, n)
<1>1. PICK k, e, t : k = i + 1 /\ e = s[i] /\ t = [s EXCEPT ![i] = c]
  OBVIOUS
<1>2. /\ Len(s) \in Nat /\ k \in 1 .. Len(s) + 1 /\ e \in Int
      /\ t \in Seq(Int) /\ Len(t) = Len(s) /\ k \in 1 .. Len(t) + 1
  BY <1>1, PutIs
<1>3. \A j \in 1 .. Len(s) : t[j] = IF j = i THEN c ELSE s[j]
  BY <1>1, PutIs
<1>4. PICK a, b : a = InsertAt(s, k, e) /\ b = InsertAt(t, k, n)
  OBVIOUS
<1>5. /\ a \in Seq(Int) /\ Len(a) = Len(s) + 1
      /\ \A j \in 1 .. Len(s) + 1 : a[j] = IF j < k THEN s[j] ELSE IF j = k THEN e ELSE s[j - 1]
  <2>1. PICK S : S = Int
    OBVIOUS
  <2>2. s \in Seq(S) /\ k \in 1 .. Len(s) + 1 /\ e \in S
    BY <1>2, <2>1
  <2>3. /\ InsertAt(s, k, e) \in Seq(S) /\ Len(InsertAt(s, k, e)) = Len(s) + 1
        /\ \A j \in 1 .. Len(s) + 1 :
              InsertAt(s, k, e)[j] = IF j < k THEN s[j] ELSE IF j = k THEN e ELSE s[j - 1]
    BY ONLY <2>2, InsertAtIs
  <2> QED  BY <1>4, <2>1, <2>3
<1>6. /\ b \in Seq(Int) /\ Len(b) = Len(t) + 1
      /\ \A j \in 1 .. Len(t) + 1 : b[j] = IF j < k THEN t[j] ELSE IF j = k THEN n ELSE t[j - 1]
  <2>1. PICK S : S = Int
    OBVIOUS
  <2>2. t \in Seq(S) /\ k \in 1 .. Len(t) + 1 /\ n \in S
    BY <1>2, <2>1
  <2>3. /\ InsertAt(t, k, n) \in Seq(S) /\ Len(InsertAt(t, k, n)) = Len(t) + 1
        /\ \A j \in 1 .. Len(t) + 1 :
              InsertAt(t, k, n)[j] = IF j < k THEN t[j] ELSE IF j = k THEN n ELSE t[j - 1]
    BY ONLY <2>2, InsertAtIs
  <2> QED  BY <1>4, <2>1, <2>3
<1>7. PICK f, g : f = [a EXCEPT ![k] = n] /\ g = [f EXCEPT ![i] = c]
  OBVIOUS
<1>8. k \in 1 .. Len(a) /\ i \in 1 .. Len(a)
  BY <1>1, <1>2, <1>5
<1>9. f \in Seq(Int) /\ Len(f) = Len(s) + 1 /\ \A j \in 1 .. Len(s) + 1 : f[j] = IF j = k THEN n ELSE a[j]
  BY <1>5, <1>7, <1>8, PutIs
<1>10. g \in Seq(Int) /\ Len(g) = Len(s) + 1 /\ \A j \in 1 .. Len(s) + 1 : g[j] = IF j = i THEN c ELSE f[j]
  <2>1. f \in Seq(Int) /\ i \in 1 .. Len(f) /\ c \in Int /\ g = [f EXCEPT ![i] = c] /\ Len(f) = Len(s) + 1
    BY <1>5, <1>7, <1>8, <1>9
  <2>2. /\ g \in Seq(Int) /\ Len(g) = Len(f)
        /\ \A j \in 1 .. Len(f) : g[j] = IF j = i THEN c ELSE f[j]
    BY ONLY <2>1, PutIs
  <2> QED  BY <2>1, <2>2
<1>11. ASSUME NEW j \in 1 .. Len(s) + 1 PROVE g[j] = b[j]
  <2>1. g[j] = (IF j = i THEN c ELSE f[j]) /\ f[j] = (IF j = k THEN n ELSE a[j])
        /\ a[j] = (IF j < k THEN s[j] ELSE IF j = k THEN e ELSE s[j - 1])
        /\ b[j] = (IF j < k THEN t[j] ELSE IF j = k THEN n ELSE t[j - 1])
    BY <1>2, <1>5, <1>6, <1>9, <1>10
  <2>2. CASE j < k
    <3>1. j \in 1 .. Len(s) /\ j # k
      BY <1>2, <2>2
    <3> QED  BY <2>1, <2>2, <3>1, <1>3
  <2>3. CASE j = k
    <3>1. j # i /\ ~(j < k)
      BY <1>1, <1>2, <2>3
    <3> QED  BY <2>1, <2>3, <3>1
  <2>4. CASE j > k
    <3>1. j # i /\ ~(j < k) /\ j # k /\ j - 1 \in 1 .. Len(s) /\ j - 1 # i
      BY <1>1, <1>2, <2>4
    <3> QED  BY <2>1, <3>1, <1>3
  <2> QED  BY <1>2, <2>2, <2>3, <2>4
<1>12. g = b
  <2>1. b \in Seq(Int) /\ Len(g) = Len(b) /\ \A j \in 1 .. Len(g) : g[j] = b[j]
    BY <1>1, <1>2, <1>6, <1>10, <1>11
  <2> QED  BY ONLY <2>1, <1>10, SeqEqual
<1> QED  BY <1>1, <1>4, <1>7, <1>12

LEMMA SplitOnceBooks ==
    ASSUME NEW w, NEW A, NEW R, InSplit(w, A, R), NEW x, x = SplitOnce(w), 0 \notin x.made
    PROVE  InSplit(x, A, R)
<1>1. PICK n, new, p, ks, i, c : /\ n = Capture(w) /\ new = Freshnode(n, w.node.leaf)
                                 /\ p = SplitTail(w.node, new) /\ ks = w.parent.kids
                                 /\ i = w.idx + 1 /\ c = w.node.page
  OBVIOUS
<1>2. x = SplitOff(w, p)
  BY <1>1 DEF SplitOnce
<1>3. /\ Fields(w) /\ InBooks(w, Hole(w), A, R) /\ ks \in Seq(Int) /\ ~w.parent.leaf /\ HasPage(w.node)
      /\ w.idx \in Nat /\ i \in 1 .. Len(ks) /\ "kids" \in DOMAIN w.parent
  BY <1>1 DEF InSplit, InBooks
<1>4. Keeps(p.left, w.node) /\ p.right.page = n
  <2>1. HasPage(new) /\ new.page = n
    BY <1>1 DEF Freshnode, HasPage
  <2>2. PICK k : p = Promote(Moveright(w.node, new, k))
    BY <1>1 DEF SplitTail
  <2>3. PICK m : m = Moveright(w.node, new, k)
    OBVIOUS
  <2>4. PairKeeps(m, w.node, new)
    BY <1>3, <2>1, <2>3, MoveKeeps
  <2>5. p.right = m.right /\ (p.left = m.left \/ p.left = Delpage(m.left, Count(m.left) - 1))
    BY <2>2, <2>3 DEF Promote
  <2>6. Keeps(p.left, w.node)
    BY <2>4, <2>5, NodeKeeps DEF PairKeeps, Keeps
  <2> QED  BY <2>1, <2>4, <2>5, <2>6 DEF PairKeeps, Keeps
<1>5. /\ Fields(x) /\ x.parent = SetKid(Addpage(w.parent, w.idx, p.entry), w.idx + 1, n)
      /\ x.node = p.left /\ DOMAIN w.disk \subseteq DOMAIN x.disk /\ x.made = w.made \cup {n}
      /\ x.list2 = w.list2 /\ x.idx = w.idx
  BY <1>2, <1>3, <1>4 DEF SplitOff, Fields, Putnode
<1>6. n \in Int /\ n \notin A \cup w.made
  <2>1. n \in Int /\ n \notin DOMAIN w.disk \cup w.made
    BY <1>1, <1>5, CaptureIs
  <2> QED  BY <2>1, <1>3 DEF InBooks
<1>7. /\ "kids" \in DOMAIN x.parent /\ ~x.parent.leaf
      /\ x.parent.kids = [InsertAt(ks, i + 1, ks[i]) EXCEPT ![i + 1] = n]
  <2>1. PICK q : q = Addpage(w.parent, w.idx, p.entry)
    OBVIOUS
  <2>2. w.idx + 2 = i + 1 /\ w.idx + 1 = i
    BY <1>1, <1>3
  <2>3. q.kids = InsertAt(ks, i + 1, ks[i]) /\ "kids" \in DOMAIN q /\ q.leaf = w.parent.leaf
    BY <1>1, <1>3, <2>1, <2>2 DEF Addpage
  <2>4. x.parent = [q EXCEPT !.kids[i + 1] = n]
    BY <1>5, <2>1, <2>2 DEF SetKid
  <2> QED  BY <2>3, <2>4, <1>3
<1>8. Hole(w) = [ks EXCEPT ![i] = c] /\ Hole(x) = [x.parent.kids EXCEPT ![i] = c]
  BY <1>1, <1>4, <1>5 DEF Hole, Keeps
<1>9. c \in Int
  <2>1. Hole(w) \in Seq(Int)
    BY <1>3 DEF InBooks, Books, Once
  <2> QED  BY <2>1, <1>3, <1>8
<1>10. Hole(x) = InsertAt(Hole(w), i + 1, n)
  <2>1. Hole(x) = [[InsertAt(ks, i + 1, ks[i]) EXCEPT ![i + 1] = n] EXCEPT ![i] = c]
    BY <1>7, <1>8
  <2>2. ks \in Seq(Int) /\ i \in 1 .. Len(ks) /\ c \in Int /\ n \in Int
    BY <1>3, <1>6, <1>9
  <2>3. [[InsertAt(ks, i + 1, ks[i]) EXCEPT ![i + 1] = n] EXCEPT ![i] = c]
        = InsertAt([ks EXCEPT ![i] = c], i + 1, n)
    BY ONLY <2>2, InsertHole
  <2> QED  BY ONLY <1>8, <2>1, <2>3
<1>11. Books(Hole(x), x.list2, x.made, A, R)
  <2>1. i \in 1 .. Len(Hole(w))
    BY <1>3, <1>8, <1>9
  <2>2. Books(Hole(w), w.list2, w.made, A, R)
    BY <1>3 DEF InBooks
  <2>3. Books(InsertAt(Hole(w), i + 1, n), w.list2, w.made \cup {n}, A, R)
    BY <1>6, <2>1, <2>2, BooksInsert
  <2> QED  BY <2>3, <1>5, <1>10
<1>12. x.parent.kids \in Seq(Int) /\ Len(x.parent.kids) = Len(ks) + 1
  <2>1. PICK e, k, a : e = ks[i] /\ k = i + 1 /\ a = InsertAt(ks, k, e)
    OBVIOUS
  <2>2. ks \in Seq(Int) /\ k \in 1 .. Len(ks) + 1 /\ e \in Int
    BY <1>3, <2>1
  <2>3. a \in Seq(Int) /\ Len(a) = Len(ks) + 1
    <3>1. PICK S : S = Int
      OBVIOUS
    <3>2. ks \in Seq(S) /\ k \in 1 .. Len(ks) + 1 /\ e \in S
      BY <2>2, <3>1
    <3>3. InsertAt(ks, k, e) \in Seq(S) /\ Len(InsertAt(ks, k, e)) = Len(ks) + 1
      BY ONLY <3>2, InsertAtIs
    <3> QED  BY <2>1, <3>1, <3>3
  <2>4. x.parent.kids = [a EXCEPT ![k] = n] /\ k \in 1 .. Len(a)
    BY <1>7, <2>1, <2>2, <2>3
  <2> QED  BY <2>3, <2>4, <1>6, PutIs
<1>13. InBooks(x, Hole(x), A, R)
  BY <1>3, <1>5, <1>7, <1>11 DEF InBooks
<1>14. x.idx + 1 \in 1 .. Len(x.parent.kids) /\ x.idx \in Nat
  BY <1>1, <1>3, <1>5, <1>12
<1> QED  BY <1>4, <1>5, <1>7, <1>12, <1>13, <1>14 DEF InSplit, Keeps

LEMMA ReposNodeBooks ==
    ASSUME NEW w, NEW A, NEW R, InSplit(w, A, R), NEW x, x = ReposNode(w), 0 \notin x.made
    PROVE  InBooks(x, x.parent.kids, A, R)
<1>1. PICK ks, i, c, n : /\ ks = w.parent.kids /\ i = w.idx + 1 /\ c = w.node.page /\ n = Capture(w)
  OBVIOUS
<1>2. x = Repos(w, w.idx, w.node)
  BY DEF ReposNode
<1>3. InBooks(w, Hole(w), A, R) /\ ks \in Seq(Int) /\ i \in 1 .. Len(ks) /\ Hole(w) = [ks EXCEPT ![i] = c]
  BY <1>1 DEF InSplit, Hole
<1>4. w.idx + 1 \in 1 .. Len(Hole(w)) /\ w.node.page = Hole(w)[w.idx + 1]
  BY <1>1, <1>3
<1>5. /\ InBooks(x, [Hole(w) EXCEPT ![w.idx + 1] = Capture(w)], A, R)
      /\ x.parent.kids = [w.parent.kids EXCEPT ![w.idx + 1] = Capture(w)]
  <2>1. PICK j, nd, hs : j = w.idx /\ nd = w.node /\ hs = Hole(w)
    OBVIOUS
  <2>2. InBooks(w, hs, A, R) /\ j + 1 \in 1 .. Len(hs) /\ nd.page = hs[j + 1] /\ x = Repos(w, j, nd)
        /\ 0 \notin x.made
    BY <1>2, <1>3, <1>4, <2>1
  <2>3. Posed(w, hs, A, R, j, x)
    BY ONLY <2>2, ReposBooks
  <2> QED  BY <2>1, <2>3 DEF Posed
<1>6. [Hole(w) EXCEPT ![i] = n] = [ks EXCEPT ![i] = n]
  BY <1>3
<1> QED  BY <1>1, <1>5, <1>6

LEMMA SplitBooks ==
    ASSUME NEW w, NEW A, NEW R, InSplit(w, A, R), NEW x, x = Split(w), 0 \notin x.made
    PROVE  InBooks(x, x.parent.kids, A, R)
<1>1. PICK w1, w2 : w1 = SplitOnce(w) /\ w2 = SplitAgain(w1)
  OBVIOUS
<1>2. x = ReposNode(w2) /\ w2 \in {w1, SplitOnce(w1)}
  BY <1>1 DEF Split, SplitAgain
<1>3. \A q : Fields(q) => Fields(SplitOnce(q)) /\ q.made \subseteq SplitOnce(q).made
  BY DEF SplitOnce, SplitOff, Fields
<1>4. Fields(w)
  BY DEF InSplit, InBooks
<1>5. Fields(w1) /\ Fields(w2) /\ w1.made \subseteq w2.made
  BY <1>1, <1>2, <1>3, <1>4
<1>6. w2.made \subseteq x.made
  <2>1. Reposed(x, w2, w2.idx, w2.node)
    BY <1>2, <1>5, ReposIs DEF ReposNode
  <2> QED  BY <2>1 DEF Reposed
<1>7. InSplit(w1, A, R)
  BY <1>1, <1>5, <1>6, SplitOnceBooks
<1>8. InSplit(w2, A, R)
  <2>1. CASE w2 = w1
    BY <1>7, <2>1
  <2>2. CASE w2 = SplitOnce(w1)
    BY <1>6, <1>7, <2>2, SplitOnceBooks
  <2> QED  BY <1>2, <2>1, <2>2
<1> QED  BY <1>2, <1>8, ReposNodeBooks

-----------------------------------------------------------------------------
(* A round from w to x, by way of s, what _spread() leaves or w itself.    *)
Rnd(w, s, x) ==
    /\ s \in {w, Spread(w)} /\ ~s.bad /\ 0 \notin s.made /\ 0 \notin x.made
    /\ \/ s.done /\ x = s
       \/ ~s.done /\ s.node.end > PgSize /\ x = Split(s)

LEMMA RoundGoing ==
    ASSUME NEW w, NEW z, NEW M, NEW v, Ready(w, z, M, v), NEW s, NEW x, Rnd(w, s, x)
    PROVE  \E y, N : Going(x, y, N, v, {}) /\ Later(w, z, x, y, v.h - 1)
<1>1. PICK y1, N1 : Outcome(w, z, s, y1, N1, v)
  <2>1. CASE s = w
    BY <2>1, OutcomeSame
  <2>2. CASE s = Spread(w)
    BY <2>2, SpreadGood DEF Rnd
  <2> QED  BY <2>1, <2>2 DEF Rnd
<1>2. CASE s.done
  BY <1>1, <1>2 DEF Outcome, Rnd
<1>3. CASE ~s.done
  <2>1. Ready(s, y1, N1, v) /\ Later(w, z, s, y1, v.h - 1)
    BY <1>1, <1>3 DEF Outcome
  <2>2. s.node.end > PgSize /\ x = Split(s) /\ 0 \notin x.made
    BY <1>3 DEF Rnd
  <2>3. PICK y, N : Going(x, y, N, v, {}) /\ Later(s, y1, x, y, v.h - 1)
    BY ONLY <2>1, <2>2, SplitGood
  <2>4. Later(w, z, x, y, v.h - 1)
    BY <2>1, <2>3, LaterThen
  <2> QED  BY <2>3, <2>4
<1> QED  BY <1>2, <1>3

(* The pages two levels below the parent, before and after.                *)
Has(pg, q) == \E j \in 1 .. Len(pg.kids) : q = pg.kids[j]
Old(w, j) == IF j = w.idx + 1 THEN w.node ELSE w.disk[w.parent.kids[j]]
OldBelow(w, q) == \E j \in 1 .. Len(w.parent.kids) : Has(Old(w, j), q)
NewBelow(x, q) == \E j \in 1 .. Len(x.parent.kids) : Has(x.disk[x.parent.kids[j]], q)

LEMMA OldIs ==
    ASSUME NEW w, NEW z, NEW M, NEW v, Ready(w, z, M, v)
    PROVE  /\ \A j \in 1 .. Len(w.parent.kids) : Sound(z, Old(w, j), M[j]) /\ M[j].h = v.h - 1
           /\ \A j \in 1 .. Len(w.parent.kids) : j # w.idx + 1 =>
                 w.parent.kids[j] \in DOMAIN z /\ z[w.parent.kids[j]] = M[j]
           /\ v.h \in Nat /\ v.h > 1 /\ v \in Label
<1>1. /\ Trees(w.disk, z) /\ Par(z, w.parent, M, v, {w.idx + 1}) /\ Sound(z, w.node, M[w.idx + 1])
  BY DEF Ready, Going
<1>2. \A j \in 1 .. Len(w.parent.kids) : j # w.idx + 1 =>
          w.parent.kids[j] \in DOMAIN z /\ z[w.parent.kids[j]] = M[j]
  BY <1>1 DEF Par, Linked
<1>3. v \in Label /\ v.h \in Nat
  BY <1>1, LabelIs DEF Par
<1>4. v.h > 1 /\ Len(w.parent.kids) = Len(w.parent.ents) + 1
      /\ \A j \in 1 .. Len(w.parent.ents) + 1 : M[j].h = v.h - 1
  BY <1>1, ParIs
<1>5. ASSUME NEW j \in 1 .. Len(w.parent.kids) PROVE Sound(z, Old(w, j), M[j])
  <2>1. CASE j = w.idx + 1
    BY <1>1, <2>1 DEF Old
  <2>2. CASE j # w.idx + 1
    <3>1. Old(w, j) = w.disk[w.parent.kids[j]]
      BY <2>2 DEF Old
    <3> QED  BY <1>1, <1>2, <2>2, <3>1 DEF Trees
  <2> QED  BY <2>1, <2>2
<1> QED  BY <1>2, <1>3, <1>4, <1>5

LEMMA HasIs ==
    ASSUME NEW z, NEW pg, NEW v, Sound(z, pg, v), NEW q, Has(pg, q)
    PROVE  /\ IsIndex(z, pg, v) /\ q \in DOMAIN z /\ z[q].h = v.h - 1 /\ z[q] \in Label
           /\ \A k \in Nat : Within(z[q], k) =>
                 Within(v, k) /\ q = pg.kids[ChildIndex(pg.ents, k) + 1]
<1>1. ~pg.leaf
  <2> SUFFICES ASSUME pg.leaf PROVE FALSE
    OBVIOUS
  <2>1. pg.kids = <<>> /\ Len(<<>>) = 0
    BY DEF Sound
  <2> QED  BY <2>1 DEF Has
<1>2. IsIndex(z, pg, v)
  BY <1>1, IndexIs
<1>3. PICK j \in 1 .. Len(pg.kids) : q = pg.kids[j]
  BY DEF Has
<1> QED  BY <1>2, <1>3 DEF IsIndex

LEMMA BelowLabel ==
    ASSUME NEW w, NEW z, NEW M, NEW v, Ready(w, z, M, v), NEW q, OldBelow(w, q)
    PROVE  q \in DOMAIN z /\ z[q].h = v.h - 2
<1>1. PICK j \in 1 .. Len(w.parent.kids) : Has(Old(w, j), q)
  BY DEF OldBelow
<1>2. Sound(z, Old(w, j), M[j]) /\ M[j].h = v.h - 1 /\ v.h \in Nat
  BY OldIs
<1>3. q \in DOMAIN z /\ z[q].h = M[j].h - 1
  BY <1>1, <1>2, HasIs
<1> QED  BY <1>2, <1>3

(* The labels of those pages, of the siblings and of what is lower.        *)
Low(w, z, h) ==
    {m \in DOMAIN z : \/ z[m].h < h - 2 \/ OldBelow(w, m)
                      \/ \E j \in 1 .. Len(w.parent.kids) : j # w.idx + 1 /\ m = w.parent.kids[j]}

LEMMA LowReady ==
    ASSUME NEW w, NEW z, NEW M, NEW v, Ready(w, z, M, v), NEW r, r = Within1(z, Low(w, z, v.h))
    PROVE  Ready(w, r, M, v)
<1>1. DOMAIN r = Low(w, z, v.h) /\ DOMAIN r \subseteq DOMAIN z /\ \A m \in DOMAIN r : r[m] = z[m]
  BY DEF Within1, Low
<1>2. /\ \A j \in 1 .. Len(w.parent.kids) : Sound(z, Old(w, j), M[j]) /\ M[j].h = v.h - 1
      /\ \A j \in 1 .. Len(w.parent.kids) : j # w.idx + 1 =>
            w.parent.kids[j] \in DOMAIN z /\ z[w.parent.kids[j]] = M[j]
      /\ v.h \in Nat /\ v.h > 1
  BY OldIs
<1>3. \A q : OldBelow(w, q) => q \in DOMAIN r /\ z[q].h = v.h - 2
  BY <1>1, BelowLabel DEF Low
<1>4. ASSUME NEW pg, NEW u, Sound(z, pg, u), \A q : Has(pg, q) => q \in DOMAIN r
      PROVE  Sound(r, pg, u)
  <2>1. \A j \in 1 .. Len(pg.kids) : pg.kids[j] \in DOMAIN r /\ r[pg.kids[j]] = z[pg.kids[j]]
    BY <1>1, <1>4 DEF Has
  <2> QED  BY <1>4, <2>1, SoundKids
<1>5. ASSUME NEW m \in DOMAIN r PROVE m \in DOMAIN w.disk /\ Sound(r, w.disk[m], r[m])
  <2>1. m \in DOMAIN w.disk /\ Sound(z, w.disk[m], z[m]) /\ r[m] = z[m]
    BY <1>1, <1>5 DEF Ready, Going, Trees
  <2>2. ASSUME NEW q, Has(w.disk[m], q) PROVE q \in DOMAIN r
    <3>1. q \in DOMAIN z /\ z[q].h = z[m].h - 1 /\ z[m].h > 1
      BY <2>1, <2>2, HasIs DEF IsIndex
    <3>2. z[m].h \in Nat
      BY <2>1, LabelIs DEF Sound
    <3>3. CASE z[m].h < v.h - 2 \/ OldBelow(w, m)
      <4>1. z[q].h < v.h - 2
        BY <1>2, <1>3, <3>1, <3>2, <3>3
      <4> QED  BY <1>1, <3>1, <4>1 DEF Low
    <3>4. CASE \E j \in 1 .. Len(w.parent.kids) : j # w.idx + 1 /\ m = w.parent.kids[j]
      <4>1. OldBelow(w, q)
        BY <2>2, <3>4 DEF OldBelow, Old
      <4> QED  BY <4>1, <1>3
    <3> QED  BY <1>1, <1>5, <3>3, <3>4 DEF Low
  <2>3. Sound(r, w.disk[m], z[m])
    BY <1>4, <2>1, <2>2
  <2> QED  BY <2>1, <2>3
<1>6. Trees(w.disk, r)
  BY <1>5 DEF Trees
<1>7. Par(r, w.parent, M, v, {w.idx + 1})
  <2>1. Par(z, w.parent, M, v, {w.idx + 1})
    BY DEF Ready, Going
  <2>2. Linked(r, w.parent, M, {w.idx + 1})
    BY <1>1, <1>2 DEF Linked, Low
  <2> QED  BY <2>1, <2>2 DEF Par
<1>8. Sound(r, w.node, M[w.idx + 1])
  <2>1. Sound(z, w.node, M[w.idx + 1])
    BY DEF Ready
  <2>2. w.idx + 1 \in 1 .. Len(w.parent.kids)
    <3>1. w.idx \in 0 .. Len(w.parent.ents) /\ Par(z, w.parent, M, v, {w.idx + 1})
      BY DEF Ready, Going
    <3>2. Len(w.parent.ents) \in Nat /\ Len(w.parent.kids) = Len(w.parent.ents) + 1
      BY <3>1, ParIs
    <3> QED  BY <3>1, <3>2
  <2>3. \A q : Has(w.node, q) => OldBelow(w, q)
    BY <2>2 DEF OldBelow, Old
  <2> QED  BY <1>3, <1>4, <2>1, <2>3
<1> QED  BY <1>6, <1>7, <1>8 DEF Ready, Going

(* The same labels tell of the pages after the round.                      *)
After(w, z, x, y, v) ==
    /\ Sound(y, x.parent, v) /\ Trees(x.disk, y) /\ v.h \in Nat
    /\ \A j \in 1 .. Len(x.parent.kids) :
          x.parent.kids[j] \in DOMAIN y /\ y[x.parent.kids[j]].h = v.h - 1
    /\ \A q : NewBelow(x, q) => OldBelow(w, q) /\ q \in DOMAIN z /\ y[q] = z[q]

LEMMA AfterIs ==
    ASSUME NEW w, NEW z, NEW M, NEW v, Ready(w, z, M, v), NEW s, NEW x, Rnd(w, s, x)
    PROVE  \E y : After(w, z, x, y, v)
<1>1. PICK r : r = Within1(z, Low(w, z, v.h))
  OBVIOUS
<1>2. Ready(w, r, M, v)
  BY <1>1, LowReady
<1>3. PICK y, N : Going(x, y, N, v, {}) /\ Later(w, r, x, y, v.h - 1)
  BY <1>2, RoundGoing
<1>4. Par(y, x.parent, N, v, {}) /\ Trees(x.disk, y)
  BY <1>3 DEF Going
<1>5. Sound(y, x.parent, v) /\ ~x.parent.leaf
  BY <1>4, ParSound DEF Par
<1>6. IsIndex(y, x.parent, v) /\ v.h \in Nat
  BY <1>5, IndexIs, OldIs
<1>7. \A j \in 1 .. Len(x.parent.kids) :
          x.parent.kids[j] \in DOMAIN y /\ y[x.parent.kids[j]].h = v.h - 1
  BY <1>6 DEF IsIndex
<1>8. ASSUME NEW q, NewBelow(x, q) PROVE OldBelow(w, q) /\ q \in DOMAIN z /\ y[q] = z[q]
  <2>1. PICK j \in 1 .. Len(x.parent.kids) : Has(x.disk[x.parent.kids[j]], q)
    BY <1>8 DEF NewBelow
  <2>2. PICK m : m = x.parent.kids[j]
    OBVIOUS
  <2>3. m \in DOMAIN y /\ y[m].h = v.h - 1 /\ Sound(y, x.disk[m], y[m]) /\ Has(x.disk[m], q)
    BY <1>4, <1>7, <2>1, <2>2 DEF Trees
  <2>4. q \in DOMAIN y /\ y[q].h = (v.h - 1) - 1
    BY <2>3, HasIs
  <2>5. q \in DOMAIN r
    <3>1. y[q].h # v.h - 1
      BY <1>6, <2>4
    <3> QED  BY <1>3, <2>4, <3>1 DEF Later
  <2>6. r[q] = y[q]
    BY <1>3, <2>5 DEF Later, Extends
  <2>7. q \in Low(w, z, v.h) /\ q \in DOMAIN z /\ r[q] = z[q]
    BY <1>1, <2>5 DEF Within1, Low
  <2>8. ~(z[q].h < v.h - 2) /\ z[q].h # v.h - 1
    BY <1>6, <2>4, <2>6, <2>7
  <2>9. \A i \in 1 .. Len(w.parent.kids) : i # w.idx + 1 => z[w.parent.kids[i]].h = v.h - 1
    BY OldIs
  <2>10. OldBelow(w, q)
    BY <2>7, <2>8, <2>9 DEF Low
  <2> QED  BY <2>6, <2>7, <2>10
<1> QED  BY <1>4, <1>5, <1>6, <1>7, <1>8 DEF After

(* The node of a key below the parent, and the page of the key below that. *)
LEMMA BelowPlace ==
    ASSUME NEW w, NEW z, NEW M, NEW v, Ready(w, z, M, v), NEW q, NEW k \in Nat, Within(z[q], k),
           OldBelow(w, q), NEW i, i = ChildIndex(w.parent.ents, k) + 1,
           NEW l, l = ChildIndex(Old(w, i).ents, k) + 1
    PROVE  Within(v, k) /\ v.h > 2 /\ q = Old(w, i).kids[l] /\ z[q] \in Label
<1>1. PICK j \in 1 .. Len(w.parent.kids) : Has(Old(w, j), q)
  BY DEF OldBelow
<1>2. Sound(z, Old(w, j), M[j]) /\ M[j].h = v.h - 1 /\ v.h \in Nat /\ v \in Label
  BY OldIs
<1>3. /\ IsIndex(z, Old(w, j), M[j]) /\ z[q] \in Label /\ Within(M[j], k)
      /\ q = Old(w, j).kids[ChildIndex(Old(w, j).ents, k) + 1]
  BY <1>1, <1>2, HasIs
<1>4. M[j].h > 1
  BY <1>3 DEF IsIndex
<1>5. PICK n, e : n = Len(w.parent.ents) /\ e = w.parent.ents
  OBVIOUS
<1>6. /\ e \in Seq(Ent) /\ Rising(e) /\ Spans(e, M, v) /\ Len(w.parent.kids) = Len(e) + 1
  <2>1. Par(z, w.parent, M, v, {w.idx + 1})
    BY DEF Ready, Going
  <2> QED  BY <2>1, <1>5, ParIs DEF Par
<1>7. Within(v, k) /\ j = ChildIndex(e, k) + 1
  <2>1. \A a \in 1 .. Len(e) + 1 : Within(M[a], k) => Within(v, k) /\ a = ChildIndex(e, k) + 1
    BY ONLY <1>2, <1>6, k \in Nat, ChildWithin
  <2>2. j \in 1 .. Len(e) + 1
    BY <1>6
  <2> QED  BY <1>3, <2>1, <2>2
<1>8. j = i
  BY <1>5, <1>7
<1> QED  BY <1>2, <1>3, <1>4, <1>7, <1>8

LEMMA Grand ==
    ASSUME NEW w, NEW z, NEW M, NEW v, Ready(w, z, M, v), NEW s, NEW x, Rnd(w, s, x)
    PROVE  \A q : NewBelow(x, q) <=> OldBelow(w, q)
<1>1. PICK y : After(w, z, x, y, v)
  BY AfterIs
<1>2. ASSUME NEW q, OldBelow(w, q) PROVE NewBelow(x, q)
  <2>1. z[q] \in Label
    <3>1. PICK j \in 1 .. Len(w.parent.kids) : Has(Old(w, j), q)
      BY <1>2 DEF OldBelow
    <3> QED  BY <3>1, OldIs, HasIs
  <2>2. PICK k \in Nat : Within(z[q], k)
    <3>1. z[q].lo \in Nat /\ Before(z[q].lo, z[q].hi)
      BY <2>1, LabelIs
    <3>2. Within(z[q], z[q].lo)
      BY <3>1 DEF Within
    <3> QED  BY <3>1, <3>2
  <2>3. PICK i, l : i = ChildIndex(w.parent.ents, k) + 1 /\ l = ChildIndex(Old(w, i).ents, k) + 1
    OBVIOUS
  <2>4. Within(v, k) /\ v.h > 2 /\ q = Old(w, i).kids[l]
    BY <1>2, <2>2, <2>3, BelowPlace
  <2>5. Sound(y, x.parent, v) /\ Trees(x.disk, y) /\ v.h \in Nat
    BY <1>1 DEF After
  <2>6. IsIndex(y, x.parent, v)
    <3>1. v.h # 1
      BY <2>4, <2>5
    <3>2. ~x.parent.leaf
      BY <2>5, <3>1 DEF Sound, Holds
    <3> QED  BY <2>5, <3>2, IndexIs
  <2>7. PICK c, m : c = ChildIndex(x.parent.ents, k) + 1 /\ m = x.parent.kids[c]
    OBVIOUS
  <2>8. c \in 1 .. Len(x.parent.kids) /\ m \in DOMAIN y /\ y[m].h = v.h - 1 /\ Within(y[m], k)
    BY <2>4, <2>6, <2>7 DEF IsIndex
  <2>9. Sound(y, x.disk[m], y[m]) /\ y[m].h # 1
    BY <2>4, <2>5, <2>8 DEF Trees
  <2>10. IsIndex(y, x.disk[m], y[m])
    <3>1. ~x.disk[m].leaf
      BY <2>9 DEF Sound, Holds
    <3> QED  BY <2>9, <3>1, IndexIs
  <2>11. PICK a, p : a = ChildIndex(x.disk[m].ents, k) + 1 /\ p = x.disk[m].kids[a]
    OBVIOUS
  <2>12. a \in 1 .. Len(x.disk[m].kids) /\ Within(y[p], k)
    BY <2>8, <2>10, <2>11 DEF IsIndex
  <2>13. NewBelow(x, p)
    BY <2>7, <2>8, <2>11, <2>12 DEF NewBelow, Has
  <2>14. OldBelow(w, p) /\ y[p] = z[p]
    BY <1>1, <2>13 DEF After
  <2>15. p = Old(w, i).kids[l]
    BY <2>3, <2>12, <2>14, BelowPlace
  <2> QED  BY <2>4, <2>13, <2>15
<1>3. ASSUME NEW q, NewBelow(x, q) PROVE OldBelow(w, q)
  BY <1>1, <1>3 DEF After
<1> QED  BY <1>2, <1>3

-----------------------------------------------------------------------------
(* The pages below root r of pages d, without a word of levels.            *)
Closed(d, r, S) ==
    /\ r \in S
    /\ \A m \in S : \A q : Has(d[m], q) => q \in S
    /\ \A q \in S : q = r \/ \E m \in S : Has(d[m], q)

LEMMA ClosedIs ==
    ASSUME NEW z, NEW d, NEW r, NEW n, Rooted(z, d, r, n), NEW S, S = ReachOf(d, r, n)
    PROVE  Closed(d, r, S) /\ \A m \in S : m \in DOMAIN z /\ z[m].h \in Nat /\ z[m].h =< n
<1>1. PICK L : L = LevelsOf(d, r, n)
  OBVIOUS
<1>2. n \in Nat /\ n > 0 /\ Trees(d, z)
  BY DEF Rooted
<1>3. /\ L[1] = {r}
      /\ \A i \in 1 .. n : i + 1 \in 1 .. n => \A q : q \in L[i + 1] <=> \E m \in L[i] : Has(d[m], q)
      /\ \A i \in 1 .. n : \A m \in L[i] : m \in DOMAIN z /\ z[m].h = n + 1 - i
  BY <1>1, LevelsAre DEF LevelsRight, LevelAt, Child, Has
<1>4. \A m : m \in S <=> \E i \in 1 .. n : m \in L[i]
  BY <1>1 DEF ReachOf
<1>5. ASSUME NEW m \in S PROVE m \in DOMAIN z /\ z[m].h \in Nat /\ z[m].h =< n
  <2>1. PICK i \in 1 .. n : m \in L[i]
    BY <1>4
  <2>2. m \in DOMAIN z /\ z[m].h = n + 1 - i
    BY <1>3, <2>1
  <2> QED  BY <1>2, <2>2
<1>6. r \in S
  <2>1. 1 \in 1 .. n
    BY <1>2
  <2> QED  BY <1>3, <1>4, <2>1
<1>7. ASSUME NEW m \in S, NEW q, Has(d[m], q) PROVE q \in S
  <2>1. PICK i \in 1 .. n : m \in L[i]
    BY <1>4
  <2>2. m \in DOMAIN z /\ z[m].h = n + 1 - i
    BY <1>3, <2>1
  <2>3. Sound(z, d[m], z[m])
    BY <1>2, <2>2 DEF Trees
  <2>4. z[m].h > 1
    BY <1>7, <2>3, HasIs DEF IsIndex
  <2>5. i + 1 \in 1 .. n
    BY <1>2, <2>2, <2>4
  <2>6. q \in L[i + 1]
    BY <1>3, <1>7, <2>1, <2>5
  <2> QED  BY <1>4, <2>5, <2>6
<1>8. ASSUME NEW q \in S, q # r PROVE \E m \in S : Has(d[m], q)
  <2>1. PICK i \in 1 .. n : q \in L[i]
    BY <1>4
  <2>2. i # 1
    BY <1>3, <1>8, <2>1
  <2>3. PICK j \in 1 .. n : i = j + 1
    <3>1. i - 1 \in 1 .. n /\ i = (i - 1) + 1
      BY <1>2, <2>2
    <3> QED  BY <3>1
  <2>4. \E m \in L[j] : Has(d[m], q)
    <3>1. j + 1 \in 1 .. n /\ q \in L[j + 1]
      BY <2>1, <2>3
    <3> QED  BY <1>3, <3>1
  <2> QED  BY <1>4, <2>4
<1>9. Closed(d, r, S)
  BY <1>6, <1>7, <1>8 DEF Closed
<1> QED  BY <1>5, <1>9

LEMMA ClosedSub ==
    ASSUME NEW z, NEW d, Trees(d, z), NEW n \in Nat, NEW r, NEW S, Closed(d, r, S),
           \A m \in S : m \in DOMAIN z /\ z[m].h \in Nat /\ z[m].h =< n,
           NEW T, Closed(d, r, T)
    PROVE  S \subseteq T
<1> DEFINE Bad == {i \in Nat : \E m \in S \ T : i = n - z[m].h}
<1> SUFFICES ASSUME NEW m0 \in S \ T PROVE FALSE
  OBVIOUS
<1>1. n - z[m0].h \in Nat
  OBVIOUS
<1>2. Bad # {} /\ Bad \in SUBSET Nat
  BY <1>1
<1>3. PICK b \in Bad : \A i \in Bad : b =< i
  BY <1>2, LeastNumber
<1>4. PICK m \in S \ T : b = n - z[m].h
  BY <1>3
<1>5. m # r
  BY <1>4 DEF Closed
<1>6. PICK q \in S : Has(d[q], m)
  BY <1>4, <1>5 DEF Closed
<1>7. q \notin T
  BY <1>4, <1>6 DEF Closed
<1>8. Sound(z, d[q], z[q])
  BY <1>6 DEF Trees
<1>9. z[m].h = z[q].h - 1
  BY <1>6, <1>8, HasIs
<1>10. n - z[q].h \in Nat /\ n - z[q].h < b
  BY <1>4, <1>9
<1>11. n - z[q].h \in Bad
  BY <1>7, <1>10
<1> QED  BY <1>3, <1>10, <1>11

(* No page has two parents, and none is twice a child.                     *)
LEMMA OnlyParent ==
    ASSUME NEW z, NEW d, NEW r, NEW n, Rooted(z, d, r, n), NEW S, S = ReachOf(d, r, n),
           NEW m \in S, NEW p \in S, NEW a \in 1 .. Len(d[m].kids), NEW b \in 1 .. Len(d[p].kids),
           d[m].kids[a] = d[p].kids[b]
    PROVE  m = p /\ a = b
<1>1. m \in DOMAIN z /\ p \in DOMAIN z /\ Trees(d, z)
  BY ClosedIs DEF Rooted
<1>2. Sound(z, d[m], z[m]) /\ Sound(z, d[p], z[p])
  BY <1>1 DEF Trees
<1>3. PICK q : q = d[m].kids[a] /\ q = d[p].kids[b]
  OBVIOUS
<1>4. Has(d[m], q) /\ Has(d[p], q)
  BY <1>3 DEF Has
<1>5. /\ IsIndex(z, d[m], z[m]) /\ IsIndex(z, d[p], z[p]) /\ z[q] \in Label
      /\ z[q].h = z[m].h - 1 /\ z[q].h = z[p].h - 1
  BY <1>2, <1>4, HasIs
<1>6. PICK k \in Nat : Within(z[q], k)
  <2>1. z[q].lo \in Nat /\ Before(z[q].lo, z[q].hi)
    BY <1>5, LabelIs
  <2>2. Within(z[q], z[q].lo)
    BY <2>1 DEF Within
  <2> QED  BY <2>1, <2>2
<1>7. /\ Within(z[m], k) /\ a = ChildIndex(d[m].ents, k) + 1
      /\ Within(z[p], k) /\ b = ChildIndex(d[p].ents, k) + 1
  BY <1>3, <1>5, <1>6 DEF IsIndex
<1>8. z[m].h = z[p].h
  <2>1. z[m].h \in Nat /\ z[p].h \in Nat
    BY ClosedIs
  <2> QED  BY <1>5, <2>1
<1>9. m = p
  <2>1. \A x, y \in S : z[x].h = z[y].h /\ Within(z[x], k) /\ Within(z[y], k) => x = y
    BY <1>6, ReachIs
  <2> QED  BY <1>7, <1>8, <2>1
<1> QED  BY <1>7, <1>9

(* The pages below the root when K of them, children of p, are K1 now.     *)
Turn(d, d1, r, r1, p, S, K, K1) ==
    /\ Closed(d, r, S) /\ K \subseteq S /\ p \notin K
    /\ \A m \in S \ K : m # p => \A q : Has(d1[m], q) <=> Has(d[m], q)
    /\ \A q : Has(d1[p], q) <=> q \in K1
    /\ \A q : (\E m \in K1 : Has(d1[m], q)) <=> \E m \in K : Has(d[m], q)
    /\ \A m \in S : \A q \in K : Has(d[m], q) => m = p
    /\ p \in S => \A q : Has(d[p], q) => q \in K
    /\ (r1 = r /\ p \in S /\ r \notin K) \/ (r1 = p /\ K = {r} /\ p \notin S)
LEMMA RoundClosed ==
    ASSUME NEW d, NEW d1, NEW r, NEW r1, NEW p, NEW S, NEW K, NEW K1, Turn(d, d1, r, r1, p, S, K, K1)
    PROVE  Closed(d1, r1, ((S \ K) \cup {p}) \cup K1)
<1> USE DEF Turn
<1> DEFINE T == ((S \ K) \cup {p}) \cup K1
<1>1. r1 \in T
  BY DEF Closed
<1>2. ASSUME NEW m \in T, NEW q, Has(d1[m], q) PROVE q \in T
  <2>1. CASE m = p
    BY <1>2, <2>1
  <2>2. CASE m \in S \ K /\ m # p
    <3>1. Has(d[m], q)
      BY <1>2, <2>2
    <3> QED  BY <2>2, <3>1 DEF Closed
  <2>3. CASE m \in K1
    <3>1. PICK b \in K : Has(d[b], q)
      BY <1>2, <2>3
    <3>2. q \in S
      BY <3>1 DEF Closed
    <3>3. q \notin K
      BY <3>1
    <3> QED  BY <3>2, <3>3
  <2> QED  BY <2>1, <2>2, <2>3
<1>3. ASSUME NEW q \in T, q # r1 PROVE \E m \in T : Has(d1[m], q)
  <2>1. CASE q \in K1
    BY <2>1
  <2>2. CASE q \in S \ K
    <3>1. q # r
      BY <1>3, <2>2
    <3>2. PICK m \in S : Has(d[m], q)
      BY <2>2, <3>1 DEF Closed
    <3>3. m # p
      BY <2>2, <3>2
    <3>4. CASE m \in K
      BY <3>2, <3>4
    <3>5. CASE m \notin K
      BY <3>2, <3>3, <3>5
    <3> QED  BY <3>4, <3>5
  <2>3. CASE q = p
    BY <1>3, <2>2, <2>3
  <2> QED  BY <2>1, <2>2, <2>3
<1> QED  BY <1>1, <1>2, <1>3 DEF Closed

(* The tree that would be if the climb ended here, with node nd written:   *)
(* in place of its old page, or above the root.                            *)
TopOf(r, l, nd) == IF l = 0 THEN nd.page ELSE r
TallOf(n, l) == IF l = 0 THEN n + 1 ELSE n
Shadow(d, r, n, l, nd) == ReachOf(Putnode(d, nd), TopOf(r, l, nd), TallOf(n, l))
(* A page of that tree is labelled, no higher than the root, or it is the  *)
(* node that becomes the root.                                             *)
Ranked(z, n, l, nd, m) ==
    \/ m \in DOMAIN z /\ z[m].h \in Nat /\ z[m].h =< n + 1
    \/ l = 0 /\ m = nd.page
Ranks(z, y, n, l, nd) ==
    /\ \A m \in DOMAIN z : /\ m \in DOMAIN y /\ y[m].h = z[m].h
                           /\ y[m].lo = z[m].lo /\ y[m].hi = z[m].hi
    /\ \A m \in DOMAIN y : m \in DOMAIN z \/ (l = 0 /\ m = nd.page)
    /\ l = 0 => nd.page \in DOMAIN y /\ y[nd.page].h = n + 1

LEMMA ShadowRooted ==
    ASSUME NEW z, NEW d, NEW r, NEW n, NEW o, NEW P, NEW l, NEW nd, NEW mk,
           Climbs(z, d, r, n, o, P, l, nd, mk)
    PROVE  \E y : Rooted(y, Putnode(d, nd), TopOf(r, l, nd), TallOf(n, l)) /\ Ranks(z, y, n, l, nd)
<1>0. /\ Trees(d, z) /\ n \in Nat /\ l \in 0 .. n /\ l \in Nat
      /\ \A m \in DOMAIN z : z[m] \in Label /\ z[m].h \in Nat
  <2>1. Trees(d, z) /\ n \in Nat /\ l \in 0 .. n
    BY DEF Climbs, Holding
  <2>2. \A m \in DOMAIN z : z[m] \in Label
    BY <2>1 DEF Trees, Sound
  <2> QED  BY <2>1, <2>2, LabelIs
<1>1. CASE l > 0
  <2>1. PICK h, y, p : h = n + 1 - l /\ y = Published(z, h, o) /\ p = P[l]
    OBVIOUS
  <2>2. /\ Rooted(z, d, r, n) /\ p \in DOMAIN z /\ z[p].h = h /\ h \in Nat /\ h =< n
        /\ Within(z[p], o.key) /\ Alone(z, h, o.key, p) /\ Request(o) /\ AtLevel(z, o, P, l, nd)
    BY ONLY <1>1, <2>1, RootFirst, Climbs(z, d, r, n, o, P, l, nd, mk)
  <2>3. nd.page = p /\ Sound(z, nd, Upd(z[p], o))
    BY <2>1, <2>2 DEF AtLevel
  <2>4. Rooted(y, Putnode(d, nd), r, n)
    <3>1. /\ nd.page \in DOMAIN z /\ h = z[nd.page].h /\ Within(z[nd.page], o.key)
          /\ Alone(z, h, o.key, nd.page) /\ Sound(z, nd, Upd(z[nd.page], o))
      BY <2>2, <2>3
    <3> QED  BY ONLY <2>1, <2>2, <3>1, PublishRooted
  <2>5. TopOf(r, l, nd) = r /\ TallOf(n, l) = n
    BY <1>0, <1>1 DEF TopOf, TallOf
  <2>6. Ranks(z, y, n, l, nd)
    <3>1. DOMAIN y = DOMAIN z /\ \A m \in DOMAIN z : y[m] = z[m] \/ y[m] = Upd(z[m], o)
      BY <2>1 DEF Published
    <3>2. \A m \in DOMAIN z : y[m].h = z[m].h /\ y[m].lo = z[m].lo /\ y[m].hi = z[m].hi
      BY <1>0, <3>1, UpdIs
    <3> QED  BY <1>0, <1>1, <3>1, <3>2 DEF Ranks
  <2> QED  BY <2>4, <2>5, <2>6
<1>2. CASE l = 0
  <2>1. PICK p, v, y : /\ p = nd.page /\ v = Whole(Changed(All(z, r, n), o), n)
                       /\ y = Add(z, p, v)
    OBVIOUS
  <2>2. p \notin DOMAIN d /\ Sound(z, nd, v)
    BY <1>2, <2>1 DEF Climbs, Above
  <2>3. p \notin DOMAIN z
    BY <1>0, <2>2 DEF Trees
  <2>4. /\ Trees(Putnode(d, nd), y) /\ DOMAIN y = DOMAIN z \cup {p} /\ y[p] = v
        /\ \A m \in DOMAIN z : y[m] = z[m]
    <3>1. nd.page \notin DOMAIN z /\ y = Add(z, nd.page, v)
      BY <2>1, <2>3
    <3>2. Trees(Putnode(d, nd), Add(z, nd.page, v))
      BY ONLY <1>0, <2>2, <3>1, AddGood
    <3> QED  BY <2>1, <2>3, <3>1, <3>2 DEF Add
  <2>5. v.h = n + 1 /\ v.lo = 0 /\ v.hi = -1
    BY <2>1 DEF Whole
  <2>6. TopOf(r, l, nd) = p /\ TallOf(n, l) = n + 1 /\ n + 1 \in Nat /\ n + 1 > 0
    BY <1>0, <1>2, <2>1 DEF TopOf, TallOf
  <2>7. Rooted(y, Putnode(d, nd), p, n + 1)
    BY <2>4, <2>5, <2>6 DEF Rooted
  <2>8. Ranks(z, y, n, l, nd)
    BY <1>2, <2>1, <2>4, <2>5 DEF Ranks
  <2> QED  BY <2>6, <2>7, <2>8
<1> QED  BY <1>0, <1>1, <1>2

LEMMA ShadowIs ==
    ASSUME NEW z, NEW d, NEW r, NEW n, NEW o, NEW P, NEW l, NEW nd, NEW mk,
           Climbs(z, d, r, n, o, P, l, nd, mk),
           NEW T, T = Shadow(d, r, n, l, nd)
    PROVE  Closed(Putnode(d, nd), TopOf(r, l, nd), T) /\ \A m \in T : Ranked(z, n, l, nd, m)
<1>1. PICK t, b, D : t = TopOf(r, l, nd) /\ b = TallOf(n, l) /\ D = Putnode(d, nd)
  OBVIOUS
<1>2. PICK y : Rooted(y, D, t, b) /\ Ranks(z, y, n, l, nd)
  BY <1>1, ShadowRooted
<1>3. T = ReachOf(D, t, b)
  BY <1>1 DEF Shadow
<1>4. Closed(D, t, T) /\ \A m \in T : m \in DOMAIN y /\ y[m].h \in Nat /\ y[m].h =< b
  BY ONLY <1>2, <1>3, ClosedIs
<1>5. ASSUME NEW m \in T PROVE Ranked(z, n, l, nd, m)
  <2>1. m \in DOMAIN y /\ y[m].h \in Nat /\ y[m].h =< b
    BY <1>4
  <2>2. CASE l = 0 /\ m = nd.page
    BY <2>2 DEF Ranked
  <2>3. CASE ~(l = 0 /\ m = nd.page)
    <3>1. m \in DOMAIN z /\ z[m].h = y[m].h
      BY <1>2, <2>1, <2>3 DEF Ranks
    <3>2. b =< n + 1 /\ n \in Nat
      BY <1>1 DEF TallOf, Climbs, Holding
    <3>3. z[m].h \in Nat /\ z[m].h =< n + 1
      <4>1. b \in Nat
        BY <1>1, <3>2 DEF TallOf
      <4> QED  BY <2>1, <3>1, <3>2, <4>1
    <3> QED  BY <3>1, <3>3 DEF Ranked
  <2> QED  BY <2>2, <2>3
<1> QED  BY <1>1, <1>4, <1>5

LEMMA ShadowOnly ==
    ASSUME NEW z, NEW d, NEW r, NEW n, NEW o, NEW P, NEW l, NEW nd, NEW mk,
           Climbs(z, d, r, n, o, P, l, nd, mk),
           NEW T, T = Shadow(d, r, n, l, nd),
           NEW S, Closed(Putnode(d, nd), TopOf(r, l, nd), S), \A m \in S : Ranked(z, n, l, nd, m)
    PROVE  S = T
<1>1. PICK t, b, D : t = TopOf(r, l, nd) /\ b = TallOf(n, l) /\ D = Putnode(d, nd)
  OBVIOUS
<1>2. PICK y : Rooted(y, D, t, b) /\ Ranks(z, y, n, l, nd)
  BY <1>1, ShadowRooted
<1>3. T = ReachOf(D, t, b)
  BY <1>1 DEF Shadow
<1>4. Closed(D, t, T) /\ \A m \in T : m \in DOMAIN y /\ y[m].h \in Nat /\ y[m].h =< b
  BY ONLY <1>2, <1>3, ClosedIs
<1>5. n \in Nat /\ Trees(D, y) /\ b \in Nat
  BY <1>1, <1>2 DEF Rooted, Climbs, Holding
<1>6. \A m \in S : m \in DOMAIN y /\ y[m].h \in Nat /\ y[m].h =< n + 1
  BY <1>2, <1>5 DEF Ranks, Ranked
<1>7. S \subseteq T
  <2>1. PICK c : c = n + 1
    OBVIOUS
  <2>2. c \in Nat /\ Closed(D, t, S) /\ \A m \in S : m \in DOMAIN y /\ y[m].h \in Nat /\ y[m].h =< c
    BY <1>1, <1>5, <1>6, <2>1
  <2> QED  BY ONLY <1>4, <1>5, <2>2, ClosedSub
<1>8. T \subseteq S
  <2>1. Closed(D, t, S)
    BY <1>1
  <2> QED  BY ONLY <1>4, <1>5, <2>1, ClosedSub
<1> QED  BY <1>7, <1>8

LEMMA ShadowParent ==
    ASSUME NEW z, NEW d, NEW r, NEW n, NEW o, NEW P, NEW l, NEW nd, NEW mk,
           Climbs(z, d, r, n, o, P, l, nd, mk),
           NEW T, T = Shadow(d, r, n, l, nd), NEW D, D = Putnode(d, nd),
           NEW m \in T, NEW p \in T, NEW a \in 1 .. Len(D[m].kids), NEW b \in 1 .. Len(D[p].kids),
           D[m].kids[a] = D[p].kids[b]
    PROVE  m = p /\ a = b
<1>1. PICK t, c : t = TopOf(r, l, nd) /\ c = TallOf(n, l)
  OBVIOUS
<1>2. PICK y : Rooted(y, D, t, c)
  BY <1>1, ShadowRooted
<1>3. T = ReachOf(D, t, c)
  BY <1>1 DEF Shadow
<1>4. PICK i, j : i = a /\ j = b
  OBVIOUS
<1>5. m \in T /\ p \in T /\ i \in 1 .. Len(D[m].kids) /\ j \in 1 .. Len(D[p].kids) /\ D[m].kids[i] = D[p].kids[j]
  BY <1>4
<1>6. m = p /\ i = j
  BY ONLY <1>2, <1>3, <1>5, OnlyParent
<1> QED  BY <1>4, <1>6

(* The way the climb goes back is in that tree, and the heights of its     *)
(* pages descend.                                                          *)
LEMMA ShadowPath ==
    ASSUME NEW z, NEW d, NEW r, NEW n, NEW o, NEW P, NEW l, NEW nd, NEW mk,
           Climbs(z, d, r, n, o, P, l, nd, mk), l > 0,
           NEW T, T = Shadow(d, r, n, l, nd)
    PROVE  /\ \A i \in 1 .. l : P[i] \in T
           /\ \A m \in T : \A q : Has(Putnode(d, nd)[m], q) => z[q].h = z[m].h - 1
           /\ \A m \in T : m \in DOMAIN z /\ z[m].h \in Nat /\ z[m].h =< n
           /\ T \subseteq Int
<1>1. PICK D : D = Putnode(d, nd)
  OBVIOUS
<1>2. /\ n \in Nat /\ l \in 0 .. n /\ l \in Nat /\ Sole(z, n + 1 - l, o.key) /\ Way(z, n, o.key, P, l)
      /\ o.key \in Nat /\ DOMAIN d \subseteq Page /\ Trees(d, z)
  BY DEF Climbs, Holding, Wanted
<1>3. TopOf(r, l, nd) = r /\ TallOf(n, l) = n
  BY <1>2 DEF TopOf, TallOf
<1>4. PICK y : Rooted(y, D, r, n) /\ Ranks(z, y, n, l, nd)
  BY <1>1, <1>3, ShadowRooted
<1>5. T = ReachOf(D, r, n)
  BY <1>1, <1>3 DEF Shadow
<1>6. /\ DOMAIN y = DOMAIN z
      /\ \A m \in DOMAIN z : y[m].h = z[m].h /\ y[m].lo = z[m].lo /\ y[m].hi = z[m].hi
  BY <1>2, <1>4 DEF Ranks
<1>7. \A m \in T : m \in DOMAIN y /\ y[m].h \in Nat /\ y[m].h =< n
  BY ONLY <1>4, <1>5, ClosedIs
<1>8. \A m \in DOMAIN z : \A k : Within(y[m], k) <=> Within(z[m], k)
  BY <1>6 DEF Within
<1>9. ASSUME NEW i \in 1 .. l PROVE P[i] \in T
  <2>1. PICK k, L, Q : k = o.key /\ L = LevelsOf(D, r, n) /\ Q = PathOf(D, r, n, k)
    OBVIOUS
  <2>2. k \in Nat /\ i \in 1 .. n
    BY <1>2, <2>1
  <2>3. PathRight(y, D, r, n, k, L, Q)
    BY ONLY <1>4, <2>1, <2>2, PathIs
  <2>4. PathAt(y, n, k, L, Q, i)
    BY <2>2, <2>3 DEF PathRight
  <2>5. Q[i] \in L[i] /\ Q[i] \in DOMAIN y /\ y[Q[i]].h = n + 1 - i /\ Within(y[Q[i]], k)
    BY ONLY <2>4 DEF PathAt
  <2>6. Q[i] \in T
    BY <1>5, <2>1, <2>2, <2>5 DEF ReachOf
  <2>7. PICK a, b : a = Q[i] /\ b = P[i]
    OBVIOUS
  <2>8. a \in DOMAIN z /\ z[a].h = n + 1 - i /\ Within(z[a], k)
    BY <1>6, <1>8, <2>5, <2>7
  <2>9. b \in DOMAIN z /\ z[b].h = n + 1 - i /\ Within(z[b], k)
    BY <1>2, <2>1, <2>7 DEF Way
  <2>10. n + 1 - i >= n + 1 - l
    BY <1>2
  <2>11. z[a].h = z[b].h /\ z[a].h >= n + 1 - l
    BY <2>8, <2>9, <2>10
  <2>12. a = b
    BY <1>2, <2>1, <2>8, <2>9, <2>11 DEF Sole
  <2> QED  BY <2>6, <2>7, <2>12
<1>10. ASSUME NEW m \in T, NEW q, Has(D[m], q) PROVE z[q].h = z[m].h - 1
  <2>1. Sound(y, D[m], y[m])
    BY <1>4, <1>7 DEF Rooted, Trees
  <2>2. q \in DOMAIN y /\ y[q].h = y[m].h - 1
    BY <1>10, <2>1, HasIs
  <2> QED  BY <1>6, <1>7, <2>2
<1>11. T \subseteq Int
  <2>1. T \subseteq DOMAIN d
    BY <1>2, <1>6, <1>7 DEF Trees
  <2>2. Page \subseteq Int
    BY DEF Page
  <2> QED  BY <1>2, <2>1, <2>2
<1> QED  BY <1>1, <1>6, <1>7, <1>9, <1>10, <1>11

(* Pages that only add to those of a tree leave the tree what it is.       *)
LEMMA ReachSame ==
    ASSUME NEW z, NEW d, NEW r, NEW n, Rooted(z, d, r, n),
           NEW y, NEW e, Rooted(y, e, r, n), Extends(d, e)
    PROVE  ReachOf(e, r, n) = ReachOf(d, r, n)
<1>1. PICK S, T : S = ReachOf(d, r, n) /\ T = ReachOf(e, r, n)
  OBVIOUS
<1>2. Closed(d, r, S) /\ \A m \in S : m \in DOMAIN z /\ z[m].h \in Nat /\ z[m].h =< n
  BY ONLY Rooted(z, d, r, n), <1>1, ClosedIs
<1>3. Closed(e, r, T) /\ \A m \in T : m \in DOMAIN y /\ y[m].h \in Nat /\ y[m].h =< n
  BY ONLY Rooted(y, e, r, n), <1>1, ClosedIs
<1>4. Trees(d, z) /\ Trees(e, y) /\ n \in Nat
  BY DEF Rooted
<1>5. \A m \in S : e[m] = d[m]
  BY <1>2, <1>4 DEF Trees, Extends
<1>6. Closed(e, r, S)
  BY <1>2, <1>5 DEF Closed
<1>7. T \subseteq S
  BY ONLY <1>3, <1>4, <1>6, ClosedSub
<1>8. Closed(d, r, T)
  BY <1>3, <1>5, <1>7 DEF Closed
<1>9. S \subseteq T
  BY ONLY <1>2, <1>4, <1>8, ClosedSub
<1> QED  BY <1>1, <1>7, <1>9

(* The lists tell tree S of A, the tree of the header, and m.              *)
Tally(A, m, l, S) == \E B : Once(l, B) /\ B \subseteq A \cup m /\ S = (A \cup m) \ B

(* A round, with the part R of the tree that is out of it.                 *)
LEMMA RoundBooks ==
    ASSUME NEW w, NEW z, NEW M, NEW v, Ready(w, z, M, v), NEW s, NEW x, Rnd(w, s, x),
           NEW A, NEW R, InRound(w, A, R) \/ (s = w /\ ~s.done /\ InSplit(w, A, R))
    PROVE  InBooks(x, x.parent.kids, A, R)
<1>1. /\ s \in {w, Spread(w)} /\ ~s.bad /\ 0 \notin s.made /\ 0 \notin x.made
      /\ (s.done /\ x = s) \/ (~s.done /\ x = Split(s))
  BY DEF Rnd
<1>2. CASE s = w /\ ~s.done /\ InSplit(w, A, R)
  <2>1. x = Split(w)
    BY <1>1, <1>2
  <2> QED  BY ONLY <1>1, <1>2, <2>1, SplitBooks
<1>3. CASE InRound(w, A, R)
  <2>1. InRound(s, A, R)
    <3>1. CASE s = w
      BY <1>3, <3>1
    <3>2. CASE s = Spread(w)
      BY ONLY <1>1, <1>3, <3>2, Ready(w, z, M, v), SpreadBooks
    <3> QED  BY <1>1, <3>1, <3>2
  <2>2. CASE s.done
    BY <1>1, <2>1, <2>2 DEF InRound
  <2>3. CASE ~s.done
    <3>1. x = Split(s)
      BY <1>1, <2>3
    <3>2. \E y, N : Ready(s, y, N, v)
      <4>1. CASE s = w
        BY <4>1
      <4>2. CASE s = Spread(w)
        <5>1. \E y, N : Outcome(w, z, s, y, N, v)
          BY ONLY <1>1, <4>2, Ready(w, z, M, v), SpreadGood
        <5> QED  BY <2>3, <5>1 DEF Outcome
      <4> QED  BY <1>1, <4>1, <4>2
    <3>3. PICK y, N : Ready(s, y, N, v)
      BY <3>2
    <3>4. /\ Fit(s.node) /\ s.idx \in 0 .. Len(s.parent.ents) /\ Par(y, s.parent, N, v, {s.idx + 1})
      BY <3>3 DEF Ready, Going
    <3>5. /\ s.parent.kids \in Seq(Int) /\ Len(s.parent.kids) = Len(s.parent.ents) + 1 /\ ~s.parent.leaf
          /\ s.parent.ents \in Seq(Ent)
      <4>1. PICK pa, S : pa = s.parent /\ S = {s.idx + 1}
        OBVIOUS
      <4>2. Par(y, pa, N, v, S)
        BY <3>4, <4>1
      <4>3. pa.kids \in Seq(Int) /\ Len(pa.kids) = Len(pa.ents) + 1 /\ pa.ents \in Seq(Ent)
        BY ONLY <4>2, ParIs
      <4>4. ~pa.leaf
        BY ONLY <4>2 DEF Par
      <4> QED  BY <4>1, <4>3, <4>4
    <3>6. HasPage(s.node)
      BY <3>4 DEF Fit, NodeType, HasPage
    <3>7. s.idx \in Nat /\ s.idx + 1 \in 1 .. Len(s.parent.kids)
      BY <3>4, <3>5
    <3>8. Hole(s) = s.parent.kids
      <4>1. PICK ks, i : ks = s.parent.kids /\ i = s.idx + 1
        OBVIOUS
      <4>2. s.node.page = ks[i]
        BY <2>1, <2>3, <4>1 DEF InRound, Kid
      <4>3. [ks EXCEPT ![i] = ks[i]] = ks
        <5>1. ks \in Seq(Int) /\ i \in 1 .. Len(ks)
          BY ONLY <3>5, <3>7, <4>1
        <5> QED  BY ONLY <5>1
      <4> QED  BY <4>1, <4>2, <4>3 DEF Hole
    <3>9. InSplit(s, A, R)
      BY <2>1, <3>5, <3>6, <3>7, <3>8 DEF InSplit, InRound
    <3> QED  BY ONLY <1>1, <3>1, <3>9, SplitBooks
  <2> QED  BY <2>2, <2>3
<1> QED  BY <1>2, <1>3

(* In tree T with root r of pages D, the round replaces K, the children of *)
(* the parent, page p; r1 is the root after it.                            *)
Swap(w, T, K, p, D, r, r1) ==
    /\ Closed(D, r, T) /\ K \subseteq T /\ p \notin K
    /\ \A m \in T \ K : m # p => m \in DOMAIN w.disk /\ D[m] = w.disk[m]
    /\ \A q : (\E m \in K : Has(D[m], q)) <=> OldBelow(w, q)
    /\ \A m \in T : \A q \in K : Has(D[m], q) => m = p
    /\ p \in T => \A q : Has(D[p], q) => q \in K
    /\ (r1 = r /\ p \in T /\ r \notin K) \/ (r1 = p /\ K = {r} /\ p \notin T)
Rest(T, K, p) == (T \ K) \cup {p}
Swapped(x, T, K, p, r1, A, S) ==
    /\ Closed(Putnode(x.disk, x.parent), r1, S) /\ Tally(A, x.made, x.list2, S)
    /\ \A m \in S : m \in T \/ m = p \/ Has(x.parent, m)
LEMMA RoundSwap ==
    ASSUME NEW w, NEW z, NEW M, NEW v, Ready(w, z, M, v), NEW s, NEW x, Rnd(w, s, x),
           NEW T, NEW K, NEW p, NEW D, NEW r, NEW r1, Swap(w, T, K, p, D, r, r1),
           NEW A, InBooks(x, x.parent.kids, A, Rest(T, K, p)),
           Extends(w.disk, x.disk), x.parent.page = p
    PROVE  \E S : Swapped(x, T, K, p, r1, A, S)
<1>1. PICK R, D1 : R = Rest(T, K, p) /\ D1 = Putnode(x.disk, x.parent)
  OBVIOUS
<1>2. PICK K1, B : /\ Once(x.parent.kids, K1) /\ Once(x.list2, B) /\ B \subseteq A \cup x.made
                   /\ R \cap K1 = {} /\ R \cup K1 = (A \cup x.made) \ B
  BY <1>1 DEF InBooks, Books
<1>3. \A q : q \in K1 <=> Has(x.parent, q)
  BY <1>2 DEF Once, Has
<1>4. /\ D1[p] = Image(x.parent)
      /\ \A m \in DOMAIN x.disk : m # p => D1[m] = x.disk[m]
      /\ \A m : m \in DOMAIN w.disk => m \in DOMAIN x.disk /\ x.disk[m] = w.disk[m]
  BY <1>1 DEF Putnode, Extends
<1>5. \A m \in T \ K : m # p => \A q : Has(D1[m], q) <=> Has(D[m], q)
  BY <1>4 DEF Swap
<1>6. \A q : Has(D1[p], q) <=> q \in K1
  <2>1. D1[p].kids = x.parent.kids
    BY <1>4 DEF Image
  <2> QED  BY <1>3, <2>1 DEF Has
<1>7. p \notin K1
  BY <1>1, <1>2 DEF Rest
<1>8. \A m \in K1 : D1[m] = x.disk[m]
  <2>1. \E y, N : Going(x, y, N, v, {}) /\ Later(w, z, x, y, v.h - 1)
    BY RoundGoing
  <2>2. PICK y, N : Trees(x.disk, y) /\ Par(y, x.parent, N, v, {})
    BY <2>1 DEF Going
  <2>3. Sound(y, x.parent, v)
    BY <2>2, ParSound
  <2>4. \A m \in K1 : m \in DOMAIN y
    BY <1>3, <2>3, HasIs
  <2> QED  BY <1>4, <1>7, <2>2, <2>4 DEF Trees
<1>9. \A q : (\E m \in K1 : Has(D1[m], q)) <=> NewBelow(x, q)
  <2>1. \A m : m \in K1 <=> \E j \in 1 .. Len(x.parent.kids) : m = x.parent.kids[j]
    BY <1>3 DEF Has
  <2>2. \A j \in 1 .. Len(x.parent.kids) : D1[x.parent.kids[j]] = x.disk[x.parent.kids[j]]
    BY <1>8, <2>1
  <2> QED  BY <2>1, <2>2 DEF NewBelow
<1>10. \A q : (\E m \in K1 : Has(D1[m], q)) <=> \E m \in K : Has(D[m], q)
  <2>1. \A q : NewBelow(x, q) <=> OldBelow(w, q)
    BY ONLY Ready(w, z, M, v), Rnd(w, s, x), Grand
  <2> QED  BY <1>9, <2>1 DEF Swap
<1>11. Closed(D1, r1, ((T \ K) \cup {p}) \cup K1)
  <2>1. /\ Closed(D, r, T) /\ K \subseteq T /\ p \notin K
        /\ \A m \in T : \A q \in K : Has(D[m], q) => m = p
        /\ p \in T => \A q : Has(D[p], q) => q \in K
        /\ (r1 = r /\ p \in T /\ r \notin K) \/ (r1 = p /\ K = {r} /\ p \notin T)
    BY DEF Swap
  <2>2. Turn(D, D1, r, r1, p, T, K, K1)
    BY ONLY <1>5, <1>6, <1>10, <2>1 DEF Turn
  <2> QED  BY ONLY <2>2, RoundClosed
<1>12. PICK S : S = R \cup K1
  OBVIOUS
<1>13. Closed(D1, r1, S)
  BY <1>1, <1>11, <1>12 DEF Rest
<1>14. Tally(A, x.made, x.list2, S)
  BY <1>2, <1>12 DEF Tally
<1>15. \A m \in S : m \in T \/ m = p \/ Has(x.parent, m)
  BY <1>1, <1>3, <1>12 DEF Rest
<1> QED  BY <1>1, <1>13, <1>14, <1>15 DEF Swapped

(* A round below the root: the parent is a page of the tree.               *)
WorkBelow(w, d, P, l, nd, mk) ==
    /\ Fields(w) /\ w.disk = d /\ w.node = nd /\ w.made = mk /\ w.parent = Getnode(d, P[l - 1])
    /\ ~w.done /\ nd.page = Kid(w.parent, w.idx)
LEMMA SwapBelow ==
    ASSUME NEW z, NEW d, NEW r, NEW n, NEW o, NEW P, NEW l, NEW nd, NEW mk,
           Climbs(z, d, r, n, o, P, l, nd, mk), l > 1,
           NEW w, WorkBelow(w, d, P, l, nd, mk), NEW M, NEW v, Ready(w, z, M, v),
           NEW T, T = Shadow(d, r, n, l, nd),
           NEW A, A \subseteq DOMAIN d, Tally(A, mk, w.list2, T)
    PROVE  /\ w.parent.page \in T
           /\ \E K : /\ Swap(w, T, K, w.parent.page, Putnode(d, nd), r, r)
                     /\ InRound(w, A, Rest(T, K, w.parent.page))
<1>1. PICK p, D, ks, i : p = P[l - 1] /\ D = Putnode(d, nd) /\ ks = w.parent.kids /\ i = w.idx + 1
  OBVIOUS
<1>2. /\ n \in Nat /\ l \in 0 .. n /\ l \in Nat /\ Way(z, n, o.key, P, l) /\ Trees(d, z) /\ l > 0
      /\ l - 1 \in 1 .. l
  BY DEF Climbs, Holding
<1>3. /\ p \in T /\ T \subseteq Int
      /\ \A m \in T : \A q : Has(D[m], q) => z[q].h = z[m].h - 1
      /\ \A m \in T : m \in DOMAIN z /\ z[m].h \in Nat /\ z[m].h =< n
  BY <1>1, <1>2, ShadowPath
<1>4. Closed(D, r, T)
  <2>1. TopOf(r, l, nd) = r
    BY <1>2 DEF TopOf
  <2> QED  BY <1>1, <2>1, ShadowIs
<1>5. Rooted(z, d, r, n) /\ r \in DOMAIN z /\ z[r].h = n /\ AtLevel(z, o, P, l, nd) /\ z[P[l]].h = n + 1 - l
  BY <1>2, RootFirst DEF Rooted
<1>6. p # nd.page
  <2>1. nd.page = P[l]
    BY <1>5 DEF AtLevel
  <2>2. z[p].h = n + 1 - (l - 1)
    BY <1>1, <1>2 DEF Way
  <2>3. n + 1 - (l - 1) # n + 1 - l
    BY <1>2
  <2> QED  BY <1>5, <2>1, <2>2, <2>3
<1>7. /\ \A m \in T : m \in DOMAIN d
      /\ \A m \in T : m # nd.page => D[m] = d[m]
      /\ D[nd.page] = Image(nd)
  BY <1>1, <1>2, <1>3 DEF Trees, Putnode
<1>8. /\ w.disk = d /\ w.node = nd /\ w.made = mk /\ ~w.done /\ w.parent.page = p /\ ks = d[p].kids
      /\ Fields(w) /\ "kids" \in DOMAIN w.parent
  BY <1>1 DEF WorkBelow, Getnode
<1>9. ks \in Seq(Int) /\ i \in 1 .. Len(ks) /\ nd.page = ks[i]
  <2>1. PICK pa, S : pa = w.parent /\ S = {w.idx + 1}
    OBVIOUS
  <2>2. Par(z, pa, M, v, S) /\ w.idx \in 0 .. Len(pa.ents)
    BY <2>1 DEF Ready, Going
  <2>3. pa.kids \in Seq(Int) /\ Len(pa.kids) = Len(pa.ents) + 1 /\ Len(pa.ents) \in Nat
    BY ONLY <2>2, ParIs
  <2>4. nd.page = ks[i]
    BY <1>1 DEF WorkBelow, Kid
  <2> QED  BY <1>1, <2>1, <2>2, <2>3, <2>4
<1>10. D[p].kids = ks
  BY <1>3, <1>6, <1>7, <1>8
<1>11. PICK K : K = {q \in T : Has(D[p], q)}
  OBVIOUS
<1>12. \A q : q \in K <=> \E j \in 1 .. Len(ks) : q = ks[j]
  BY <1>3, <1>4, <1>10, <1>11 DEF Has, Closed
<1>13. Once(ks, K)
  <2>1. ASSUME NEW a \in 1 .. Len(ks), NEW b \in 1 .. Len(ks), ks[a] = ks[b] PROVE a = b
    <3>1. /\ p \in T /\ a \in 1 .. Len(D[p].kids) /\ b \in 1 .. Len(D[p].kids) /\ D[p].kids[a] = D[p].kids[b]
          /\ D = Putnode(d, nd)
      BY <1>1, <1>3, <1>10, <2>1
    <3> QED  BY ONLY <3>1, Climbs(z, d, r, n, o, P, l, nd, mk), T = Shadow(d, r, n, l, nd), ShadowParent
  <2> QED  BY <1>9, <1>12, <2>1 DEF Once
<1>14. \A q \in K : z[q].h = z[p].h - 1
  BY <1>3, <1>11
<1>15. p \notin K /\ r \notin K
  BY <1>3, <1>5, <1>14
<1>16. \A q : (\E m \in K : Has(D[m], q)) <=> OldBelow(w, q)
  <2>1. ASSUME NEW j \in 1 .. Len(ks) PROVE D[ks[j]].kids = Old(w, j).kids
    <3>1. CASE j = w.idx + 1
      <4>1. ks[j] = nd.page /\ Old(w, j) = nd
        BY <1>1, <1>8, <1>9, <3>1 DEF Old
      <4> QED  BY <1>7, <4>1 DEF Image
    <3>2. CASE j # w.idx + 1
      <4>1. ks[j] # nd.page
        BY <1>1, <1>9, <1>13, <3>2 DEF Once
      <4>2. ks[j] \in T
        BY <1>11, <1>12
      <4> QED  BY <1>1, <1>7, <1>8, <3>2, <4>1, <4>2 DEF Old
    <3> QED  BY <3>1, <3>2
  <2>2. ASSUME NEW q, NEW j \in 1 .. Len(ks) PROVE Has(D[ks[j]], q) <=> Has(Old(w, j), q)
    BY <2>1 DEF Has
  <2> QED  BY <1>1, <1>12, <2>2 DEF OldBelow
<1>17. \A m \in T : \A q \in K : Has(D[m], q) => m = p
  <2> SUFFICES ASSUME NEW m \in T, NEW q \in K, Has(D[m], q) PROVE m = p
    OBVIOUS
  <2>1. PICK a \in 1 .. Len(D[m].kids) : q = D[m].kids[a]
    BY DEF Has
  <2>2. PICK b \in 1 .. Len(D[p].kids) : q = D[p].kids[b]
    BY <1>11 DEF Has
  <2>3. /\ m \in T /\ p \in T /\ D[m].kids[a] = D[p].kids[b] /\ D = Putnode(d, nd)
    BY <1>1, <1>3, <2>1, <2>2
  <2> QED  BY ONLY <2>1, <2>2, <2>3, Climbs(z, d, r, n, o, P, l, nd, mk), T = Shadow(d, r, n, l, nd), ShadowParent
<1>18. nd.page \in K
  BY <1>9, <1>12
<1>19. K \subseteq T /\ \A q : Has(D[p], q) => q \in K
  BY <1>3, <1>4, <1>11 DEF Closed
<1>20. \A m \in T \ K : m # p => m \in DOMAIN w.disk /\ D[m] = w.disk[m]
  BY <1>7, <1>8, <1>18
<1>21. Swap(w, T, K, p, D, r, r)
  BY ONLY <1>3, <1>4, <1>15, <1>16, <1>17, <1>19, <1>20 DEF Swap
<1>22. InRound(w, A, Rest(T, K, p))
  <2>1. PICK R : R = Rest(T, K, p)
    OBVIOUS
  <2>2. R \cap K = {} /\ R \cup K = T
    BY <1>3, <1>15, <1>19, <2>1 DEF Rest
  <2>3. PICK B : Once(w.list2, B) /\ B \subseteq A \cup mk /\ T = (A \cup mk) \ B
    BY DEF Tally
  <2>4. Books(ks, w.list2, w.made, A, R)
    BY <1>8, <1>13, <2>2, <2>3 DEF Books
  <2>5. InBooks(w, ks, A, R)
    BY <1>8, <2>4 DEF InBooks
  <2>6. w.node.page = Kid(w.parent, w.idx)
    BY <1>8 DEF WorkBelow
  <2> QED  BY <1>1, <2>1, <2>5, <2>6 DEF InRound
<1> QED  BY <1>1, <1>3, <1>8, <1>21, <1>22

(* A round of the root: the parent is new.                                 *)
WorkAbove(w, d, nd, mk, p) ==
    /\ Fields(w) /\ w.disk = d /\ w.node = nd /\ w.made = mk \cup {p} /\ w.parent = Freshnode(p, FALSE)
    /\ ~w.done /\ w.idx = 0 /\ p \notin DOMAIN d \cup mk
LEMMA SwapAbove ==
    ASSUME NEW z, NEW d, NEW r, NEW n, NEW o, NEW P, NEW l, NEW nd, NEW mk,
           Climbs(z, d, r, n, o, P, l, nd, mk), l = 1,
           NEW w, NEW p, WorkAbove(w, d, nd, mk, p),
           NEW T, T = Shadow(d, r, n, l, nd),
           NEW A, A \subseteq DOMAIN d, Tally(A, mk, w.list2, T)
    PROVE  Swap(w, T, {r}, p, Putnode(d, nd), r, p) /\ InSplit(w, A, Rest(T, {r}, p))
<1>1. PICK D : D = Putnode(d, nd)
  OBVIOUS
<1>2. n \in Nat /\ Trees(d, z) /\ l > 0 /\ l # 0
  BY DEF Climbs, Holding
<1>3. /\ T \subseteq Int
      /\ \A m \in T : \A q : Has(D[m], q) => z[q].h = z[m].h - 1
      /\ \A m \in T : m \in DOMAIN z /\ z[m].h \in Nat /\ z[m].h =< n
  BY <1>1, <1>2, ShadowPath
<1>4. Closed(D, r, T)
  <2>1. TopOf(r, l, nd) = r
    BY <1>2 DEF TopOf
  <2> QED  BY <1>1, <2>1, ShadowIs
<1>5. z[r].h = n /\ nd.page = r /\ Fit(nd)
  <2>1. Rooted(z, d, r, n) /\ P[1] = r /\ AtLevel(z, o, P, l, nd)
    BY <1>2, RootFirst
  <2> QED  BY <2>1 DEF Rooted, AtLevel
<1>6. r \in T /\ \A m \in T : m \in DOMAIN d
  BY <1>2, <1>3, <1>4 DEF Closed, Trees
<1>7. /\ \A m \in T : m # r => D[m] = d[m]
      /\ D[r] = Image(nd)
  BY <1>1, <1>5, <1>6 DEF Putnode
<1>8. /\ w.disk = d /\ w.node = nd /\ w.made = mk \cup {p} /\ ~w.done /\ w.parent.kids = <<0>>
      /\ ~w.parent.leaf /\ Fields(w) /\ "kids" \in DOMAIN w.parent /\ w.idx = 0
      /\ p \notin DOMAIN d /\ p \notin mk
  BY DEF WorkAbove, Freshnode
<1>9. p \notin T /\ p # r
  BY <1>6, <1>8
<1>10. Len(<<0>>) = 1 /\ <<0>> \in Seq(Int) /\ 0 + 1 = 1
  OBVIOUS
<1>11. \A q : (\E m \in {r} : Has(D[m], q)) <=> OldBelow(w, q)
  <2>1. D[r].kids = nd.kids
    BY <1>7 DEF Image
  <2>2. Old(w, 1) = nd
    BY <1>8, <1>10 DEF Old
  <2>3. \A q : OldBelow(w, q) <=> Has(nd, q)
    <3>1. \A j : j \in 1 .. Len(w.parent.kids) <=> j = 1
      BY <1>8, <1>10
    <3> QED  BY <2>2, <3>1 DEF OldBelow
  <2> QED  BY <2>1, <2>3 DEF Has
<1>12. \A m \in T : \A q \in {r} : Has(D[m], q) => m = p
  <2> SUFFICES ASSUME NEW m \in T, Has(D[m], r) PROVE FALSE
    OBVIOUS
  <2> QED  BY <1>2, <1>3, <1>5
<1>13. Swap(w, T, {r}, p, D, r, p)
  BY <1>4, <1>6, <1>7, <1>8, <1>9, <1>11, <1>12 DEF Swap
<1>14. InSplit(w, A, Rest(T, {r}, p))
  <2>1. PICK R : R = Rest(T, {r}, p)
    OBVIOUS
  <2>2. Hole(w) = <<r>>
    <3>1. Hole(w) = [<<0>> EXCEPT ![1] = r]
      BY <1>5, <1>8, <1>10 DEF Hole
    <3>2. [<<0>> EXCEPT ![1] = r] = <<r>>
      OBVIOUS
    <3> QED  BY <3>1, <3>2
  <2>3. Once(<<r>>, {r})
    <3>1. r \in Int
      BY <1>3, <1>6
    <3>2. Len(<<r>>) = 1 /\ <<r>>[1] = r /\ <<r>> \in Seq(Int)
      BY <3>1
    <3>3. \A i : i \in 1 .. Len(<<r>>) <=> i = 1
      BY <3>2
    <3> QED  BY <3>2, <3>3 DEF Once
  <2>4. PICK B : Once(w.list2, B) /\ B \subseteq A \cup mk /\ T = (A \cup mk) \ B
    BY DEF Tally
  <2>5. p \notin A \cup mk
    BY <1>8
  <2>6. R \cap {r} = {} /\ R \cup {r} = (A \cup w.made) \ B /\ B \subseteq A \cup w.made
    BY <1>6, <1>8, <1>9, <2>1, <2>4, <2>5 DEF Rest
  <2>7. Books(<<r>>, w.list2, w.made, A, R)
    BY <2>3, <2>4, <2>6 DEF Books
  <2>8. InBooks(w, Hole(w), A, R)
    BY <1>8, <2>2, <2>7 DEF InBooks
  <2>9. HasPage(w.node)
    BY <1>5, <1>8 DEF Fit, NodeType, HasPage
  <2>10. w.idx \in Nat /\ w.idx + 1 \in 1 .. Len(w.parent.kids) /\ w.parent.kids \in Seq(Int)
    BY <1>8, <1>10
  <2> QED  BY <1>8, <2>1, <2>8, <2>9, <2>10 DEF InSplit
<1> QED  BY <1>1, <1>13, <1>14

LEMMA ReachNone ==
    ASSUME NEW d, NEW r
    PROVE  ReachOf(d, r, 0) = {}
<1>1. \A i : i \notin 1 .. 0
  OBVIOUS
<1> QED  BY <1>1 DEF ReachOf

LEMMA ReachDisk ==
    ASSUME NEW z, NEW d, NEW r, NEW n, Holding(z, d, r, n)
    PROVE  ReachOf(d, r, n) \subseteq DOMAIN d
<1>1. CASE n = 0
  BY <1>1, ReachNone
<1>2. CASE n # 0
  <2>1. Rooted(z, d, r, n)
    BY <1>2 DEF Holding
  <2> QED  BY <2>1, ReachIs
<1> QED  BY <1>1, <1>2

(* What the round left is the tree of the level above.                     *)
LEMMA ShadowNext ==
    ASSUME NEW z, NEW d, NEW r, NEW n, NEW o, NEW P, NEW l, NEW nd, NEW mk,
           Climbs(z, d, r, n, o, P, l, nd, mk), l > 0,
           NEW T, T = Shadow(d, r, n, l, nd),
           NEW x, NEW y, NEW k, k = l - 1, Climbs(y, x.disk, r, n, o, P, k, x.parent, x.made), Extends(z, y),
           \A m : Has(x.parent, m) => m \in DOMAIN y /\ y[m].h \in Nat /\ y[m].h =< n + 1,
           NEW p, p = x.parent.page, l > 1 => p \in T,
           NEW A, NEW K, NEW S, Swapped(x, T, K, p, TopOf(r, k, x.parent), A, S)
    PROVE  Tally(A, x.made, x.list2, Shadow(x.disk, r, n, k, x.parent))
<1>1. n \in Nat /\ l \in Nat /\ l # 0 /\ (k = 0 <=> l = 1)
  BY DEF Climbs, Holding
<1>2. \A m \in T : Ranked(z, n, l, nd, m)
  BY ShadowIs
<1>3. \A m \in T : m \in DOMAIN y /\ y[m].h \in Nat /\ y[m].h =< n + 1
  BY <1>1, <1>2 DEF Ranked, Extends
<1>4. PICK pa, e, mm : pa = x.parent /\ e = x.disk /\ mm = x.made
  OBVIOUS
<1>5. \A m \in S : Ranked(y, n, k, pa, m)
  <2> SUFFICES ASSUME NEW m \in S PROVE Ranked(y, n, k, pa, m)
    OBVIOUS
  <2>1. m \in T \/ m = p \/ Has(x.parent, m)
    BY DEF Swapped
  <2>2. CASE m \in DOMAIN y /\ y[m].h \in Nat /\ y[m].h =< n + 1
    BY <2>2 DEF Ranked
  <2>3. CASE m = p /\ l = 1
    BY <1>1, <1>4, <2>3 DEF Ranked
  <2>4. CASE m = p /\ l # 1
    <3>1. l > 1
      BY <1>1, <2>4
    <3>2. m \in T
      BY <2>4, <3>1
    <3> QED  BY <1>3, <2>2, <3>2
  <2> QED  BY <1>3, <2>1, <2>2, <2>3, <2>4
<1>6. Closed(Putnode(e, pa), TopOf(r, k, pa), S) /\ Tally(A, x.made, x.list2, S)
  BY <1>4 DEF Swapped
<1>7. PICK T1 : T1 = Shadow(e, r, n, k, pa)
  OBVIOUS
<1>8. Climbs(y, e, r, n, o, P, k, pa, mm)
  BY <1>4
<1>9. S = T1
  BY ONLY <1>5, <1>6, <1>7, <1>8, ShadowOnly
<1> QED  BY <1>4, <1>6, <1>7, <1>9

(* The lists tell the tree the climb is about to make.                     *)
Virtual == Shadow(disk, root, depth, level, node)
LEMMA WorkAboveIs ==
    ASSUME level = 1, NEW w, w = Work, 0 \notin w.made
    PROVE  WorkAbove(w, disk, node, made, w.parent.page)
<1>1. IsWork(w)
  BY WorkIs
<1>2. PICK p : p = Unused(DOMAIN disk \cup made)
  OBVIOUS
<1>3. Fresh1 = Freshnode(p, FALSE) /\ Fresh1.page = p
  BY <1>2 DEF Fresh1, Freshnode
<1>4. w.parent = Freshnode(p, FALSE) /\ w.made = made \cup {p} /\ w.parent.page = p /\ w.idx = 0
  BY <1>1, <1>3 DEF IsWork
<1>5. p \notin DOMAIN disk \cup made
  <2>1. p # 0
    BY <1>4
  <2> QED  BY <1>2, <2>1, UnusedIs
<1> QED  BY <1>1, <1>4, <1>5 DEF WorkAbove, IsWork

NextShadow(x) == Shadow(x.disk, root, depth, level - 1, x.parent)
LEMMA RoundTally ==
    ASSUME NEW z, Here(z), level > 0, ParentMatches, NEW w, w = Work, 0 \notin w.made,
           NEW s, NEW x, Rnd(w, s, x), level = 1 => s = w,
           Tally(Reach, made, list2, Virtual)
    PROVE  /\ Tally(Reach, x.made, x.list2, NextShadow(x))
           /\ ReachOf(x.disk, root, depth) = Reach
<1>1. PICK d, r, n, o, P, l, nd, mk, k, A, T :
         /\ d = disk /\ r = root /\ n = depth /\ o = op /\ P = path /\ l = level /\ nd = node /\ mk = made
         /\ k = level - 1 /\ A = Reach /\ T = Virtual
  OBVIOUS
<1>2. Climbs(z, d, r, n, o, P, l, nd, mk) /\ l > 0
  BY <1>1 DEF Here
<1>3. T = Shadow(d, r, n, l, nd) /\ Tally(A, mk, w.list2, T) /\ IsWork(w)
  BY <1>1, WorkIs DEF Virtual, IsWork
<1>4. PICK M, v : Ready(w, z, M, v) /\ Aim(z, w, v)
  BY WorkGood
<1>5. PICK y, N : Going(x, y, N, v, {}) /\ Later(w, z, x, y, v.h - 1)
  BY <1>4, RoundGoing
<1>6. Climbs(y, x.disk, r, n, o, P, k, x.parent, x.made)
  <2>1. Climbs(y, x.disk, root, depth, op, path, level - 1, x.parent, x.made)
    BY ONLY <1>3, <1>4, <1>5, UpGood, Here(z), level > 0
  <2> QED  BY ONLY <1>1, <2>1
<1>7. Extends(z, y) /\ Extends(w.disk, x.disk) /\ x.parent.page = w.parent.page
  BY <1>5 DEF Later
<1>8. Holding(z, d, r, n) /\ Holding(y, x.disk, r, n) /\ A = ReachOf(d, r, n) /\ n \in Nat /\ l \in 0 .. n
      /\ Rooted(z, d, r, n)
  <2>1. A = ReachOf(d, r, n)
    BY <1>1, OfIs
  <2>2. Rooted(z, d, r, n)
    BY <1>2, RootFirst
  <2> QED  BY <1>2, <1>6, <2>1, <2>2 DEF Climbs, Holding
<1>9. A \subseteq DOMAIN d /\ w.disk = d
  BY <1>3, <1>1, <1>8, ReachDisk DEF IsWork
<1>10. ReachOf(x.disk, r, n) = A
  <2>1. Rooted(y, x.disk, r, n)
    BY <1>2, <1>8 DEF Holding
  <2>2. Extends(d, x.disk)
    BY <1>7, <1>9
  <2> QED  BY ONLY <1>8, <2>1, <2>2, ReachSame
<1>11. \A m : Has(x.parent, m) => m \in DOMAIN y /\ y[m].h \in Nat /\ y[m].h =< n + 1
  <2> SUFFICES ASSUME NEW m, Has(x.parent, m) PROVE m \in DOMAIN y /\ y[m].h \in Nat /\ y[m].h =< n + 1
    OBVIOUS
  <2>1. Par(y, x.parent, N, v, {})
    BY <1>5 DEF Going
  <2>2. Sound(y, x.parent, v)
    BY <2>1, ParSound
  <2>3. m \in DOMAIN y /\ y[m].h = v.h - 1 /\ y[m] \in Label
    BY <2>2, HasIs
  <2>4. v.h = n + 2 - l
    BY <1>1, <1>4 DEF Aim
  <2>5. y[m].h \in Nat
    BY <2>3, LabelIs
  <2>6. y[m].h =< n + 1
    BY <1>2, <1>8, <2>3, <2>4
  <2> QED  BY <2>3, <2>5, <2>6
<1>12. PICK p, K : /\ p = x.parent.page /\ (l > 1 => p \in T)
                   /\ Swap(w, T, K, p, Putnode(d, nd), r, TopOf(r, k, x.parent))
                   /\ (InRound(w, A, Rest(T, K, p)) \/ (s = w /\ ~s.done /\ InSplit(w, A, Rest(T, K, p))))
  <2>1. CASE l > 1
    <3>1. w.parent = Getnode(d, P[l - 1]) /\ w.made = mk
      BY <1>1, <1>3, <2>1 DEF IsWork
    <3>2. WorkBelow(w, d, P, l, nd, mk)
      <4>1. nd.page = Kid(w.parent, w.idx)
        BY <1>1, <2>1 DEF ParentMatches
      <4> QED  BY <1>1, <1>3, <3>1, <4>1 DEF WorkBelow, IsWork
    <3>3. /\ w.parent.page \in T
          /\ \E K : /\ Swap(w, T, K, w.parent.page, Putnode(d, nd), r, r)
                    /\ InRound(w, A, Rest(T, K, w.parent.page))
      BY ONLY <1>2, <1>3, <1>4, <1>9, <2>1, <3>2, SwapBelow
    <3>4. TopOf(r, k, x.parent) = r
      BY <1>1, <1>8, <2>1 DEF TopOf
    <3> QED  BY <1>7, <3>3, <3>4
  <2>2. CASE l = 1
    <3>1. PICK p : p = w.parent.page
      OBVIOUS
    <3>2. WorkAbove(w, d, nd, mk, p)
      BY <1>1, <2>2, <3>1, WorkAboveIs
    <3>3. Swap(w, T, {r}, p, Putnode(d, nd), r, p) /\ InSplit(w, A, Rest(T, {r}, p))
      BY ONLY <1>2, <1>3, <1>9, <2>2, <3>2, SwapAbove
    <3>4. TopOf(r, k, x.parent) = p
      <4>1. k = 0
        BY <1>1, <2>2
      <4> QED  BY <1>7, <3>1, <4>1 DEF TopOf
    <3>5. s = w /\ ~s.done
      BY <1>1, <2>2, <3>2 DEF WorkAbove
    <3> QED  BY <1>7, <2>2, <3>1, <3>3, <3>4, <3>5
  <2> QED  BY <1>2, <1>8, <2>1, <2>2
<1>13. InBooks(x, x.parent.kids, A, Rest(T, K, p))
  <2>1. PICK R : R = Rest(T, K, p)
    OBVIOUS
  <2>2. InRound(w, A, R) \/ (s = w /\ ~s.done /\ InSplit(w, A, R))
    BY <1>12, <2>1
  <2>3. InBooks(x, x.parent.kids, A, R)
    BY ONLY <1>4, <2>2, Rnd(w, s, x), RoundBooks
  <2> QED  BY <2>1, <2>3
<1>14. \E S : Swapped(x, T, K, p, TopOf(r, k, x.parent), A, S)
  <2>1. PICK D, r1 : D = Putnode(d, nd) /\ r1 = TopOf(r, k, x.parent)
    OBVIOUS
  <2>2. Swap(w, T, K, p, D, r, r1) /\ x.parent.page = p
    BY <1>12, <2>1
  <2>3. \E S : Swapped(x, T, K, p, r1, A, S)
    BY ONLY <1>4, <1>7, <1>13, <2>2, Rnd(w, s, x), RoundSwap
  <2> QED  BY <2>1, <2>3
<1>15. PICK S : Swapped(x, T, K, p, TopOf(r, k, x.parent), A, S)
  BY <1>14
<1>16. Tally(A, x.made, x.list2, Shadow(x.disk, r, n, k, x.parent))
  <2>1. k = l - 1 /\ p = x.parent.page /\ (l > 1 => p \in T)
    BY <1>1, <1>12
  <2> QED  BY ONLY <1>2, <1>3, <1>6, <1>7, <1>11, <1>15, <2>1, ShadowNext
<1> QED  BY <1>1, <1>10, <1>16 DEF NextShadow

(* The books, between the steps of an update.                              *)
Acc ==
    /\ pc = "idle" => list2 = <<>> /\ made = {}
    /\ pc = "balance" => Tally(Reach, made, list2, Virtual)
    /\ pc = "whead" => Tally(Reach, made, list2, ReachOf(disk, node.page, depth + 1))
Told == Tally(Reach, made', list2', Reach')

LEMMA ReachTold == Reach = ReachOf(disk, root, depth)
BY OfIs

LEMMA NothingTold ==
    ASSUME NEW A, NEW m
    PROVE  Tally(A, m, <<>>, A \cup m)
<1>1. Len(<<>>) = 0 /\ <<>> \in Seq(Int)
  OBVIOUS
<1>2. \A i : i \notin 1 .. Len(<<>>)
  BY <1>1
<1>3. Once(<<>>, {})
  BY <1>1, <1>2 DEF Once
<1> QED  BY <1>3 DEF Tally

LEMMA NoChild ==
    ASSUME NEW z, NEW pg, NEW v, Sound(z, pg, v), v.h = 1
    PROVE  \A q : ~Has(pg, q)
<1> SUFFICES ASSUME NEW q, Has(pg, q) PROVE FALSE
  OBVIOUS
<1>1. v.h > 1
  BY HasIs DEF IsIndex
<1> QED  BY <1>1

(* A leaf in memory: the tree is the one of the header, or its first page. *)
LEMMA ShadowLeaf ==
    ASSUME NEW z, NEW d, NEW r, NEW n, NEW o, NEW P, NEW l, NEW nd, NEW mk,
           Climbs(z, d, r, n, o, P, l, nd, mk), l = n
    PROVE  Shadow(d, r, n, l, nd) = IF n = 0 THEN {nd.page} ELSE ReachOf(d, r, n)
<1>1. PICK D, t, R, T : /\ D = Putnode(d, nd) /\ t = TopOf(r, l, nd) /\ T = Shadow(d, r, n, l, nd)
                        /\ R = IF n = 0 THEN {nd.page} ELSE ReachOf(d, r, n)
  OBVIOUS
<1>2. n \in Nat /\ Trees(d, z) /\ D[nd.page] = Image(nd)
  BY <1>1 DEF Climbs, Holding, Putnode
<1>3. \A q : ~Has(nd, q)
  <2>1. CASE n = 0
    <3>1. PICK v : v = Whole(Changed(All(z, r, n), o), n)
      OBVIOUS
    <3>2. Sound(z, nd, v)
      BY <2>1, <3>1 DEF Climbs, Above
    <3>3. v.h = 1
      BY <2>1, <3>1 DEF Whole
    <3> QED  BY <3>2, <3>3, NoChild
  <2>2. CASE n # 0
    <3>1. l > 0
      BY <1>2, <2>2
    <3>2. P[l] \in DOMAIN z /\ z[P[l]].h = n + 1 - l /\ AtLevel(z, o, P, l, nd)
      BY <3>1, RootFirst
    <3>3. z[P[l]] \in Label
      BY <1>2, <3>2 DEF Trees, Sound
    <3>4. Upd(z[P[l]], o).h = 1
      <4>1. n + 1 - l = 1
        BY <1>2
      <4> QED  BY <3>2, <3>3, <4>1, UpdIs
    <3> QED  BY <3>2, <3>4, NoChild DEF AtLevel
  <2> QED  BY <2>1, <2>2
<1>4. \A q : ~Has(D[nd.page], q)
  <2>1. D[nd.page].kids = nd.kids
    BY <1>2 DEF Image
  <2> QED  BY <1>3, <2>1 DEF Has
<1>5. Closed(D, t, R) /\ \A m \in R : Ranked(z, n, l, nd, m)
  <2>1. CASE n = 0
    <3>1. R = {nd.page} /\ t = nd.page
      BY <1>1, <2>1 DEF TopOf
    <3> QED  BY <1>4, <2>1, <3>1 DEF Closed, Ranked
  <2>2. CASE n # 0
    <3>1. R = ReachOf(d, r, n) /\ t = r /\ l > 0
      BY <1>1, <1>2, <2>2 DEF TopOf
    <3>2. Rooted(z, d, r, n) /\ P[l] \in DOMAIN z /\ z[P[l]].h = n + 1 - l /\ AtLevel(z, o, P, l, nd)
      BY <3>1, RootFirst
    <3>3. Closed(d, r, R) /\ \A m \in R : m \in DOMAIN z /\ z[m].h \in Nat /\ z[m].h =< n
      BY ONLY <3>1, <3>2, ClosedIs
    <3>4. \A m \in R : \A q : Has(D[m], q) <=> Has(d[m], q)
      <4>1. \A m \in R : m # nd.page => D[m] = d[m]
        BY <1>1, <1>2, <3>3 DEF Putnode, Trees
      <4>2. \A q : ~Has(d[nd.page], q)
        <5>1. PICK p : p = nd.page
          OBVIOUS
        <5>2. n + 1 - l = 1
          BY <1>2
        <5>3. p \in DOMAIN z /\ z[p].h = 1
          BY <3>2, <5>1, <5>2 DEF AtLevel
        <5>4. Sound(z, d[p], z[p])
          BY <1>2, <5>3 DEF Trees
        <5>5. \A q : ~Has(d[p], q)
          BY ONLY <5>3, <5>4, NoChild
        <5> QED  BY <5>1, <5>5
      <4> QED  BY <1>4, <4>1, <4>2
    <3>5. Closed(D, t, R)
      BY <3>1, <3>3, <3>4 DEF Closed
    <3>6. \A m \in R : Ranked(z, n, l, nd, m)
      BY <1>2, <3>3 DEF Ranked
    <3> QED  BY <3>5, <3>6
  <2> QED  BY <2>1, <2>2
<1>6. R = T
  <2>1. Closed(Putnode(d, nd), TopOf(r, l, nd), R)
    BY <1>1, <1>5
  <2> QED  BY ONLY <1>1, <1>5, <2>1, Climbs(z, d, r, n, o, P, l, nd, mk), ShadowOnly
<1> QED  BY <1>1, <1>6

LEMMA BegunAcc ==
    ASSUME Acc, IInv', pc = "idle", pc' = "balance", UNCHANGED <<disk, root, depth, list2>>,
           level' = depth, made' = IF depth = 0 THEN {node'.page} ELSE made
    PROVE  Acc'
<1>1. PICK z : Right(z)'
  BY DEF IInv
<1>2. PICK d, r, n, o, P, nd, mk : /\ d = disk /\ r = root /\ n = depth /\ o = op' /\ P = path'
                                   /\ nd = node' /\ mk = made'
  OBVIOUS
<1>3. Here(z)'
  BY <1>1 DEF Right
<1>4. Climbs(z, d, r, n, o, P, n, nd, mk)
  BY <1>2, <1>3 DEF Here
<1>5. Shadow(d, r, n, n, nd) = IF n = 0 THEN {nd.page} ELSE ReachOf(d, r, n)
  <2>1. PICK l : l = n
    OBVIOUS
  <2>2. Climbs(z, d, r, n, o, P, l, nd, mk)
    BY <1>4, <2>1
  <2>3. Shadow(d, r, n, l, nd) = IF n = 0 THEN {nd.page} ELSE ReachOf(d, r, n)
    BY ONLY <2>1, <2>2, ShadowLeaf
  <2> QED  BY <2>1, <2>3
<1>6. Virtual' = Shadow(d, r, n, n, nd)
  BY <1>2 DEF Virtual
<1>7. Reach' = ReachOf(d, r, n)
  <2>1. (Reach = ReachOf(disk, root, depth))'
    BY ReachTold, PTL
  <2> QED  BY <1>2, <2>1
<1>8. list2' = <<>> /\ mk = IF n = 0 THEN {nd.page} ELSE {}
  BY <1>2 DEF Acc
<1>9. Virtual' = Reach' \cup made'
  <2>1. n = 0 => ReachOf(d, r, n) = {}
    BY ReachNone
  <2> QED  BY <1>2, <1>5, <1>6, <1>7, <1>8, <2>1
<1>10. Tally(Reach', made', list2', Virtual')
  BY <1>8, <1>9, NothingTold
<1> QED  BY <1>10 DEF Acc

(* The ends of the climb. *)
LEMMA WrittenTold ==
    ASSUME Acc, pc = "balance", level # 0, disk' = Putnode(disk, node), UNCHANGED <<root, depth, lists>>
    PROVE  Told
<1>1. (Reach = ReachOf(disk, root, depth))'
  BY ReachTold, PTL
<1>2. Reach' = ReachOf(Putnode(disk, node), root, depth)
  BY <1>1
<1>3. Virtual = ReachOf(Putnode(disk, node), root, depth)
  BY DEF Virtual, Shadow, TopOf, TallOf
<1> QED  BY <1>2, <1>3 DEF Acc, Told, lists

LEMMA StayTold ==
    ASSUME IInv, Acc, ClimbStay
    PROVE  Told
<1>1. PICK w, x, u : w = Work /\ x = Spreading /\ u = [x EXCEPT !.disk = Putnode(@, x.node)]
  OBVIOUS
<1>2. /\ pc = "balance" /\ level > 0 /\ pc' = "finish" /\ ~x.bad /\ ~x.done /\ x.node.end =< PgSize /\ Up(u)
      /\ ~WellFilled
  BY <1>1 DEF ClimbStay, Climbing, UpStay, Goto
<1>3. Fields(x) /\ IsWork(w)
  BY <1>1, SpreadingFields
<1>4. u.disk = Putnode(x.disk, x.node) /\ u.made = x.made /\ u.list2 = x.list2
  BY <1>1, <1>3 DEF Fields
<1>5. 0 \notin u.made /\ disk' = u.disk /\ made' = u.made /\ list2' = u.list2 /\ UNCHANGED <<root, depth, op>>
  BY <1>2 DEF Up, header
<1>6. PICK z : Right(z)
  BY DEF IInv
<1>7. Here(z)
  BY <1>2, <1>6 DEF Right
<1>8. Rounded(z, w, x)
  BY ONLY <1>1, <1>2, <1>4, <1>5, <1>7, SpreadingGood
<1>9. PICK M, v, y, N : Ready(w, z, M, v) /\ Aim(z, w, v) /\ Outcome(w, z, x, y, N, v)
  BY <1>8 DEF Rounded
<1>10. Ready(x, y, N, v) /\ (x = w \/ x.node.end > PgSize)
  BY <1>2, <1>9 DEF Outcome
<1>11. x.node.end \in Int /\ PgSize \in Nat
  BY <1>10, SizesAssumption DEF Ready, Fit, NodeType
<1>12. x = w
  BY <1>2, <1>10, <1>11
<1>13. disk' = Putnode(disk, node) /\ list2' = list2 /\ node.end =< PgSize
  BY <1>2, <1>3, <1>4, <1>5, <1>12 DEF IsWork
<1>14. level # 1
  BY <1>2, <1>13 DEF WellFilled
<1>15. made' = made
  BY <1>3, <1>4, <1>5, <1>12, <1>14 DEF IsWork
<1>16. level # 0
  <2>1. level \in 0 .. depth /\ depth \in Nat
    BY <1>7 DEF Here, Climbs, Holding
  <2> QED  BY <1>2, <2>1
<1> QED  BY <1>2, <1>5, <1>13, <1>15, <1>16, WrittenTold DEF lists

(* A new root, written. *)
LEMMA GrowAcc ==
    ASSUME IInv, IInv', Acc, Grow
    PROVE  Acc'
<1>1. PICK d, r, n, nd, e : d = disk /\ r = root /\ n = depth /\ nd = node /\ e = Putnode(disk, node)
  OBVIOUS
<1>2. /\ pc = "balance" /\ level = 0 /\ disk' = e /\ pc' = "whead"
      /\ root' = r /\ depth' = n /\ node' = nd /\ made' = made /\ list2' = list2
  BY <1>1 DEF Grow, Goto, header, update, lists
<1>3. PICK z : Right(z)
  BY DEF IInv
<1>4. PICK y : Right(y)'
  BY DEF IInv
<1>5. Holding(z, d, r, n) /\ nd.page \notin DOMAIN d
  BY <1>1, <1>2, <1>3 DEF Right, Here, Climbs, Above
<1>6. Holding(y, e, r, n)
  <2>1. Holding(y, disk, root, depth)'
    BY <1>4 DEF Right
  <2> QED  BY <1>2, <2>1
<1>7. ReachOf(e, r, n) = ReachOf(d, r, n)
  <2>1. CASE n = 0
    BY <2>1, ReachNone
  <2>2. CASE n # 0
    <3>1. Rooted(z, d, r, n) /\ Rooted(y, e, r, n)
      BY <1>5, <1>6, <2>2 DEF Holding
    <3>2. Extends(d, e)
      BY <1>1, <1>5 DEF Extends, Putnode
    <3> QED  BY ONLY <3>1, <3>2, ReachSame
  <2> QED  BY <2>1, <2>2
<1>8. (Reach = ReachOf(disk, root, depth))'
  BY ReachTold, PTL
<1>9. Reach' = Reach
  BY <1>1, <1>2, <1>7, <1>8, ReachTold
<1>10. Virtual = ReachOf(e, nd.page, n + 1)
  BY <1>1, <1>2 DEF Virtual, Shadow, TopOf, TallOf
<1>11. Tally(Reach', made', list2', ReachOf(disk', node'.page, depth' + 1))
  BY <1>2, <1>9, <1>10 DEF Acc
<1> QED  BY <1>2, <1>11 DEF Acc

LEMMA WheadTold ==
    ASSUME Acc, Whead
    PROVE  Told
<1>1. /\ pc = "whead" /\ root' = node.page /\ depth' = depth + 1 /\ disk' = disk
      /\ made' = made /\ list2' = list2
  BY DEF Whead, lists
<1>2. (Reach = ReachOf(disk, root, depth))'
  BY ReachTold, PTL
<1> QED  BY <1>1, <1>2 DEF Acc, Told

(* A root without entries is left out. *)
Gone(d, r, n, l, nd, R) ==
    nd.page \notin R /\ nd.page \in Int /\ Shadow(d, r, n, l, nd) = R \cup {nd.page}
LEMMA ShadowGone ==
    ASSUME NEW z, NEW d, NEW r, NEW n, NEW o, NEW P, NEW l, NEW nd, NEW mk,
           Climbs(z, d, r, n, o, P, l, nd, mk), l = 1, Len(nd.ents) = 0,
           NEW q, q = IF nd.leaf THEN 0 ELSE nd.kids[1],
           NEW c, c = n - 1, NEW R, R = ReachOf(d, q, c)
    PROVE  Gone(d, r, n, l, nd, R)
<1>1. PICK D, T, S, v : /\ D = Putnode(d, nd) /\ T = Shadow(d, r, n, l, nd) /\ S = R \cup {nd.page}
                        /\ v = Upd(z[r], o)
  OBVIOUS
<1>2. l > 0 /\ l # 0
  OBVIOUS
<1>3. Rooted(z, d, r, n) /\ P[1] = r /\ AtLevel(z, o, P, l, nd)
  BY <1>2, RootFirst
<1>4. /\ n \in Nat /\ n > 0 /\ Trees(d, z) /\ DOMAIN d \subseteq Page /\ r \in DOMAIN z /\ z[r].h = n
      /\ z[r] \in Label /\ r \in DOMAIN d
  BY <1>3 DEF Climbs, Holding, Rooted, Trees, Sound
<1>5. nd.page = r /\ Sound(z, nd, v)
  BY <1>1, <1>3 DEF AtLevel
<1>6. v.h = n
  BY <1>1, <1>4, UpdIs
<1>7. r \in Int
  BY <1>4 DEF Page
<1>8. D[r] = Image(nd) /\ D[r].kids = nd.kids
  BY <1>1, <1>5 DEF Putnode, Image
<1>9. /\ Holding(z, d, q, n - 1) /\ (n - 1 = 0 => q = 0)
  <2>1. Climbs(z, d, r, n, o, P, 1, nd, mk)
    OBVIOUS
  <2> QED  BY ONLY <2>1, RootGone, Len(nd.ents) = 0, q = IF nd.leaf THEN 0 ELSE nd.kids[1]
<1>10. CASE nd.leaf
  <2>1. n = 1
    BY <1>5, <1>6, <1>10, EmptyLeaf
  <2>2. c = 0
    BY <2>1
  <2>3. R = {}
    BY <2>2, ReachNone
  <2>4. \A m : ~Has(D[r], m)
    <3>1. \A m : ~Has(nd, m)
      BY <1>5, <1>6, <2>1, NoChild
    <3> QED  BY <1>8, <3>1 DEF Has
  <2>5. Closed(D, TopOf(r, l, nd), S)
    BY <1>1, <1>2, <1>5, <2>3, <2>4 DEF Closed, TopOf
  <2>6. \A m \in S : Ranked(z, n, l, nd, m)
    BY <1>1, <1>4, <1>5, <2>3 DEF Ranked
  <2>7. Closed(Putnode(d, nd), TopOf(r, l, nd), S)
    BY <1>1, <2>5
  <2>8. S = T
    BY ONLY <1>1, <2>6, <2>7, Climbs(z, d, r, n, o, P, l, nd, mk), ShadowOnly
  <2> QED  BY <1>1, <1>5, <1>7, <2>3, <2>8 DEF Gone
<1>11. CASE ~nd.leaf
  <2>1. v.h > 1 /\ q = nd.kids[1]
    BY <1>5, <1>11, OnlyChild
  <2>2. PICK k : k = n - 1
    OBVIOUS
  <2>3. k \in Nat /\ k # 0 /\ k > 0 /\ k < n
    BY <1>4, <1>6, <2>1, <2>2
  <2>4. Rooted(z, d, q, k) /\ R = ReachOf(d, q, k)
    BY <1>9, <2>2, <2>3 DEF Holding
  <2>5. Closed(d, q, R) /\ \A m \in R : m \in DOMAIN z /\ z[m].h \in Nat /\ z[m].h =< k
    BY ONLY <2>4, ClosedIs
  <2>6. r \notin R
    BY <1>4, <2>3, <2>5
  <2>7. \A m : Has(D[r], m) <=> m = q
    <3>1. IsIndex(z, nd, v)
      BY <1>5, <1>11, IndexIs
    <3>2. Len(nd.kids) = 1
      BY <3>1 DEF IsIndex
    <3>3. \A j : j \in 1 .. Len(nd.kids) <=> j = 1
      BY <3>2
    <3> QED  BY <1>8, <2>1, <3>3 DEF Has
  <2>8. \A m \in R : D[m] = d[m]
    BY <1>1, <1>4, <1>5, <2>5, <2>6 DEF Putnode, Trees
  <2>9. Closed(D, r, S)
    <3>1. S = R \cup {r} /\ q \in R
      BY <1>1, <1>5, <2>5 DEF Closed
    <3>2. ASSUME NEW m \in S, NEW e, Has(D[m], e) PROVE e \in S
      <4>1. CASE m = r
        BY <2>7, <3>1, <3>2, <4>1
      <4>2. CASE m \in R
        <5>1. Has(d[m], e)
          BY <2>8, <3>2, <4>2
        <5> QED  BY <2>5, <3>1, <4>2, <5>1 DEF Closed
      <4> QED  BY <3>1, <4>1, <4>2
    <3>3. ASSUME NEW e \in S PROVE e = r \/ \E m \in S : Has(D[m], e)
      <4>1. CASE e = r
        BY <4>1
      <4>2. CASE e = q
        <5>1. Has(D[r], e)
          BY <2>7, <4>2
        <5> QED  BY <3>1, <5>1
      <4>3. CASE e \in R /\ e # q
        <5>1. PICK m \in R : Has(d[m], e)
          BY <2>5, <4>3 DEF Closed
        <5>2. Has(D[m], e)
          BY <2>8, <5>1
        <5> QED  BY <3>1, <5>2
      <4> QED  BY <3>1, <4>1, <4>2, <4>3
    <3> QED  BY <3>1, <3>2, <3>3 DEF Closed
  <2>10. Closed(Putnode(d, nd), TopOf(r, l, nd), S)
    BY <1>1, <1>2, <2>9 DEF TopOf
  <2>11. \A m \in S : Ranked(z, n, l, nd, m)
    BY <1>1, <1>4, <1>5, <2>3, <2>5 DEF Ranked
  <2>12. S = T
    BY ONLY <1>1, <2>10, <2>11, Climbs(z, d, r, n, o, P, l, nd, mk), ShadowOnly
  <2> QED  BY <1>1, <1>5, <1>7, <2>6, <2>12 DEF Gone
<1> QED  BY <1>10, <1>11

LEMMA CollapseTold ==
    ASSUME IInv, Acc, Collapse
    PROVE  Told
<1>1. PICK d, r, n, o, P, l, nd, mk, q, c, R :
         /\ d = disk /\ r = root /\ n = depth /\ o = op /\ P = path /\ l = level /\ nd = node /\ mk = made
         /\ q = (IF nd.leaf THEN 0 ELSE nd.kids[1]) /\ c = depth - 1 /\ R = ReachOf(d, q, c)
  OBVIOUS
<1>2. /\ pc = "balance" /\ level = 1 /\ Len(nd.ents) = 0 /\ list2' = Append(list2, nd.page)
      /\ root' = IF nd.leaf THEN 0 ELSE Kid(nd, 0)
      /\ depth' = c /\ disk' = d /\ made' = made
  BY <1>1 DEF Collapse, Emptied, Count
<1>3. root' = q
  <2>1. 0 + 1 = 1
    OBVIOUS
  <2>2. Kid(nd, 0) = nd.kids[1]
    BY <2>1 DEF Kid
  <2>3. CASE nd.leaf
    BY <1>1, <1>2, <2>3
  <2>4. CASE ~nd.leaf
    BY <1>1, <1>2, <2>2, <2>4
  <2> QED  BY <2>3, <2>4
<1>4. PICK z : Right(z)
  BY DEF IInv
<1>5. Climbs(z, d, r, n, o, P, l, nd, mk) /\ l = 1
  BY <1>1, <1>2, <1>4 DEF Right, Here
<1>6. /\ nd.page \notin R /\ nd.page \in Int
      /\ Shadow(d, r, n, l, nd) = R \cup {nd.page}
  <2>1. Len(nd.ents) = 0 /\ c = n - 1
    BY <1>1, <1>2
  <2>2. q = IF nd.leaf THEN 0 ELSE nd.kids[1]
    BY <1>1
  <2>3. R = ReachOf(d, q, c)
    BY <1>1
  <2>4. Gone(d, r, n, l, nd, R)
    BY ONLY <1>5, <2>1, <2>2, <2>3, ShadowGone
  <2> QED  BY <2>4 DEF Gone
<1>7. (Reach = ReachOf(disk, root, depth))'
  BY ReachTold, PTL
<1>8. Reach' = R
  BY <1>1, <1>2, <1>3, <1>7
<1>9. Virtual = R \cup {nd.page}
  BY <1>1, <1>6 DEF Virtual
<1>10. PICK B : Once(list2, B) /\ B \subseteq Reach \cup made /\ Virtual = (Reach \cup made) \ B
  BY <1>2 DEF Acc, Tally
<1>11. PICK p, s : p = nd.page /\ s = list2
  OBVIOUS
<1>12. p \notin B /\ p \in Reach \cup made /\ p \in Int /\ Once(s, B)
  BY <1>6, <1>9, <1>10, <1>11
<1>13. Once(Append(s, p), B \cup {p})
  BY ONLY <1>12, OnceAppend
<1>14. Once(list2', B \cup {p})
  BY <1>2, <1>11, <1>13
<1>15. B \cup {p} \subseteq Reach \cup made /\ R = (Reach \cup made) \ (B \cup {p})
  BY <1>6, <1>9, <1>10, <1>11, <1>12
<1> QED  BY <1>2, <1>8, <1>14, <1>15 DEF Told, Tally

(* A round of the climb. *)
LEMMA RoundAcc ==
    ASSUME IInv, Acc, NEW x, Climbing, ParentMatches, ~Spreading.bad, pc' = pc,
           (Spreading.done /\ x = Spreading)
              \/ (~Spreading.done /\ Spreading.node.end > PgSize /\ x = Split(Spreading)),
           Up(x)
    PROVE  Acc'
<1>1. PICK w, s : w = Work /\ s = Spreading
  OBVIOUS
<1>2. pc = "balance" /\ level > 0
  BY DEF Climbing
<1>3. Fields(s) /\ IsWork(w) /\ w.made \subseteq s.made /\ Fields(w)
  BY <1>1, SpreadingFields DEF IsWork
<1>4. s.made \subseteq x.made
  BY <1>1, <1>3, SplitMade
<1>5. 0 \notin x.made /\ 0 \notin s.made /\ 0 \notin w.made
  BY <1>3, <1>4 DEF Up
<1>6. s \in {w, Spread(w)}
  BY <1>1 DEF Spreading
<1>7. Rnd(w, s, x)
  BY <1>1, <1>5, <1>6 DEF Rnd
<1>8. Tally(Reach, made, list2, Virtual)
  BY <1>2 DEF Acc
<1>9. ASSUME level = 1 PROVE s = w
  <2>1. w.idx = 0 /\ w.parent = Fresh1 /\ ~w.done /\ w.list2 = list2
    BY <1>3, <1>9 DEF IsWork
  <2>2. Count(w.parent) = 0
    <3>1. Len(<<>>) = 0
      OBVIOUS
    <3> QED  BY <2>1, <3>1 DEF Fresh1, Freshnode, Count
  <2>3. Listed(w.list2)
    BY <1>8, <2>1 DEF Listed, Tally, Once
  <2>4. PICK t : t = Spread(w)
    OBVIOUS
  <2>5. t = w
    BY ONLY <1>3, <2>1, <2>2, <2>3, <2>4, SpreadList
  <2> QED  BY <1>6, <2>4, <2>5
<1>10. PICK z : Right(z)
  BY DEF IInv
<1>11. Here(z)
  BY <1>2, <1>10 DEF Right
<1>12. /\ Tally(Reach, x.made, x.list2, NextShadow(x))
       /\ ReachOf(x.disk, root, depth) = Reach
  BY ONLY <1>1, <1>2, <1>5, <1>7, <1>8, <1>9, <1>11, ParentMatches, RoundTally
<1>13. /\ disk' = x.disk /\ list2' = x.list2 /\ made' = x.made /\ node' = x.parent /\ level' = level - 1
       /\ root' = root /\ depth' = depth
  BY DEF Up, header
<1>14. (Reach = ReachOf(disk, root, depth))'
  BY ReachTold, PTL
<1>15. Reach' = Reach
  BY <1>12, <1>13, <1>14
<1>16. Virtual' = NextShadow(x)
  BY <1>13 DEF Virtual, NextShadow
<1> QED  BY <1>2, <1>12, <1>13, <1>15, <1>16 DEF Acc

LEMMA ClimbAcc ==
    ASSUME IInv, Acc, ClimbSpread \/ ClimbSplit
    PROVE  Acc'
<1>1. PICK s, u : s = Spreading /\ u = Split(s)
  OBVIOUS
<1>2. CASE ClimbSpread
  <2>1. Climbing /\ ParentMatches /\ ~Spreading.bad /\ Spreading.done /\ pc' = pc /\ Up(s)
    BY <1>1, <1>2 DEF ClimbSpread, UpSpread
  <2> QED  BY <1>1, <2>1, RoundAcc
<1>3. CASE ClimbSplit
  <2>1. /\ Climbing /\ ParentMatches /\ ~Spreading.bad /\ ~Spreading.done /\ Spreading.node.end > PgSize
        /\ pc' = pc /\ Up(u)
    BY <1>1, <1>3 DEF ClimbSplit, UpSplit
  <2> QED  BY <1>1, <2>1, RoundAcc
<1> QED  BY <1>2, <1>3

(* A step keeps the books; one that ends the update has told the tree.     *)
LEMMA PutAcc ==
    ASSUME Acc, IInv', NEW k \in Key, Delete(k) \/ \E s \in RecSize : Put(k, s)
    PROVE  Acc'
<1>1. CASE Delete(k)
  <2>1. /\ pc = "idle" /\ pc' = "balance" /\ UNCHANGED <<disk, root, depth, list2, made>> /\ level' = depth
        /\ depth > 0
    BY <1>1 DEF Delete, Begin, Goto, header
  <2> QED  BY <2>1, BegunAcc
<1>2. ASSUME NEW s \in RecSize, Put(k, s) PROVE Acc'
  <2>1. PICK new : new = Freshnode(Unused(DOMAIN disk), TRUE)
    OBVIOUS
  <2>2. /\ pc = "idle" /\ pc' = "balance" /\ UNCHANGED <<disk, root, depth, list2>> /\ level' = depth
    BY <1>2 DEF Put, Begin, Goto, header
  <2>3. depth # 0 => made' = made
    BY <1>2 DEF Put
  <2>4. depth = 0 => made' = {new.page} /\ node' = Addpage(new, 0, op')
    BY <1>2, <2>1 DEF Put, Begin
  <2>5. Addpage(new, 0, op').page = new.page
    BY <2>1 DEF Addpage, Freshnode
  <2> QED  BY <2>2, <2>3, <2>4, <2>5, BegunAcc
<1> QED  BY <1>1, <1>2

LEMMA EndTold ==
    ASSUME IInv, Acc, Next, pc # "finish", pc' = "finish"
    PROVE  Told
<1>1. CASE \E k \in Key : Delete(k) \/ \E s \in RecSize : Put(k, s)
  BY <1>1 DEF Delete, Put, Begin, Goto
<1>2. CASE Grow
  BY <1>2 DEF Grow, Goto
<1>3. CASE Whead
  BY <1>3, WheadTold
<1>4. CASE Collapse
  BY <1>4, CollapseTold
<1>5. CASE InPlace
  <2>1. level # 0
    BY <1>5 DEF InPlace
  <2>2. pc = "balance" /\ disk' = Putnode(disk, node) /\ UNCHANGED <<root, depth, lists>>
    BY <1>5 DEF InPlace, header
  <2> QED  BY <2>1, <2>2, WrittenTold
<1>6. CASE ClimbSpread \/ ClimbSplit
  BY <1>6 DEF ClimbSpread, ClimbSplit, Climbing
<1>7. CASE ClimbStay
  BY <1>7, StayTold
<1>8. CASE Finish \/ Die
  BY <1>8 DEF Finish, Die, Forget, Goto
<1> QED  BY <1>1, <1>2, <1>3, <1>4, <1>5, <1>6, <1>7, <1>8 DEF Next

LEMMA AccStep ==
    ASSUME IInv, IInv', Acc, [Next]_vars
    PROVE  Acc'
<1>1. CASE pc' = "finish"
  BY <1>1 DEF Acc
<1>2. ASSUME NEW k \in Key, Delete(k) \/ \E s \in RecSize : Put(k, s) PROVE Acc'
  BY <1>2, PutAcc
<1>3. CASE Grow
  BY <1>3, GrowAcc
<1>4. CASE Whead \/ Collapse \/ InPlace \/ ClimbStay
  BY <1>1, <1>4 DEF Whead, Collapse, InPlace, ClimbStay, Goto
<1>5. CASE ClimbSpread \/ ClimbSplit
  BY <1>5, ClimbAcc
<1>6. CASE Finish \/ Die
  <2>1. pc' = "idle" /\ list2' = <<>> /\ made' = {}
    BY <1>6 DEF Finish, Die, Forget, Goto
  <2> QED  BY <2>1 DEF Acc
<1>7. CASE UNCHANGED vars
  <2>1. UNCHANGED <<disk, root, depth, pc, op, path, level, node, list2, made>>
    BY <1>7 DEF vars, header, update, lists
  <2>2. (Reach = ReachOf(disk, root, depth))'
    BY ReachTold, PTL
  <2>3. Reach' = Reach
    BY <2>1, <2>2, ReachTold
  <2> QED  BY <2>1, <2>3 DEF Acc, Virtual
<1> QED  BY <1>2, <1>3, <1>4, <1>5, <1>6, <1>7 DEF Next

(* What an update has told when it ends. *)
Ended ==
    pc # "finish" /\ pc' = "finish" =>
        /\ Reach' = (Reach \cup made') \ ToSet(list2')
        /\ ToSet(list2') \subseteq Reach \cup made'
        /\ \A i, j \in DOMAIN list2' : list2'[i] = list2'[j] => i = j
LEMMA ToldIs ==
    ASSUME Told
    PROVE  Ended
<1>1. PICK B : Once(list2', B) /\ B \subseteq Reach \cup made' /\ Reach' = (Reach \cup made') \ B
  BY DEF Told, Tally
<1>2. DOMAIN list2' = 1 .. Len(list2')
  BY <1>1 DEF Once
<1>3. ToSet(list2') = B
  BY <1>1, <1>2 DEF Once, ToSet
<1> QED  BY <1>1, <1>2, <1>3 DEF Once, Ended

(* balanc.c, putchange(): when an update succeeds, the pages of its new    *)
(* tree are those of the old one and those captured for it, but for the    *)
(* pages of PageList2, each of which is there once.                        *)
THEOREM AccountedAlways == Spec => Accounted
<1>1. Init => Acc
  BY DEF Init, Acc
<1>2. IInv /\ IInv' /\ Acc /\ [Next]_vars => Acc' /\ [Ended]_vars
  <2> SUFFICES ASSUME IInv, IInv', Acc, [Next]_vars PROVE Acc' /\ [Ended]_vars
    OBVIOUS
  <2>1. Acc'
    BY AccStep
  <2>2. ASSUME ~UNCHANGED vars, pc # "finish", pc' = "finish" PROVE Ended
    BY <2>2, EndTold, ToldIs
  <2> QED  BY <2>1, <2>2 DEF Ended
<1>3. [Ended]_vars <=> [pc # "finish" /\ pc' = "finish" =>
          /\ Reach' = (Reach \cup made') \ ToSet(list2')
          /\ ToSet(list2') \subseteq Reach \cup made'
          /\ \A i, j \in DOMAIN list2' : list2'[i] = list2'[j] => i = j]_vars
  BY DEF Ended
<1> QED  BY <1>1, <1>2, <1>3, Invariance, PTL DEF Spec, Accounted
=============================================================================
