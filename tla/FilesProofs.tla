----------------------------- MODULE FilesProofs -----------------------------
(***************************************************************************)
(* What TLAPS proves of the table of files and pipes: no stream leaks and   *)
(* none is in two slots, an alias names the file opened last, and a close    *)
(* of a pipe has collected its own command; for any aliases, files and      *)
(* numbers of commands, and whatever the commands do.                        *)
(***************************************************************************)
EXTENDS Files, TLAPS, SequenceTheorems, WellFoundedInduction

Flags == {"open", "pipe", "in", "out", "app"}
StreamType == {NoFile} \cup [is : {"stdin", "stdout", "stderr"}]
              \cup [is : {"pipe"}, id : Nat]
              \cup [is : {"file"}, id : Nat, name : Names, at : Nat]
SlotType == [flags : SUBSET Flags, alias : Aliases \cup {""}, rd : StreamType,
             wr : StreamType, kid : Nat]
KidType == [state : {"runs", "ended", "gone"}, status : Status \cup {0}, reads : BOOLEAN,
            writes : BOOLEAN, lines : Nat, shut : BOOLEAN]

(* What the program waits for: a line of the pipe in a slot, or a command.     *)
DoingType == {Nothing} \cup [is : {"exit"}] \cup [is : {"read"}, slot : 1..Len(slots)]
             \cup [is : {"close", "fork"}, kid : 1..Len(kids), status : Status \cup {0}]

TypeOK ==
  /\ slots \in Seq(SlotType) /\ stamps \in Seq(Nat) /\ Len(stamps) = Len(slots)
  /\ kids \in Seq(KidType) /\ doing \in DoingType
  /\ disk \in [Names -> Nat \cup {Missing}] /\ streams \subseteq Nat
  /\ bp \in BOOLEAN /\ error \in Nat /\ exit \in Status \cup {0}
  /\ ops \in Nat /\ opened \in Nat

(* A slot in use is marked open; only pipes have a command; the streams it      *)
(* holds are its own, or none when they are those of the program.             *)
Held(s) == Ids(s.rd) \cup Ids(s.wr)
Right(s) ==
  /\ InUse(s) => "open" \in s.flags
  /\ ~InUse(s) => s = Free
  /\ IsPipe(s) <=> s.kid # 0
  /\ "pipe" \in {s.rd.is, s.wr.is} => IsPipe(s)
  /\ s.rd.is \notin {"stdout", "stderr"}
  /\ s.kid =< Len(kids)
  /\ IsStd(s) => Held(s) = {}
  /\ Ids(s.rd) \cap Ids(s.wr) = {}
  /\ Held(s) \subseteq 1..opened

(* A line is read from a slot with a pipe. *)
Reads == doing.is = "read" => slots[doing.slot].rd.is = "pipe"

(* Of two slots with one alias the first was opened last. *)
Stamped ==
  /\ \A i \in 1..Len(slots) : stamps[i] =< ops
  /\ \A i, j \in 1..Len(slots) :
       i < j /\ InUse(slots[i]) /\ InUse(slots[j]) /\ slots[i].alias = slots[j].alias
         => stamps[j] =< stamps[i]

Rights == \A j \in 1..Len(slots) : Right(slots[j])

Inv == TypeOK /\ Reads /\ Rights /\ Stamped /\ Collected /\ (~ForkFails => NoLeak)

-----------------------------------------------------------------------------
(* The slots the program looks for. *)

(* A set of natural numbers that is not empty has a least one. *)
LEMMA Least ==
    ASSUME NEW S \in SUBSET Nat, S # {}
    PROVE  \E n \in S : \A m \in S : n =< m
<1> DEFINE R == OpToRel(<, Nat)
<1>1. IsWellFoundedOn(R, Nat)
  BY NatLessThanWellFounded
<1>2. \A x, y \in Nat : x < y => <<x, y>> \in R
  BY DEF OpToRel
<1> HIDE DEF R
<1>3. PICK n \in S : \A m \in S : ~(<<m, n>> \in R)
  BY <1>1, WFMin
<1>4. ASSUME NEW m \in S PROVE n =< m
  <2>1. n \in Nat /\ m \in Nat /\ ~(m < n)
    BY <1>2, <1>3
  <2> QED BY <2>1
<1> QED BY <1>4

LEMMA FirstFreeIs ==
    ASSUME TypeOK
    PROVE  /\ FirstFree \in 1..Len(slots) + 1
           /\ FirstFree =< Len(slots) => ~InUse(slots[FirstFree])
           /\ \A j \in 1..FirstFree - 1 : InUse(slots[j])
<1> DEFINE P(i) == /\ i =< Len(slots) => ~InUse(slots[i])
                   /\ \A j \in 1..i - 1 : InUse(slots[j])
           S == {i \in 1..Len(slots) + 1 : i =< Len(slots) => ~InUse(slots[i])}
<1>1. Len(slots) \in Nat
  BY LenProperties DEF TypeOK
<1>2. S \in SUBSET Nat /\ Len(slots) + 1 \in S
  BY <1>1
<1>3. PICK i \in S : \A m \in S : i =< m
  BY <1>2, Least
<1>4. i \in 1..Len(slots) + 1 /\ P(i)
  <2>1. ASSUME NEW j \in 1..i - 1, ~InUse(slots[j]) PROVE FALSE
    <3>1. j \in S /\ j < i
      BY <1>1, <2>1
    <3> QED BY <1>1, <1>3, <3>1
  <2> QED BY <2>1
<1> HIDE DEF S
<1>5. FirstFree \in 1..Len(slots) + 1 /\ P(FirstFree)
  BY <1>4 DEF FirstFree
<1> QED BY <1>5

LEMMA SlotIs ==
    ASSUME TypeOK, NEW a
    PROVE  /\ Having(a) = {} => Slot(a) = 0
           /\ Having(a) # {} => Slot(a) \in Having(a) /\ \A j \in Having(a) : Slot(a) =< j
           /\ Slot(a) # 0 => Slot(a) \in 1..Len(slots) /\ InUse(slots[Slot(a)])
<1>1. Len(slots) \in Nat
  BY LenProperties DEF TypeOK
<1>2. Having(a) \in SUBSET Nat /\ Having(a) \subseteq 1..Len(slots)
  BY <1>1 DEF Having
<1>3. ASSUME Having(a) # {}
      PROVE  Slot(a) \in Having(a) /\ \A j \in Having(a) : Slot(a) =< j
  <2>1. \E i \in Having(a) : \A j \in Having(a) : i =< j
    BY <1>2, <1>3, Least
  <2> QED BY <1>3, <2>1 DEF Slot
<1>4. Having(a) = {} => Slot(a) = 0
  BY DEF Slot
<1> QED BY <1>2, <1>3, <1>4 DEF Having

-----------------------------------------------------------------------------
(* What a step may do to the table. *)

(* Slot j, which may have to be made. *)
At(j) == IF j \in 1..Len(slots) THEN slots[j] ELSE Free

(* Slot i becomes s, opened at n; new slots are free. *)
Becomes(i, s, n) ==
  /\ slots' \in Seq(SlotType) /\ stamps' \in Seq(Nat) /\ Len(stamps') = Len(slots')
  /\ Len(slots) =< Len(slots') /\ i \in 1..Len(slots')
  /\ \A j \in 1..Len(slots') : slots'[j] = IF j = i THEN s ELSE At(j)
  /\ \A j \in 1..Len(slots) : j # i => stamps'[j] = stamps[j]
  /\ \A j \in Len(slots) + 1..Len(slots') : j # i => stamps'[j] = 0
  /\ stamps'[i] = n

LEMMA FreeType == Free \in SlotType /\ ~InUse(Free) /\ Held(Free) = {} /\ ~IsPipe(Free) /\ ~IsStd(Free)
BY DEF Free, SlotType, StreamType, NoFile, InUse, Held, Ids, Own, IsPipe, IsStd

LEMMA GrownIs ==
    ASSUME TypeOK, NEW i \in {1, FirstFree}
    PROVE  /\ Grown(i) \in Seq(SlotType) /\ GrownStamps(i) \in Seq(Nat)
           /\ Len(GrownStamps(i)) = Len(Grown(i))
           /\ Len(slots) =< Len(Grown(i)) /\ i \in 1..Len(Grown(i))
           /\ \A j \in 1..Len(Grown(i)) : Grown(i)[j] = At(j)
           /\ \A j \in 1..Len(slots) : GrownStamps(i)[j] = stamps[j]
           /\ \A j \in Len(slots) + 1..Len(Grown(i)) : GrownStamps(i)[j] = 0
<1>1. /\ Len(slots) \in Nat /\ Len(stamps) = Len(slots)
      /\ slots \in Seq(SlotType) /\ stamps \in Seq(Nat)
  BY LenProperties DEF TypeOK
<1>2. i \in 1..Len(slots) + 1
  BY <1>1, FirstFreeIs
<1>3. CASE i > Len(slots)
  <2>1. i = Len(slots) + 1
    BY <1>1, <1>2, <1>3
  <2>2. /\ Append(slots, Free) \in Seq(SlotType)
        /\ Len(Append(slots, Free)) = Len(slots) + 1
        /\ \A j \in 1..Len(slots) : Append(slots, Free)[j] = slots[j]
        /\ Append(slots, Free)[Len(slots) + 1] = Free
    BY <1>1, FreeType, AppendProperties
  <2>3. /\ Append(stamps, 0) \in Seq(Nat)
        /\ Len(Append(stamps, 0)) = Len(stamps) + 1
        /\ \A j \in 1..Len(stamps) : Append(stamps, 0)[j] = stamps[j]
        /\ Append(stamps, 0)[Len(stamps) + 1] = 0
    BY <1>1, AppendProperties
  <2>4. Grown(i) = Append(slots, Free) /\ GrownStamps(i) = Append(stamps, 0)
    BY <1>1, <1>3 DEF Grown, GrownStamps
  <2>5. ASSUME NEW j \in 1..Len(slots) + 1, j \notin 1..Len(slots) PROVE j = Len(slots) + 1
    BY <1>1, <2>5
  <2>6. \A j \in 1..Len(slots) + 1 : Append(slots, Free)[j] = At(j)
    BY <2>2, <2>5 DEF At
  <2>7. \A j \in Len(slots) + 1..Len(slots) + 1 : Append(stamps, 0)[j] = 0
    BY <1>1, <2>3
  <2>8. Len(Append(slots, Free)) = Len(stamps) + 1 /\ i \in 1..Len(slots) + 1
    BY <1>1, <1>2, <2>2
  <2> QED BY <1>1, <2>2, <2>3, <2>4, <2>6, <2>7, <2>8
<1>4. CASE ~(i > Len(slots))
  <2>1. Grown(i) = slots /\ GrownStamps(i) = stamps
    BY <1>1, <1>4 DEF Grown, GrownStamps
  <2> QED BY <1>1, <1>2, <1>4, <2>1 DEF At
<1> QED BY <1>3, <1>4

(* An open that fails, like every other command that is refused. *)
LEMMA RefusedTable ==
    ASSUME TypeOK, NEW i \in {1, FirstFree}, slots' = Grown(i), stamps' = GrownStamps(i)
    PROVE  Becomes(i, At(i), IF i \in 1..Len(slots) THEN stamps[i] ELSE 0)
<1>1. Len(slots) \in Nat
  BY LenProperties DEF TypeOK
<1>2. i \in Nat
  BY <1>1, FirstFreeIs
<1> DEFINE G == Grown(i)
           H == GrownStamps(i)
<1>3. /\ G \in Seq(SlotType) /\ H \in Seq(Nat) /\ Len(H) = Len(G)
      /\ Len(slots) =< Len(G) /\ i \in 1..Len(G)
      /\ \A j \in 1..Len(G) : G[j] = At(j)
      /\ \A j \in 1..Len(slots) : H[j] = stamps[j]
      /\ \A j \in Len(slots) + 1..Len(G) : H[j] = 0
  BY GrownIs
<1>4. slots' = G /\ stamps' = H
  OBVIOUS
<1>5. Len(G) \in Nat
  BY <1>3, LenProperties
<1> HIDE DEF G, H
<1>6. H[i] = IF i \in 1..Len(slots) THEN stamps[i] ELSE 0
  <2>1. i \notin 1..Len(slots) => i \in Len(slots) + 1..Len(G)
    BY <1>1, <1>2, <1>3, <1>5
  <2> QED BY <1>3, <2>1
<1> QED BY <1>3, <1>4, <1>6 DEF Becomes

LEMMA FilledTable ==
    ASSUME TypeOK, NEW s \in SlotType, Filled(FirstFree, s)
    PROVE  Becomes(FirstFree, s, ops + 1)
<1> DEFINE i == FirstFree
           G == Grown(i)
           H == GrownStamps(i)
<1>1. ops + 1 \in Nat /\ Len(slots) \in Nat /\ i \in Nat
  BY LenProperties, FirstFreeIs DEF TypeOK
<1>2. /\ G \in Seq(SlotType) /\ H \in Seq(Nat) /\ Len(H) = Len(G)
      /\ Len(slots) =< Len(G) /\ i \in 1..Len(G)
      /\ \A j \in 1..Len(G) : G[j] = At(j)
      /\ \A j \in 1..Len(slots) : H[j] = stamps[j]
      /\ \A j \in Len(slots) + 1..Len(G) : H[j] = 0
  BY GrownIs
<1> HIDE DEF i, G, H
<1>3. /\ [G EXCEPT ![i] = s] \in Seq(SlotType) /\ Len([G EXCEPT ![i] = s]) = Len(G)
      /\ \A j \in 1..Len(G) : [G EXCEPT ![i] = s][j] = IF j = i THEN s ELSE G[j]
  BY <1>2, ExceptSeq
<1>4. /\ [H EXCEPT ![i] = ops + 1] \in Seq(Nat) /\ Len([H EXCEPT ![i] = ops + 1]) = Len(H)
      /\ \A j \in 1..Len(H) : [H EXCEPT ![i] = ops + 1][j] = IF j = i THEN ops + 1 ELSE H[j]
  BY <1>1, <1>2, ExceptSeq
<1>5. slots' = [G EXCEPT ![i] = s] /\ stamps' = [H EXCEPT ![i] = ops + 1]
  BY DEF Filled, i, G, H
<1>6. Len(G) \in Nat
  BY <1>2, LenProperties
<1>7. Becomes(i, s, ops + 1)
  BY <1>1, <1>2, <1>3, <1>4, <1>5, <1>6 DEF Becomes
<1> QED BY <1>7 DEF i

(* A slot that is used, or closed. *)
LEMMA ChangedTable ==
    ASSUME TypeOK, NEW i \in 1..Len(slots), NEW s \in SlotType,
           slots' = [slots EXCEPT ![i] = s], stamps' = stamps
    PROVE  Becomes(i, s, stamps[i])
<1>1. Len(slots) \in Nat /\ slots \in Seq(SlotType)
  BY LenProperties DEF TypeOK
<1>2. /\ [slots EXCEPT ![i] = s] \in Seq(SlotType) /\ Len([slots EXCEPT ![i] = s]) = Len(slots)
      /\ \A j \in 1..Len(slots) : [slots EXCEPT ![i] = s][j] = IF j = i THEN s ELSE slots[j]
  BY <1>1, ExceptSeq
<1> QED BY <1>1, <1>2 DEF Becomes, TypeOK, At

-----------------------------------------------------------------------------
(* What each part of the invariant asks of such a step. *)

LEMMA SlotsType ==
    ASSUME TypeOK
    PROVE  /\ Len(slots) \in Nat /\ DOMAIN slots = 1..Len(slots)
           /\ \A j : At(j) \in SlotType
           /\ \A j \in 1..Len(slots) : slots[j] \in SlotType /\ stamps[j] \in Nat
           /\ Len(kids) \in Nat /\ DOMAIN kids = 1..Len(kids)
           /\ \A k \in 1..Len(kids) : kids[k] \in KidType
<1>1. \A j \in 1..Len(slots) : slots[j] \in SlotType /\ stamps[j] \in Nat
  BY ElementOfSeq DEF TypeOK
<1>2. \A k \in 1..Len(kids) : kids[k] \in KidType
  BY ElementOfSeq DEF TypeOK
<1>3. \A j : At(j) \in SlotType
  BY <1>1, FreeType DEF At
<1> QED BY <1>1, <1>2, <1>3, LenProperties DEF TypeOK

LEMMA RightAt ==
    ASSUME TypeOK, Rights
    PROVE  \A j : Right(At(j)) /\ At(j) \in SlotType
<1>1. Right(Free)
  <2>1. Free.kid = 0 /\ NoFile.is = "none" /\ Free.rd = NoFile /\ Free.wr = NoFile
    BY DEF Free, NoFile
  <2>2. Ids(NoFile) = {}
    BY DEF Ids, NoFile, Own
  <2> QED BY <2>1, <2>2, FreeType, SlotsType DEF Right
<1> QED BY <1>1, SlotsType DEF At, Rights

LEMMA RightLater ==
    ASSUME TypeOK, NEW r \in SlotType, Right(r),
           Len(kids') \in Nat, Len(kids) =< Len(kids'), opened' \in Nat, opened =< opened'
    PROVE  Right(r)'
<1>1. opened \in Nat /\ Len(kids) \in Nat
  BY SlotsType DEF TypeOK
<1>2. r.kid \in Nat
  BY DEF SlotType
<1>3. 1..opened \subseteq 1..opened' /\ (r.kid =< Len(kids) => r.kid =< Len(kids'))
  BY <1>1, <1>2
<1> QED BY <1>3 DEF Right

LEMMA RightStep ==
    ASSUME TypeOK, Rights, NEW i, NEW s, NEW n, Becomes(i, s, n), Right(s)',
           Len(kids') \in Nat, Len(kids) =< Len(kids'), opened' \in Nat, opened =< opened'
    PROVE  Rights'
<1>1. \A j \in 1..Len(slots') : slots'[j] = s \/ \E r \in SlotType : slots'[j] = r /\ Right(r)
  BY RightAt DEF Becomes
<1>2. ASSUME NEW j \in 1..Len(slots') PROVE Right(slots[j])'
  <2>1. CASE slots'[j] = s
    BY <2>1 DEF Right
  <2>2. CASE \E r \in SlotType : slots'[j] = r /\ Right(r)
    <3>1. PICK r \in SlotType : slots'[j] = r /\ Right(r)
      BY <2>2
    <3>2. Right(r)'
      BY <3>1, RightLater
    <3> QED BY <3>1, <3>2 DEF Right
  <2> QED BY <1>1, <2>1, <2>2
<1> QED BY <1>2 DEF Rights

LEMMA LeakStep ==
    ASSUME TypeOK, Rights, NoLeak, NEW i, NEW s, NEW n, Becomes(i, s, n),
           streams' = (streams \ Held(At(i))) \cup Held(s),
           Held(s) \subseteq Held(At(i)) \cup {m \in Nat : m > opened},
           ~InUse(s) => Held(s) = {}
    PROVE  NoLeak'
<1> DEFINE H(j) == Held(At(j))
<1>1. Len(slots) \in Nat /\ Len(slots') \in Nat /\ DOMAIN slots' = 1..Len(slots')
  BY SlotsType, LenProperties DEF Becomes
<1>2. \A j : ~InUse(At(j)) => H(j) = {}
  BY FreeType DEF At, Rights, Right
<1>3. \A j, k : j # k => H(j) \cap H(k) = {}
  BY SlotsType, FreeType DEF NoLeak, At, Held
<1>4. \A j : H(j) \subseteq 1..opened
  BY FreeType DEF At, Rights, Right
<1>5. streams = UNION {H(j) : j \in 1..Len(slots')}
  <2>1. \A j \in 1..Len(slots) : j \in 1..Len(slots')
    BY <1>1 DEF Becomes
  <2>2. \A j : j \notin 1..Len(slots) => H(j) = {}
    BY FreeType DEF At
  <2>3. \A j \in 1..Len(slots) : At(j) = slots[j]
    BY DEF At
  <2>4. streams = UNION {Held(slots[j]) : j \in {j \in 1..Len(slots) : InUse(slots[j])}}
    BY SlotsType DEF NoLeak, Held
  <2>5. streams \subseteq UNION {H(j) : j \in 1..Len(slots')}
    BY <2>1, <2>3, <2>4
  <2>6. \A j : H(j) \subseteq streams
    BY <1>2, <2>2, <2>3, <2>4
  <2> QED BY <2>5, <2>6
<1>6. \A j \in 1..Len(slots') : slots'[j] = IF j = i THEN s ELSE At(j)
  BY DEF Becomes
<1> DEFINE N(j) == Held(slots'[j])
<1>7. \A j \in 1..Len(slots') : N(j) = IF j = i THEN Held(s) ELSE H(j)
  BY <1>6
<1>8. \A j \in 1..Len(slots') : ~InUse(slots'[j]) => N(j) = {}
  BY <1>2, <1>6, <1>7
<1>9. \A m \in Nat : m > opened => m \notin 1..opened
  BY DEF TypeOK
<1>10. i \in 1..Len(slots')
  BY DEF Becomes
<1> HIDE DEF H, N
<1>11. ASSUME NEW j \in 1..Len(slots'), j # i PROVE H(j) \cap Held(s) = {}
  BY <1>3, <1>4, <1>9, <1>11 DEF H
<1>12. \A j, k \in 1..Len(slots') : j # k => N(j) \cap N(k) = {}
  BY <1>3, <1>7, <1>11
<1>13. streams' = UNION {N(j) : j \in 1..Len(slots')}
  <2>1. ASSUME NEW x \in streams' PROVE \E j \in 1..Len(slots') : x \in N(j)
    BY <1>5, <1>7, <1>10, <2>1 DEF H
  <2>2. ASSUME NEW j \in 1..Len(slots'), NEW x \in N(j) PROVE x \in streams'
    BY <1>3, <1>5, <1>7, <1>10, <2>2 DEF H
  <2> QED BY <2>1, <2>2
<1>14. streams' = UNION {N(j) : j \in {k \in 1..Len(slots') : InUse(slots'[k])}}
  BY <1>8, <1>13
<1> QED BY <1>1, <1>12, <1>14 DEF NoLeak, Held, N, Ids, Own, InUse

LEMMA StampStep ==
    ASSUME TypeOK, Stamped, NEW i, NEW s, NEW n, Becomes(i, s, n),
           ops' \in Nat, ops =< ops', n =< ops',
           InUse(s) => \/ InUse(At(i)) /\ s.alias = At(i).alias /\ n = stamps[i]
                       \/ n > ops /\ \A j \in 1..i - 1 : InUse(At(j)) => At(j).alias # s.alias
    PROVE  Stamped'
<1>1. /\ Len(slots) \in Nat /\ Len(slots') \in Nat /\ ops \in Nat /\ i \in 1..Len(slots')
      /\ \A j \in 1..Len(slots') : slots'[j] = IF j = i THEN s ELSE At(j)
      /\ \A j \in 1..Len(slots) : stamps[j] \in Nat /\ stamps[j] =< ops
      /\ n \in Nat /\ stamps'[i] = n /\ \A j \in 1..Len(slots') : stamps'[j] \in Nat
      /\ \A j \in 1..Len(slots) : j # i => stamps'[j] = stamps[j]
      /\ \A j \in Len(slots) + 1..Len(slots') : j # i => stamps'[j] = 0
  <2>1. \A j \in 1..Len(slots') : stamps'[j] \in Nat
    BY ElementOfSeq DEF Becomes
  <2> QED BY <2>1, SlotsType, LenProperties DEF Becomes, Stamped, TypeOK
<1>2. ASSUME NEW j \in 1..Len(slots') PROVE stamps'[j] =< ops'
  <2>1. CASE j = i
    BY <1>1, <2>1
  <2>2. CASE j # i /\ j \in 1..Len(slots)
    <3>1. stamps'[j] = stamps[j] /\ stamps[j] \in Nat /\ stamps[j] =< ops
      BY <1>1, <2>2
    <3> QED BY <3>1, <1>1
  <2>3. CASE j # i /\ j \in Len(slots) + 1..Len(slots')
    <3>1. stamps'[j] = 0
      BY <1>1, <2>3
    <3> QED BY <3>1, <1>1
  <2> QED BY <1>1, <2>1, <2>2, <2>3
<1>3. ASSUME NEW j \in 1..Len(slots'), j # i, InUse(slots'[j])
      PROVE  j \in 1..Len(slots) /\ slots'[j] = slots[j] /\ stamps'[j] = stamps[j]
  BY <1>1, <1>3, FreeType DEF At
<1>4. ASSUME NEW j \in 1..Len(slots'), NEW k \in 1..Len(slots'), j < k,
             InUse(slots'[j]), InUse(slots'[k]), slots'[j].alias = slots'[k].alias
      PROVE  stamps'[k] =< stamps'[j]
  <2>1. CASE j # i /\ k # i
    BY <1>3, <1>4, <2>1 DEF Stamped
  <2>2. InUse(At(i)) => i \in 1..Len(slots) /\ At(i) = slots[i]
    BY FreeType DEF At
  <2>3. CASE j = i /\ k # i
    <3>1. stamps'[k] = stamps[k] /\ k \in 1..Len(slots) /\ slots'[k] = slots[k] /\ slots'[j] = s
      BY <1>1, <1>3, <1>4, <2>3
    <3>2. InUse(slots[k]) /\ slots[k].alias = s.alias /\ InUse(s) /\ i < k
      BY <1>1, <1>4, <2>3, <3>1
    <3>3. stamps'[i] = n /\ stamps[k] \in Nat /\ stamps[k] =< ops
      BY <1>1, <3>1
    <3>4. CASE n > ops
      BY <1>1, <2>3, <3>1, <3>3, <3>4
    <3>5. CASE InUse(At(i)) /\ s.alias = At(i).alias /\ n = stamps[i]
      <4>1. i \in 1..Len(slots) /\ InUse(slots[i]) /\ slots[i].alias = slots[k].alias
        BY <2>2, <3>2, <3>5
      <4>2. stamps[k] =< stamps[i]
        BY <3>1, <3>2, <4>1 DEF Stamped
      <4> QED BY <2>3, <3>1, <3>3, <3>5, <4>2
    <3> QED BY <3>2, <3>4, <3>5
  <2>4. CASE j # i /\ k = i
    <3>1. stamps'[j] = stamps[j] /\ j \in 1..Len(slots) /\ slots'[j] = slots[j] /\ slots'[k] = s
      BY <1>1, <1>3, <1>4, <2>4
    <3>2. j \in 1..i - 1 /\ At(j) = slots[j]
      BY <1>1, <1>4, <2>4, <3>1 DEF At
    <3>3. /\ InUse(slots[j]) /\ slots[j].alias = s.alias /\ InUse(s)
          /\ stamps'[k] = n /\ j \in 1..Len(slots) /\ j < i
      BY <1>1, <1>4, <2>4, <3>1
    <3>4. InUse(At(i)) /\ s.alias = At(i).alias /\ n = stamps[i]
      BY <3>2, <3>3
    <3>5. i \in 1..Len(slots) /\ InUse(slots[i]) /\ slots[j].alias = slots[i].alias
      BY <2>2, <3>3, <3>4
    <3>6. stamps[i] =< stamps[j]
      BY <3>3, <3>5 DEF Stamped
    <3> QED BY <2>4, <3>1, <3>3, <3>4, <3>6
  <2> QED BY <1>1, <1>4, <2>1, <2>3, <2>4
<1> QED BY <1>2, <1>4 DEF Stamped, InUse

-----------------------------------------------------------------------------
(* The commands of the program. *)

(* A command that changes nothing, or makes a slot at most. A fork that fails   *)
(* leaves streams open.                                                      *)
LEMMA GrownKeeps ==
    ASSUME Inv, Command, NEW i \in {1, FirstFree}, NEW e \in Nat, Answer(e),
           slots' = Grown(i), stamps' = GrownStamps(i), UNCHANGED <<disk, kids, bp, exit>>,
           UNCHANGED streams \/ ForkFails, streams' \subseteq Nat,
           opened' \in Nat, opened =< opened'
    PROVE  Inv'
<1> SUFFICES ASSUME NEW s, s = At(i),
                    NEW n, n = IF i \in 1..Len(slots) THEN stamps[i] ELSE 0
             PROVE  Inv'
  OBVIOUS
<1>1. Becomes(i, s, n)
  BY RefusedTable DEF Inv
<1>2. /\ doing' = Nothing /\ doing = Nothing /\ error' = e
      /\ ops \in Nat /\ ops' = ops + 1 /\ opened \in Nat
  BY DEF Answer, Command, Inv, TypeOK
<1>3. TypeOK'
  BY <1>1, <1>2 DEF Inv, TypeOK, DoingType, Becomes
<1>4. Rights'
  <2>1. s \in SlotType /\ Right(s)
    BY RightAt DEF Inv
  <2>2. Len(kids') \in Nat /\ Len(kids) =< Len(kids')
    BY SlotsType DEF Inv
  <2>3. Right(s)'
    BY <2>1, <2>2, RightLater DEF Inv
  <2> QED BY <1>1, <2>2, <2>3, RightStep DEF Inv
<1>5. Stamped'
  <2>1. n =< ops /\ (InUse(s) => i \in 1..Len(slots))
    BY <1>2, FreeType DEF Inv, Stamped, At
  <2>2. n \in Nat
    BY SlotsType DEF Inv
  <2> QED BY <1>1, <1>2, <2>1, <2>2, StampStep DEF Inv
<1>6. ~ForkFails => NoLeak'
  <2>1. ASSUME NoLeak PROVE Held(s) \subseteq streams
    BY <2>1, FreeType, SlotsType, RightAt DEF Inv, NoLeak, At, Held, Right
  <2>2. ~InUse(s) => Held(s) = {}
    BY RightAt, FreeType DEF Inv, Right
  <2>3. NoLeak /\ ~ForkFails => streams' = (streams \ Held(At(i))) \cup Held(s)
    BY <2>1
  <2> QED BY <1>1, <2>2, <2>3, LeakStep DEF Inv
<1>7. Reads' /\ Collected'
  BY <1>2 DEF Inv, Reads, Collected, Nothing
<1> QED BY <1>3, <1>4, <1>5, <1>6, <1>7 DEF Inv

LEMMA RefusedKeeps ==
    ASSUME Inv, Command, NEW i \in {1, FirstFree}, NEW e \in Nat, Refused(i, e)
    PROVE  Inv'
<1>1. opened' \in Nat /\ opened =< opened' /\ streams' \subseteq Nat
  BY DEF Inv, TypeOK, Refused
<1>2. /\ slots' = Grown(i) /\ stamps' = GrownStamps(i) /\ Answer(e)
      /\ UNCHANGED <<disk, kids, bp, exit>> /\ UNCHANGED streams
  BY DEF Refused
<1> QED BY <1>1, <1>2, GrownKeeps

(* The streams an open may get. *)
LEMMA StreamIs ==
    ASSUME TypeOK, NEW mode \in Modes, NEW n
    PROVE  LET f == Stream(n, mode) IN
             /\ f \in StreamType /\ Ids(f) = (IF Own(f) THEN {opened + 1} ELSE {})
             /\ f.is # "pipe"
             /\ Own(f) => n \in Names /\ f.is = "file"
             /\ f.is = "stdin" => mode = "in"
             /\ f.is \in {"stdout", "stderr"} => mode # "in"
<1>1. opened + 1 \in Nat
  BY DEF TypeOK
<1>2. CASE n \in (IF mode = "in" THEN {"stdin"} ELSE {"stdout", "stderr"})
  <2>1. Stream(n, mode) = [is |-> n]
    BY <1>2 DEF Stream, Std
  <2> QED BY <1>2, <2>1 DEF StreamType, Ids, Own
<1>3. CASE Stream(n, mode) = NoFile
  BY <1>3 DEF StreamType, Ids, Own, NoFile
<1>4. CASE /\ Stream(n, mode) = [is |-> "file", id |-> opened + 1, name |-> n, at |-> 0]
           /\ n \in Names
  BY <1>1, <1>4 DEF StreamType, Ids, Own
<1> QED BY <1>2, <1>3, <1>4 DEF Stream

(* The slot an open takes is free, and no slot before it has the alias. *)
LEMMA FirstFreeEmpty ==
    ASSUME Inv
    PROVE  /\ Held(At(FirstFree)) = {} /\ FirstFree \in Nat
           /\ \A a : ~Taken(a) => \A j \in 1..FirstFree - 1 : At(j).alias # a
<1>1. Len(slots) \in Nat /\ FirstFree \in 1..Len(slots) + 1
  BY FirstFreeIs, SlotsType DEF Inv
<1>2. Held(At(FirstFree)) = {}
  BY <1>1, FirstFreeIs, FreeType, RightAt DEF Inv, At, Right
<1>3. \A j \in 1..FirstFree - 1 : At(j) = slots[j]
  BY <1>1 DEF At
<1> QED BY <1>1, <1>2, <1>3 DEF Taken

(* An alias gets a slot, whose streams are new. *)
LEMMA OpenKeeps ==
    ASSUME Inv, Command, NEW s \in SlotType, Filled(FirstFree, s), ~Taken(s.alias), InUse(s),
           Right(s)', Answer(0), Held(s) \subseteq {m \in Nat : m > opened},
           streams' = streams \cup Held(s), opened' \in Nat, opened =< opened',
           UNCHANGED <<bp, exit>>, disk' \in [Names -> Nat \cup {Missing}],
           kids' \in Seq(KidType), Len(kids) =< Len(kids'),
           \A k \in 1..Len(kids) : kids'[k] = kids[k],
           \A k \in Len(kids) + 1..Len(kids') : ~kids'[k].shut
    PROVE  Inv'
<1>1. Becomes(FirstFree, s, ops + 1)
  BY FilledTable DEF Inv
<1>2. /\ doing' = Nothing /\ doing = Nothing /\ error' = 0
      /\ ops \in Nat /\ ops' = ops + 1 /\ opened \in Nat
  BY DEF Answer, Command, Inv, TypeOK
<1>3. TypeOK'
  <2>1. streams' \subseteq Nat
    BY DEF Inv, TypeOK
  <2>2. doing' \in DoingType'
    BY <1>2 DEF DoingType
  <2>3. bp' \in BOOLEAN /\ exit' \in Status \cup {0}
    BY DEF Inv, TypeOK
  <2> QED BY <1>1, <1>2, <2>1, <2>2, <2>3 DEF TypeOK, Becomes
<1>4. Len(kids') \in Nat /\ DOMAIN kids' = 1..Len(kids') /\ Len(kids) \in Nat
  BY LenProperties, SlotsType DEF Inv
<1>5. Rights'
  BY <1>1, <1>2, <1>4, RightStep DEF Inv
<1>6. Stamped'
  <2>1. \A j \in 1..FirstFree - 1 : InUse(At(j)) => At(j).alias # s.alias
    BY FirstFreeEmpty
  <2> QED BY <1>1, <1>2, <2>1, StampStep DEF Inv
<1>7. ~ForkFails => NoLeak'
  <2>1. NoLeak => streams' = (streams \ Held(At(FirstFree))) \cup Held(s)
    BY FirstFreeEmpty
  <2> QED BY <1>1, <2>1, LeakStep DEF Inv
<1>8. Reads'
  BY <1>2 DEF Reads, Nothing
<1>9. Collected'
  <2>1. ASSUME NEW k \in 1..Len(kids'), kids'[k].shut PROVE k \in 1..Len(kids) /\ kids'[k] = kids[k]
    BY <1>4, <2>1
  <2>2. \A k \in 1..Len(kids) : kids[k].shut => kids[k].state = "gone"
    BY <1>2, SlotsType DEF Inv, Collected, Nothing
  <2> QED BY <1>2, <1>4, <2>1, <2>2 DEF Collected
<1> QED BY <1>3, <1>5, <1>6, <1>7, <1>8, <1>9 DEF Inv

LEMMA FopenKeeps ==
    ASSUME Inv, NEW a \in Aliases, NEW n, NEW mode \in Modes, Fopen(a, n, mode)
    PROVE  Inv'
<1> DEFINE f == Stream(n, mode)
           s == [flags |-> {"open", mode}, alias |-> a, kid |-> 0,
                 rd |-> IF mode = "in" THEN f ELSE NoFile,
                 wr |-> IF mode = "in" THEN NoFile ELSE f]
<1>1. CASE Taken(a)
  BY <1>1, RefusedKeeps DEF Fopen
<1>2. CASE ~Taken(a) /\ f = NoFile
  BY <1>2, RefusedKeeps DEF Fopen
<1>3. CASE ~Taken(a) /\ f # NoFile
  <2>1. /\ Command /\ Filled(FirstFree, s) /\ streams' = streams \cup Ids(f)
        /\ opened' = (IF Own(f) THEN opened + 1 ELSE opened)
        /\ disk' = (IF Own(f) /\ (mode = "out" \/ (mode = "app" /\ disk[n] = Missing))
                    THEN [disk EXCEPT ![n] = 0] ELSE disk)
        /\ Answer(0) /\ UNCHANGED <<kids, bp, exit>>
    BY <1>3 DEF Fopen
  <2>2. /\ f \in StreamType /\ Ids(f) = (IF Own(f) THEN {opened + 1} ELSE {})
        /\ f.is # "pipe" /\ (Own(f) => n \in Names /\ f.is = "file")
        /\ (f.is = "stdin" => mode = "in") /\ (f.is \in {"stdout", "stderr"} => mode # "in")
    BY StreamIs DEF Inv
  <2>3. opened \in Nat /\ disk \in [Names -> Nat \cup {Missing}]
    BY DEF Inv, TypeOK
  <2>4. NoFile \in StreamType /\ Ids(NoFile) = {} /\ NoFile.is = "none"
    BY DEF StreamType, NoFile, Ids, Own
  <2> HIDE DEF f
  <2>5. mode \in Flags /\ "open" \in Flags /\ mode # "pipe"
    BY DEF Modes, Flags
  <2>6. s \in SlotType /\ s.alias = a
    BY <2>2, <2>4, <2>5 DEF SlotType
  <2>7. InUse(s) /\ ~IsPipe(s) /\ "open" \in s.flags /\ s.kid = 0
    BY <2>5 DEF InUse, IsPipe
  <2>8. Held(s) = Ids(f) /\ Ids(s.rd) \cap Ids(s.wr) = {}
    BY <2>4 DEF Held
  <2>9. IsStd(s) => Held(s) = {}
    BY <2>2, <2>4, <2>8 DEF IsStd, Own
  <2>10. opened' \in Nat /\ opened =< opened' /\ Held(s) \subseteq 1..opened'
         /\ Held(s) \subseteq {m \in Nat : m > opened}
    <3>1. opened' = opened \/ opened' = opened + 1
      BY <2>1
    <3>2. Held(s) = {} \/ (Held(s) = {opened + 1} /\ opened' = opened + 1)
      BY <2>1, <2>2, <2>8
    <3> HIDE DEF s
    <3> QED BY <2>3, <3>1, <3>2
  <2>11. kids' = kids /\ Len(kids) \in Nat /\ kids \in Seq(KidType)
    BY <2>1, SlotsType DEF Inv, TypeOK
  <2>12. "pipe" \notin {s.rd.is, s.wr.is} /\ s.rd.is \notin {"stdout", "stderr"}
    BY <2>2, <2>4
  <2>13. disk' \in [Names -> Nat \cup {Missing}]
    BY <2>1, <2>2, <2>3
  <2>14. streams' = streams \cup Held(s)
    BY <2>1, <2>8
  <2> HIDE DEF s
  <2>15. ASSUME NEW r \in SlotType, r = s PROVE Inv'
    <3>1. Right(r)'
      BY <2>7, <2>8, <2>9, <2>10, <2>11, <2>12, <2>15 DEF Right
    <3>2. /\ Filled(FirstFree, r) /\ ~Taken(r.alias) /\ InUse(r) /\ streams' = streams \cup Held(r)
          /\ Held(r) \subseteq {m \in Nat : m > opened}
      BY <1>3, <2>1, <2>6, <2>7, <2>10, <2>14, <2>15
    <3>3. \A k \in Len(kids) + 1..Len(kids') : ~kids'[k].shut
      BY <2>11
    <3> QED BY <2>1, <2>10, <2>11, <2>13, <3>1, <3>2, <3>3, OpenKeeps
  <2> QED BY <2>6, <2>15
<1> QED BY <1>1, <1>2, <1>3

(* A pipe to a command. *)
LEMMA PopenKeeps ==
    ASSUME Inv, NEW a \in Aliases, NEW mode \in (SUBSET {"in", "out"}) \ {{}}, Popen(a, mode)
    PROVE  Inv'
<1> DEFINE rd == IF "in" \in mode THEN [is |-> "pipe", id |-> opened + 1] ELSE NoFile
           wr == IF "out" \in mode THEN [is |-> "pipe", id |-> opened + 2] ELSE NoFile
           s == [flags |-> mode \cup {"open", "pipe"}, alias |-> a, rd |-> rd, wr |-> wr,
                 kid |-> Len(kids) + 1]
           k == Kid("out" \in mode, "in" \in mode)
<1>1. opened \in Nat /\ Len(kids) \in Nat /\ streams \subseteq Nat /\ kids \in Seq(KidType)
  BY SlotsType DEF Inv, TypeOK
<1>2. /\ rd \in StreamType /\ wr \in StreamType
      /\ Ids(rd) = (IF "in" \in mode THEN {opened + 1} ELSE {})
      /\ Ids(wr) = (IF "out" \in mode THEN {opened + 2} ELSE {})
      /\ rd.is \in {"pipe", "none"} /\ wr.is \in {"pipe", "none"}
  <2>1. ASSUME NEW m \in Nat, NEW f, f = [is |-> "pipe", id |-> m]
        PROVE  f \in StreamType /\ Ids(f) = {m} /\ f.is = "pipe"
    BY <2>1 DEF StreamType, Ids, Own
  <2>2. NoFile \in StreamType /\ Ids(NoFile) = {} /\ NoFile.is = "none"
    BY DEF StreamType, NoFile, Ids, Own
  <2>3. opened + 1 \in Nat /\ opened + 2 \in Nat
    BY <1>1
  <2> QED BY <2>1, <2>2, <2>3
<1>3. /\ opened + 2 \in Nat /\ opened =< opened + 2
      /\ Ids(rd) \subseteq 1..opened + 2 /\ Ids(wr) \subseteq 1..opened + 2
      /\ Ids(rd) \subseteq {m \in Nat : m > opened} /\ Ids(wr) \subseteq {m \in Nat : m > opened}
      /\ Ids(rd) \cap Ids(wr) = {}
  BY <1>1, <1>2
<1>4. CASE Taken(a)
  BY <1>4, RefusedKeeps DEF Popen
<1>5. CASE /\ ~Taken(a) /\ ForkFails /\ Command
           /\ slots' = Grown(FirstFree) /\ stamps' = GrownStamps(FirstFree) /\ Answer(21)
           /\ streams' = streams \cup Ids(rd) \cup Ids(wr) /\ opened' = opened + 2
           /\ UNCHANGED <<disk, kids, bp, exit>>
  <2>1. streams' \subseteq Nat
    BY <1>1, <1>3, <1>5
  <2> HIDE DEF rd, wr
  <2> QED BY <1>3, <1>5, <2>1, GrownKeeps
<1>6. CASE /\ ~Taken(a) /\ Command /\ Filled(FirstFree, s)
           /\ kids' = Append(kids, k) /\ streams' = streams \cup Ids(rd) \cup Ids(wr)
           /\ opened' = opened + 2 /\ Answer(0) /\ UNCHANGED <<disk, bp, exit>>
  <2>1. k \in KidType /\ ~k.shut
    BY DEF Kid, KidType
  <2> HIDE DEF k
  <2>2. /\ kids' \in Seq(KidType) /\ Len(kids') = Len(kids) + 1
        /\ \A j \in 1..Len(kids) : kids'[j] = kids[j]
        /\ kids'[Len(kids) + 1] = k
    BY <1>1, <1>6, <2>1, AppendProperties
  <2>3. \A j \in Len(kids) + 1..Len(kids') : ~kids'[j].shut
    BY <1>1, <2>1, <2>2
  <2> HIDE DEF rd, wr
  <2>4. mode \cup {"open", "pipe"} \in SUBSET Flags
    BY DEF Flags
  <2>5. s \in SlotType
    <3>1. Len(kids) + 1 \in Nat
      BY <1>1
    <3> QED BY <1>2, <2>4, <3>1 DEF SlotType
  <2>6. InUse(s) /\ IsPipe(s) /\ "open" \in s.flags /\ s.kid # 0 /\ s.kid = Len(kids')
    BY <1>1, <2>2 DEF InUse, IsPipe
  <2>7. /\ ~IsStd(s) /\ Held(s) = Ids(rd) \cup Ids(wr) /\ Ids(s.rd) \cap Ids(s.wr) = {}
        /\ s.rd.is \notin {"stdout", "stderr"}
    BY <1>2, <1>3 DEF IsStd, Held
  <2>8. Held(s) \subseteq 1..opened' /\ Held(s) \subseteq {m \in Nat : m > opened}
    BY <1>3, <1>6, <2>7
  <2>9. disk' \in [Names -> Nat \cup {Missing}] /\ s.alias = a
    BY <1>6 DEF Inv, TypeOK
  <2>10. streams' = streams \cup Held(s) /\ Len(kids') \in Nat /\ Len(kids) =< Len(kids')
    <3> HIDE DEF s
    <3> QED BY <1>1, <1>6, <2>2, <2>7
  <2> HIDE DEF s
  <2>11. ASSUME NEW r \in SlotType, r = s PROVE Inv'
    <3>1. Right(r)'
      BY <2>6, <2>7, <2>8, <2>10, <2>11 DEF Right
    <3>2. /\ Filled(FirstFree, r) /\ ~Taken(r.alias) /\ InUse(r) /\ streams' = streams \cup Held(r)
          /\ Held(r) \subseteq {m \in Nat : m > opened}
      BY <1>6, <2>6, <2>8, <2>9, <2>10, <2>11
    <3> QED BY <1>3, <1>6, <2>2, <2>3, <2>9, <2>10, <3>1, <3>2, OpenKeeps
  <2> QED BY <2>5, <2>11
<1> QED BY <1>4, <1>5, <1>6 DEF Popen

(* The types of what is neither in the table nor counted. *)
Others == /\ kids \in Seq(KidType) /\ doing \in DoingType
          /\ disk \in [Names -> Nat \cup {Missing}]
          /\ bp \in BOOLEAN /\ error \in Nat /\ exit \in Status \cup {0} /\ ops \in Nat

(* A step that leaves the table alone. *)
LEMMA SameKeeps ==
    ASSUME Inv, UNCHANGED <<slots, stamps, streams, opened>>, Others', ops =< ops',
           Len(kids) =< Len(kids'), Reads', Collected'
    PROVE  Inv'
<1>1. Len(kids') \in Nat /\ opened \in Nat
  BY LenProperties DEF Others, Inv, TypeOK
<1>2. TypeOK'
  BY DEF Inv, TypeOK, Others
<1>3. Rights'
  <2>1. ASSUME NEW j \in 1..Len(slots), NEW r \in SlotType, r = slots[j] PROVE Right(r)'
    BY <1>1, <2>1, RightLater DEF Inv, Rights
  <2>2. \A j \in 1..Len(slots) : slots[j] \in SlotType
    BY SlotsType DEF Inv
  <2>3. ASSUME NEW j \in 1..Len(slots') PROVE Right(slots[j])'
    <3>1. PICK r \in SlotType : r = slots[j]
      BY <2>2
    <3>2. Right(r)'
      BY <2>1, <3>1
    <3> QED BY <3>1, <3>2 DEF Right
  <2> QED BY <2>3 DEF Rights
<1>4. Stamped'
  <2>1. \A j \in 1..Len(slots) : stamps[j] \in Nat /\ stamps[j] =< ops /\ stamps[j] =< ops'
    BY SlotsType DEF Inv, Stamped, TypeOK, Others
  <2> QED BY <2>1 DEF Inv, Stamped
<1>5. NoLeak => NoLeak'
  BY DEF NoLeak
<1> QED BY <1>2, <1>3, <1>4, <1>5 DEF Inv

(* A command that changes the slot of an alias, or gives it back. *)
LEMMA UseKeeps ==
    ASSUME Inv, NEW i \in 1..Len(slots), NEW s \in SlotType,
           slots' = [slots EXCEPT ![i] = s], stamps' = stamps, opened' = opened, Right(s),
           InUse(s) => InUse(slots[i]) /\ s.alias = slots[i].alias,
           Held(s) \subseteq Held(slots[i]), streams' \subseteq streams,
           NoLeak => streams' = (streams \ Held(slots[i])) \cup Held(s),
           Others', ops =< ops', Len(kids') = Len(kids), Reads', Collected'
    PROVE  Inv'
<1>1. At(i) = slots[i] /\ stamps[i] \in Nat /\ opened \in Nat /\ Len(kids) \in Nat
  BY SlotsType DEF Inv, TypeOK, At
<1> SUFFICES ASSUME NEW n, n = stamps[i] PROVE Inv'
  OBVIOUS
<1>2. Becomes(i, s, n)
  BY ChangedTable DEF Inv
<1>3. TypeOK'
  <2>1. streams' \subseteq Nat
    BY DEF Inv, TypeOK
  <2> QED BY <1>1, <1>2, <2>1 DEF TypeOK, Becomes, Others
<1>4. Rights'
  BY <1>1, <1>2, RightStep, RightLater DEF Inv
<1>5. Stamped'
  <2>1. n =< ops /\ ops \in Nat /\ ops' \in Nat /\ n \in Nat /\ n =< ops'
    BY <1>1 DEF Inv, Stamped, TypeOK, Others
  <2> QED BY <1>1, <1>2, <2>1, StampStep DEF Inv
<1>6. NoLeak => NoLeak'
  <2>1. ~InUse(s) => Held(s) = {}
    BY FreeType DEF Right
  <2>2. Held(s) \subseteq Held(At(i)) \cup {m \in Nat : m > opened}
    BY <1>1
  <2>3. NoLeak => streams' = (streams \ Held(At(i))) \cup Held(s)
    BY <1>1
  <2> QED BY <1>2, <2>1, <2>2, <2>3, LeakStep DEF Inv
<1> QED BY <1>3, <1>4, <1>5, <1>6 DEF Inv

LEMMA DiskType ==
    ASSUME TypeOK, NEW f \in StreamType
    PROVE  Wrote(f, disk) \in [Names -> Nat \cup {Missing}]
<1>1. disk \in [Names -> Nat \cup {Missing}]
  BY DEF TypeOK
<1>2. CASE f.is = "file" /\ disk[f.name] < MaxLines
  <2>1. f.name \in Names
    BY <1>2 DEF StreamType, NoFile
  <2>2. disk[f.name] + 1 \in Nat
    BY <1>1, <2>1 DEF Missing
  <2> QED BY <1>1, <1>2, <2>2 DEF Wrote
<1>3. CASE ~(f.is = "file" /\ disk[f.name] < MaxLines)
  BY <1>1, <1>3 DEF Wrote
<1> QED BY <1>2, <1>3

(* What the slot of an alias is. *)
LEMMA SlotRight ==
    ASSUME Inv, NEW a, Slot(a) # 0
    PROVE  LET i == Slot(a) IN
             /\ i \in 1..Len(slots) /\ InUse(slots[i]) /\ slots[i] \in SlotType /\ Right(slots[i])
BY SlotIs, SlotsType DEF Inv, Rights

LEMMA ReadKeeps ==
    ASSUME Inv, NEW a \in Aliases, Read(a)
    PROVE  Inv'
<1> DEFINE i == Slot(a)
<1>1. Command /\ ops' = ops + 1 /\ ops \in Nat /\ doing = Nothing
  BY DEF Read, Command, Inv, TypeOK
<1>2. ASSUME NEW e \in {0, 22, 25, 26}, Refused(1, e) PROVE Inv'
  BY <1>1, <1>2, RefusedKeeps
<1>3. CASE i = 0
  BY <1>2, <1>3 DEF Read
<1>4. CASE i # 0
  <2>1. /\ i \in 1..Len(slots) /\ InUse(slots[i]) /\ slots[i] \in SlotType /\ Right(slots[i])
        /\ i \in Nat
    BY <1>4, SlotRight, SlotsType DEF Inv
  <2>2. slots[i].rd \in StreamType /\ slots[i].rd.is \in {"none", "stdin", "pipe", "file"}
    <3>1. slots[i].rd \in StreamType /\ slots[i].rd.is \notin {"stdout", "stderr"}
      BY <2>1 DEF Right, SlotType
    <3>2. \A f \in StreamType :
            f.is \in {"none", "stdin", "stdout", "stderr", "pipe", "file"}
      BY DEF StreamType, NoFile
    <3> QED BY <3>1, <3>2
  <2>3. CASE slots[i].rd.is = "none"
    BY <1>2, <1>4, <2>3 DEF Read
  <2>4. CASE slots[i].rd.is = "stdin"
    BY <1>2, <1>4, <2>4 DEF Read
  <2>5. CASE slots[i].rd.is = "pipe"
    <3>1. /\ doing' = [is |-> "read", slot |-> i]
          /\ UNCHANGED <<slots, stamps, disk, kids, streams, bp, error, exit, opened>>
      BY <1>4, <2>5 DEF Read
    <3>2. Reads'
      BY <2>5, <3>1 DEF Reads
    <3>3. Collected'
      BY <1>1, <3>1 DEF Inv, Collected, Nothing
    <3>4. doing' \in DoingType'
      BY <2>1, <3>1 DEF DoingType
    <3>5. Others' /\ ops =< ops' /\ Len(kids) =< Len(kids')
      BY <1>1, <3>1, <3>4, SlotsType DEF Others, Inv, TypeOK
    <3> HIDE DEF i
    <3> QED BY <3>1, <3>2, <3>3, <3>5, SameKeeps
  <2>6. CASE slots[i].rd.is = "file" /\ ~(slots[i].rd.at < disk[slots[i].rd.name])
    BY <1>2, <1>4, <2>6 DEF Read
  <2>7. CASE slots[i].rd.is = "file" /\ slots[i].rd.at < disk[slots[i].rd.name]
    <3> DEFINE f == [slots[i].rd EXCEPT !.at = @ + 1]
               s == [slots[i] EXCEPT !.rd = f]
    <3>1. /\ slots' = [slots EXCEPT ![i] = s] /\ Answer(0)
          /\ UNCHANGED <<stamps, disk, kids, streams, bp, exit, opened>>
      BY <1>4, <2>7 DEF Read
    <3>2. f \in StreamType /\ f.is = "file" /\ Ids(f) = Ids(slots[i].rd)
      BY <2>2, <2>7 DEF StreamType, NoFile, Ids, Own
    <3> HIDE DEF f
    <3>3. s \in SlotType /\ s.rd = f /\ s.wr = slots[i].wr /\ s.flags = slots[i].flags
          /\ s.kid = slots[i].kid /\ s.alias = slots[i].alias
      BY <2>1, <3>2 DEF SlotType
    <3> HIDE DEF s
    <3>4. InUse(s) /\ Held(s) = Held(slots[i]) /\ (IsPipe(s) <=> IsPipe(slots[i]))
          /\ (IsStd(s) => IsStd(slots[i]))
      BY <2>1, <3>2, <3>3 DEF InUse, Held, IsPipe, IsStd
    <3>5. Right(s)
      BY <2>1, <3>2, <3>3, <3>4 DEF Right
    <3>6. /\ streams' \subseteq streams
          /\ NoLeak => streams' = (streams \ Held(slots[i])) \cup Held(s)
      BY <2>1, <3>1, <3>4, SlotsType DEF Inv, NoLeak, Held
    <3>7. Reads' /\ Collected'
      BY <1>1, <3>1 DEF Answer, Reads, Inv, Collected, Nothing
    <3>8. Others' /\ ops =< ops' /\ Len(kids') = Len(kids)
      BY <1>1, <3>1 DEF Answer, Others, Inv, TypeOK, DoingType
    <3> HIDE DEF i
    <3> QED BY <2>1, <3>1, <3>3, <3>4, <3>5, <3>6, <3>7, <3>8, UseKeeps
  <2> QED BY <2>2, <2>3, <2>4, <2>5, <2>6, <2>7
<1> QED BY <1>3, <1>4

LEMMA ReadPipeKeeps ==
    ASSUME Inv, ReadPipe PROVE Inv'
<1> DEFINE i == doing.slot
           k == slots[i].kid
<1>1. /\ doing.is = "read" /\ UNCHANGED <<slots, stamps, disk, streams, bp, exit, ops, opened>>
      /\ doing' = Nothing /\ error' \in {0, 26}
      /\ \/ kids[k].lines > 0 /\ kids' = [kids EXCEPT ![k].lines = @ - 1]
         \/ UNCHANGED kids
  BY DEF ReadPipe, Answer
<1>2. i \in 1..Len(slots) /\ doing \in DoingType
  BY <1>1 DEF Inv, TypeOK, DoingType, Nothing
<1>3. k \in 1..Len(kids)
  <2>1. slots[i] \in SlotType /\ Right(slots[i]) /\ slots[i].rd.is = "pipe"
    BY <1>1, <1>2, SlotsType DEF Inv, Rights, Reads
  <2>2. k \in Nat /\ k # 0 /\ k =< Len(kids)
    BY <2>1 DEF Right, SlotType
  <2> QED BY <2>2, SlotsType DEF Inv
<1> HIDE DEF i, k
<1>4. /\ kids' \in Seq(KidType) /\ Len(kids') = Len(kids)
      /\ \A j \in 1..Len(kids) : kids'[j].shut = kids[j].shut /\ kids'[j].state = kids[j].state
  <2>1. CASE kids[k].lines > 0 /\ kids' = [kids EXCEPT ![k].lines = @ - 1]
    <3> DEFINE e == [kids[k] EXCEPT !.lines = @ - 1]
    <3>1. kids[k] \in KidType /\ kids \in Seq(KidType)
      BY <1>3, SlotsType DEF Inv, TypeOK
    <3>2. kids[k].lines - 1 \in Nat
      BY <2>1, <3>1 DEF KidType
    <3>3. e \in KidType /\ e.shut = kids[k].shut /\ e.state = kids[k].state
      BY <3>1, <3>2 DEF KidType
    <3>4. kids' = [kids EXCEPT ![k] = e]
      BY <2>1
    <3> HIDE DEF e
    <3> QED BY <1>3, <3>1, <3>3, <3>4, ExceptSeq
  <2> QED BY <1>1, <2>1 DEF Inv, TypeOK
<1>5. DOMAIN kids' = 1..Len(kids) /\ DOMAIN kids = 1..Len(kids)
  BY <1>4, SlotsType, LenProperties DEF Inv
<1>6. Reads' /\ Collected'
  BY <1>1, <1>4, <1>5 DEF Reads, Inv, Collected, Nothing
<1>7. Others' /\ ops =< ops' /\ Len(kids) =< Len(kids')
  BY <1>1, <1>4, SlotsType DEF Others, Inv, TypeOK, DoingType
<1> QED BY <1>1, <1>6, <1>7, SameKeeps

LEMMA WriteKeeps ==
    ASSUME Inv, NEW a \in Aliases, Write(a)
    PROVE  Inv'
<1> DEFINE i == Slot(a)
<1>1. Command /\ ops' = ops + 1 /\ ops \in Nat /\ doing = Nothing
  BY DEF Write, Command, Inv, TypeOK
<1>2. ASSUME NEW e \in {23, 25}, Refused(1, e) PROVE Inv'
  BY <1>1, <1>2, RefusedKeeps
<1>3. CASE i # 0 /\ slots[i].wr.is # "none"
  <2>1. /\ disk' = Wrote(slots[i].wr, disk) /\ doing' = Nothing /\ error' \in {0, 28} /\ bp' = FALSE
        /\ UNCHANGED <<slots, stamps, kids, streams, exit, opened>>
    BY <1>3 DEF Write, Answer
  <2>2. slots[i].wr \in StreamType
    BY <1>3, SlotRight DEF SlotType
  <2>3. disk' \in [Names -> Nat \cup {Missing}]
    BY <2>1, <2>2, DiskType DEF Inv
  <2> HIDE DEF i
  <2>4. Reads' /\ Collected'
    BY <1>1, <2>1 DEF Reads, Inv, Collected, Nothing
  <2>5. doing' \in DoingType' /\ error' \in Nat /\ bp' \in BOOLEAN /\ ops' \in Nat
    <3>1. doing' \in DoingType'
      BY <2>1 DEF DoingType
    <3>2. error' \in Nat /\ ops' \in Nat
      BY <1>1, <2>1
    <3>3. bp' \in BOOLEAN
      BY <2>1
    <3> QED BY <3>1, <3>2, <3>3
  <2>6. Others' /\ ops =< ops' /\ Len(kids) =< Len(kids')
    BY <1>1, <2>1, <2>3, <2>5, SlotsType DEF Others, Inv, TypeOK
  <2> QED BY <2>1, <2>4, <2>6, SameKeeps
<1> QED BY <1>2, <1>3 DEF Write

LEMMA WriteEofKeeps ==
    ASSUME Inv, NEW a \in Aliases, WriteEof(a)
    PROVE  Inv'
<1> DEFINE i == Slot(a)
<1>1. Command /\ ops' = ops + 1 /\ ops \in Nat /\ doing = Nothing
  BY DEF WriteEof, Command, Inv, TypeOK
<1>2. ASSUME NEW e \in {23, 25}, Refused(1, e) PROVE Inv'
  BY <1>1, <1>2, RefusedKeeps
<1>3. CASE i # 0 /\ slots[i].wr.is # "none"
  <2> DEFINE s == [slots[i] EXCEPT !.wr = NoFile, !.flags = @ \ {"out"}]
  <2>1. /\ slots[i].wr.is \in {"file", "pipe"} /\ slots' = [slots EXCEPT ![i] = s]
        /\ streams' = streams \ Ids(slots[i].wr) /\ disk' = Wrote(slots[i].wr, disk)
        /\ bp' = Signalled(slots[i]) /\ doing' = Nothing /\ error' \in {0, 28}
        /\ UNCHANGED <<stamps, kids, exit, opened>>
    <3>1. /\ slots[i].wr.is \in {"file", "pipe"} /\ slots' = [slots EXCEPT ![i] = s]
          /\ streams' = streams \ Ids(slots[i].wr) /\ disk' = Wrote(slots[i].wr, disk)
          /\ bp' = Signalled(slots[i]) /\ Answer(IF bp THEN 28 ELSE 0)
          /\ UNCHANGED <<stamps, kids, exit, opened>>
      <4>1. i # 0 /\ slots[i].wr.is # "none"
        BY <1>3
      <4> QED BY <4>1, Zenon DEF WriteEof
    <3> HIDE DEF s
    <3> QED BY <3>1 DEF Answer
  <2>2. /\ i \in 1..Len(slots) /\ InUse(slots[i]) /\ slots[i] \in SlotType /\ Right(slots[i])
        /\ slots[i].wr \in StreamType
    BY <1>3, SlotRight DEF SlotType
  <2>3. /\ s \in SlotType /\ s.rd = slots[i].rd /\ s.wr = NoFile /\ s.alias = slots[i].alias
        /\ s.flags = slots[i].flags \ {"out"} /\ s.kid = slots[i].kid
    BY <2>2 DEF SlotType, StreamType
  <2> HIDE DEF s
  <2>4. Ids(NoFile) = {} /\ NoFile.is = "none"
    BY DEF NoFile, Ids, Own
  <2>5. /\ InUse(s) /\ "open" \in s.flags /\ Held(s) = Ids(slots[i].rd)
        /\ (IsPipe(s) <=> IsPipe(slots[i])) /\ (IsStd(s) => IsStd(slots[i]))
    BY <2>2, <2>3, <2>4 DEF InUse, Held, IsPipe, IsStd, Right
  <2>6. Right(s)
    BY <2>2, <2>3, <2>4, <2>5 DEF Right, Held
  <2>7. /\ streams' \subseteq streams /\ Held(s) \subseteq Held(slots[i])
        /\ NoLeak => streams' = (streams \ Held(slots[i])) \cup Held(s)
    BY <2>1, <2>2, <2>5, SlotsType DEF Inv, NoLeak, Held, Right
  <2>8. disk' \in [Names -> Nat \cup {Missing}] /\ bp' \in BOOLEAN
    BY <2>1, <2>2, DiskType DEF Inv, Signalled
  <2> HIDE DEF i
  <2>9. Reads' /\ Collected'
    BY <1>1, <2>1 DEF Reads, Inv, Collected, Nothing
  <2>10. Others' /\ ops =< ops' /\ Len(kids') = Len(kids)
    BY <1>1, <2>1, <2>8, SlotsType DEF Others, Inv, TypeOK, DoingType
  <2> QED BY <2>1, <2>2, <2>3, <2>5, <2>6, <2>7, <2>9, <2>10, UseKeeps
<1> QED BY <1>2, <1>3 DEF WriteEof

LEMMA CloseKeeps ==
    ASSUME Inv, NEW a \in Aliases, Close(a)
    PROVE  Inv'
<1> DEFINE i == Slot(a)
<1>1. Command /\ ops' = ops + 1 /\ ops \in Nat /\ doing = Nothing
  BY DEF Close, Command, Inv, TypeOK
<1>2. CASE i = 0
  BY <1>1, <1>2, RefusedKeeps DEF Close
<1>3. CASE i # 0
  <2> DEFINE s == slots[i]
             k == s.kid
  <2>1. /\ slots' = [slots EXCEPT ![i] = Free] /\ streams' = Fclosed(s) /\ kids' = Shut(s, kids)
        /\ UNCHANGED <<stamps, disk, bp, exit, opened>>
        /\ IF IsPipe(s) THEN doing' = [is |-> "close", kid |-> k, status |-> 0] /\ UNCHANGED error
           ELSE doing' = Nothing /\ error' \in {0, 25}
    BY <1>3 DEF Close, Answer
  <2>2. i \in 1..Len(slots) /\ InUse(s) /\ s \in SlotType /\ Right(s)
    BY <1>3, SlotRight
  <2>3. k \in 0..Len(kids) /\ (IsPipe(s) <=> k # 0) /\ Len(kids) \in Nat
    <3>1. k \in Nat /\ k =< Len(kids) /\ (IsPipe(s) <=> k # 0)
      BY <2>2 DEF Right, SlotType
    <3> HIDE DEF k
    <3> QED BY <3>1, SlotsType DEF Inv
  <2>4. Free \in SlotType /\ Right(Free) /\ ~InUse(Free) /\ Held(Free) = {}
    <3>1. At(0) = Free
      BY SlotsType DEF At, Inv
    <3> QED BY <3>1, FreeType, RightAt DEF Inv
  <2>5. /\ streams' \subseteq streams
        /\ NoLeak => streams' = (streams \ Held(s)) \cup Held(Free)
    BY <2>1, <2>2, <2>4 DEF Fclosed, Held, Right
  <2> HIDE DEF s
  <2>6. /\ kids' \in Seq(KidType) /\ Len(kids') = Len(kids)
        /\ \A j \in 1..Len(kids) : /\ kids'[j].state = kids[j].state
                                   /\ kids'[j].shut => kids[j].shut \/ (k # 0 /\ j = k)
    <3>1. CASE k = 0
      BY <2>1, <3>1 DEF Shut, Inv, TypeOK
    <3>2. CASE k # 0
      <4> DEFINE e == [kids[k] EXCEPT !.shut = TRUE]
      <4>1. k \in 1..Len(kids) /\ kids \in Seq(KidType)
        BY <2>3, <3>2 DEF Inv, TypeOK
      <4>2. kids[k] \in KidType
        BY <4>1, SlotsType DEF Inv
      <4>3. e \in KidType /\ e.state = kids[k].state
        BY <4>2 DEF KidType
      <4>4. kids' = [kids EXCEPT ![k] = e]
        BY <2>1, <3>2 DEF Shut
      <4> HIDE DEF e, k
      <4> QED BY <3>2, <4>1, <4>3, <4>4, ExceptSeq
    <3> QED BY <3>1, <3>2
  <2> HIDE DEF k
  <2>7. DOMAIN kids' = 1..Len(kids) /\ DOMAIN kids = 1..Len(kids)
    BY <2>6, SlotsType, LenProperties DEF Inv
  <2>8. Reads' /\ Collected'
    BY <1>1, <2>1, <2>3, <2>6, <2>7 DEF Reads, Inv, Collected, Nothing
  <2>9. doing' \in DoingType'
    BY <2>1, <2>3, <2>6 DEF DoingType
  <2>10. Others' /\ ops =< ops' /\ Len(kids') = Len(kids)
    BY <1>1, <2>1, <2>6, <2>9 DEF Others, Inv, TypeOK
  <2> HIDE DEF i
  <2> QED BY <2>1, <2>2, <2>4, <2>5, <2>8, <2>10, UseKeeps DEF s
<1> QED BY <1>2, <1>3

-----------------------------------------------------------------------------
(* The commands behind pipes, and the end. *)

LEMMA ForkKeeps ==
    ASSUME Inv, Fork PROVE Inv'
<1> DEFINE k == Kid(FALSE, FALSE)
<1>1. /\ doing = Nothing /\ ops' = ops + 1 /\ ops \in Nat /\ kids' = Append(kids, k)
      /\ doing' = [is |-> "fork", kid |-> Len(kids) + 1, status |-> 0]
      /\ UNCHANGED <<slots, stamps, disk, streams, bp, error, exit, opened>>
  BY DEF Fork, Command, Inv, TypeOK
<1>2. k \in KidType /\ ~k.shut
  BY DEF Kid, KidType
<1> HIDE DEF k
<1>3. /\ kids' \in Seq(KidType) /\ Len(kids') = Len(kids) + 1 /\ kids'[Len(kids) + 1] = k
      /\ \A j \in 1..Len(kids) : kids'[j] = kids[j]
  BY <1>1, <1>2, AppendProperties DEF Inv, TypeOK
<1>4. /\ DOMAIN kids' = 1..Len(kids) + 1 /\ DOMAIN kids = 1..Len(kids) /\ Len(kids) \in Nat
      /\ \A j \in 1..Len(kids) + 1 : j \in 1..Len(kids) \/ j = Len(kids) + 1
  BY <1>3, SlotsType, LenProperties DEF Inv
<1>5. Reads' /\ Collected'
  BY <1>1, <1>2, <1>3, <1>4 DEF Reads, Inv, Collected, Nothing
<1>6. doing' \in DoingType'
  <2>1. Len(kids) + 1 \in 1..Len(kids')
    BY <1>3, <1>4
  <2> QED BY <1>1, <2>1 DEF DoingType
<1>7. Others' /\ ops =< ops' /\ Len(kids) =< Len(kids')
  BY <1>1, <1>3, <1>4, <1>6 DEF Others, Inv, TypeOK
<1> QED BY <1>1, <1>5, <1>7, SameKeeps

(* One command ends, writes or is collected. *)
LEMMA KidChanged ==
    ASSUME TypeOK, NEW k \in DOMAIN kids, NEW e \in KidType, e.shut = kids[k].shut,
           kids[k].state = "gone" => e.state = "gone", kids' = [kids EXCEPT ![k] = e]
    PROVE  /\ kids' \in Seq(KidType) /\ Len(kids') = Len(kids) /\ DOMAIN kids' = DOMAIN kids
           /\ \A j \in DOMAIN kids : /\ kids'[j].shut = kids[j].shut
                                     /\ kids[j].state = "gone" => kids'[j].state = "gone"
           /\ kids'[k] = e
<1>1. DOMAIN kids = 1..Len(kids) /\ kids \in Seq(KidType)
  BY SlotsType DEF TypeOK
<1>2. /\ [kids EXCEPT ![k] = e] \in Seq(KidType) /\ Len([kids EXCEPT ![k] = e]) = Len(kids)
      /\ \A j \in 1..Len(kids) : [kids EXCEPT ![k] = e][j] = IF j = k THEN e ELSE kids[j]
  BY <1>1, ExceptSeq
<1> QED BY <1>1, <1>2, LenProperties

LEMMA KidStepKeeps ==
    ASSUME Inv, NEW k \in DOMAIN kids, KidStep(k) PROVE Inv'
<1>1. kids[k] \in KidType
  BY SlotsType DEF Inv
<1>2. UNCHANGED <<slots, stamps, disk, streams, bp, error, exit, doing, ops, opened>>
  BY DEF KidStep, KidEnds, KidWrites
<1>3. PICK e \in KidType : /\ e.shut = kids[k].shut /\ kids[k].state # "gone"
                           /\ kids' = [kids EXCEPT ![k] = e]
  <2>1. CASE KidEnds(k)
    <3>1. PICK s \in Status : /\ kids' = [kids EXCEPT ![k] = [@ EXCEPT !.state = "ended", !.status = s]]
                              /\ kids[k].state = "runs"
      BY <2>1 DEF KidEnds
    <3> DEFINE e == [kids[k] EXCEPT !.state = "ended", !.status = s]
    <3>2. e \in KidType /\ e.shut = kids[k].shut
      BY <1>1 DEF KidType
    <3>3. kids' = [kids EXCEPT ![k] = e]
      BY <3>1
    <3> HIDE DEF e
    <3> QED BY <3>1, <3>2, <3>3
  <2>2. CASE KidWrites(k)
    <3> DEFINE e == [kids[k] EXCEPT !.lines = @ + 1]
    <3>1. kids[k].lines + 1 \in Nat
      BY <1>1 DEF KidType
    <3>2. e \in KidType /\ e.shut = kids[k].shut
      BY <1>1, <3>1 DEF KidType
    <3>3. kids' = [kids EXCEPT ![k] = e] /\ kids[k].state = "runs"
      BY <2>2 DEF KidWrites
    <3> HIDE DEF e
    <3> QED BY <3>2, <3>3
  <2> QED BY <2>1, <2>2 DEF KidStep
<1>4. /\ kids' \in Seq(KidType) /\ Len(kids') = Len(kids) /\ DOMAIN kids' = DOMAIN kids
      /\ \A j \in DOMAIN kids : /\ kids'[j].shut = kids[j].shut
                                /\ kids[j].state = "gone" => kids'[j].state = "gone"
  BY <1>3, KidChanged DEF Inv
<1>5. Reads' /\ Collected'
  BY <1>2, <1>4 DEF Reads, Inv, Collected
<1>6. Others' /\ ops =< ops' /\ Len(kids) =< Len(kids')
  BY <1>2, <1>4, SlotsType DEF Others, Inv, TypeOK, DoingType
<1> QED BY <1>2, <1>5, <1>6, SameKeeps

LEMMA CollectKeeps ==
    ASSUME Inv, Collect PROVE Inv'
<1>1. /\ doing.is \in {"close", "fork"}
      /\ UNCHANGED <<slots, stamps, disk, streams, bp, ops, opened>>
  BY DEF Collect, Waiting
<1>2. doing \in [is : {"close", "fork"}, kid : 1..Len(kids), status : Status \cup {0}]
  BY <1>1 DEF Inv, TypeOK, DoingType, Nothing
<1>3. \A j \in DOMAIN kids : kids[j].shut /\ j # doing.kid => kids[j].state = "gone"
  BY <1>1 DEF Inv, Collected
<1>4. CASE \E k \in DOMAIN kids :
             /\ kids[k].state = "ended" /\ kids' = [kids EXCEPT ![k].state = "gone"]
             /\ IF IsIt(k) THEN exit' = kids[k].status /\ Answer(0)
                ELSE doing' = [doing EXCEPT !.status = kids[k].status] /\ UNCHANGED <<error, exit>>
  <2>1. PICK k \in DOMAIN kids :
             /\ kids[k].state = "ended" /\ kids' = [kids EXCEPT ![k].state = "gone"]
             /\ IF IsIt(k) THEN exit' = kids[k].status /\ Answer(0)
                ELSE doing' = [doing EXCEPT !.status = kids[k].status] /\ UNCHANGED <<error, exit>>
    BY <1>4
  <2> DEFINE e == [kids[k] EXCEPT !.state = "gone"]
  <2>2. kids[k] \in KidType
    BY SlotsType DEF Inv
  <2>3. e \in KidType /\ e.shut = kids[k].shut /\ e.state = "gone" /\ kids[k].status \in Status \cup {0}
    BY <2>2 DEF KidType
  <2>4. kids' = [kids EXCEPT ![k] = e]
    BY <2>1
  <2> HIDE DEF e
  <2>5. /\ kids' \in Seq(KidType) /\ Len(kids') = Len(kids) /\ DOMAIN kids' = DOMAIN kids
        /\ \A j \in DOMAIN kids : /\ kids'[j].shut = kids[j].shut
                                  /\ kids[j].state = "gone" => kids'[j].state = "gone"
        /\ kids'[k].state = "gone"
    BY <2>3, <2>4, KidChanged DEF Inv
  <2>6. CASE IsIt(k)
    <3>1. doing' = Nothing /\ error' = 0 /\ exit' = kids[k].status /\ k = doing.kid
      BY <2>1, <2>6 DEF Answer, IsIt
    <3>2. Reads' /\ Collected'
      BY <1>3, <2>5, <3>1 DEF Reads, Collected, Nothing
    <3>3. Others' /\ ops =< ops' /\ Len(kids) =< Len(kids')
      BY <1>1, <2>3, <2>5, <3>1, SlotsType DEF Others, Inv, TypeOK, DoingType
    <3> QED BY <1>1, <3>2, <3>3, SameKeeps
  <2>7. CASE ~IsIt(k)
    <3>1. doing' = [doing EXCEPT !.status = kids[k].status] /\ UNCHANGED <<error, exit>>
      BY <2>1, <2>7
    <3>2. /\ doing' \in [is : {"close", "fork"}, kid : 1..Len(kids), status : Status \cup {0}]
          /\ doing'.is = doing.is /\ doing'.kid = doing.kid
      BY <1>2, <2>3, <3>1
    <3>3. Reads' /\ Collected'
      BY <1>1, <2>5, <3>2 DEF Reads, Inv, Collected
    <3>4. doing' \in DoingType'
      BY <2>5, <3>2 DEF DoingType
    <3>5. Others' /\ ops =< ops' /\ Len(kids) =< Len(kids')
      BY <1>1, <2>5, <3>1, <3>4, SlotsType DEF Others, Inv, TypeOK
    <3> QED BY <1>1, <3>3, <3>5, SameKeeps
  <2> QED BY <2>6, <2>7
<1>5. CASE /\ \A k \in DOMAIN kids : kids[k].state = "gone"
           /\ exit' = doing.status /\ Answer(0) /\ UNCHANGED kids
  <2>1. doing' = Nothing /\ error' = 0 /\ exit' \in Status \cup {0}
    BY <1>2, <1>5 DEF Answer
  <2>2. Reads' /\ Collected'
    BY <1>5, <2>1 DEF Reads, Collected, Nothing
  <2>3. Others' /\ ops =< ops' /\ Len(kids) =< Len(kids')
    BY <1>1, <1>5, <2>1, SlotsType DEF Others, Inv, TypeOK, DoingType
  <2> QED BY <1>1, <2>2, <2>3, SameKeeps
<1> QED BY <1>4, <1>5 DEF Collect

LEMMA ExitKeeps ==
    ASSUME Inv, Exit PROVE Inv'
<1>1. /\ doing' = [is |-> "exit"] /\ streams' = streams \ ClosedAll
      /\ slots' = [i \in DOMAIN slots |-> Free]
      /\ UNCHANGED <<stamps, disk, kids, bp, error, exit, ops, opened>>
  BY DEF Exit
<1>2. /\ Len(slots) \in Nat /\ DOMAIN slots = 1..Len(slots) /\ DOMAIN slots' = 1..Len(slots)
      /\ slots' \in [1..Len(slots) -> SlotType]
  BY <1>1, SlotsType, FreeType DEF Inv
<1>3. slots' \in Seq(SlotType) /\ Len(slots') = Len(slots)
  <2>1. slots' \in Seq(SlotType)
    BY <1>2, SeqDef
  <2>2. Len(slots') \in Nat /\ 1..Len(slots') = 1..Len(slots)
    BY <1>2, <2>1, LenProperties
  <2>3. \A m, n \in Nat : 1..m = 1..n => m = n
    <3> SUFFICES ASSUME NEW m \in Nat, NEW n \in Nat, 1..m = 1..n, m < n PROVE FALSE
      OBVIOUS
    <3>1. n \in 1..n /\ n \notin 1..m
      OBVIOUS
    <3> QED BY <3>1
  <2> QED BY <1>2, <2>1, <2>2, <2>3
<1>4. \A i \in 1..Len(slots) : slots'[i] = Free
  BY <1>1, <1>2
<1>5. TypeOK'
  BY <1>1, <1>3 DEF Inv, TypeOK, DoingType
<1>6. Rights'
  <2>1. Right(Free)'
    <3>1. At(0) = Free
      BY SlotsType DEF At, Inv
    <3>2. Right(Free)
      BY <3>1, RightAt DEF Inv
    <3> QED BY <1>1, <3>2 DEF Right
  <2> QED BY <1>3, <1>4, <2>1 DEF Rights, Right
<1>7. Stamped'
  BY <1>1, <1>3, <1>4, FreeType DEF Inv, Stamped, InUse
<1>8. NoLeak => NoLeak'
  <2>1. ASSUME NoLeak PROVE streams' = {}
    <3>1. ASSUME NEW x \in streams PROVE x \in ClosedAll
      <4>1. PICK i \in DOMAIN slots : x \in Held(slots[i])
        BY <2>1, <3>1 DEF NoLeak, Held
      <4>2. ~IsStd(slots[i])
        BY <4>1, SlotsType DEF Inv, Rights, Right
      <4> QED BY <4>1, <4>2 DEF ClosedAll, Held
    <3> QED BY <1>1, <3>1
  <2>2. Ids(Free.rd) = {} /\ Ids(Free.wr) = {}
    BY FreeType DEF Held
  <2>3. \A i \in DOMAIN slots' : Ids(slots[i].rd)' = {} /\ Ids(slots[i].wr)' = {}
    BY <1>2, <1>4, <2>2 DEF Ids, Own
  <2> DEFINE OfAll(sl) == {Ids(sl[i].rd) \cup Ids(sl[i].wr) : i \in {j \in DOMAIN sl : InUse(sl[j])}}
  <2>4. \A i \in DOMAIN slots' : Ids(slots'[i].rd) = {} /\ Ids(slots'[i].wr) = {}
    BY <2>3 DEF Ids, Own
  <2>5. \A i \in DOMAIN slots' : Ids(slots'[i].rd) \cup Ids(slots'[i].wr) = {}
    BY <2>4
  <2>6. UNION OfAll(slots') = {}
    BY <2>5, Zenon
  <2>7. \A i, j \in DOMAIN slots' :
          (Ids(slots'[i].rd) \cup Ids(slots'[i].wr)) \cap (Ids(slots'[j].rd) \cup Ids(slots'[j].wr)) = {}
    BY <2>5
  <2> QED BY <2>1, <2>6, <2>7 DEF NoLeak, Ids, Own, InUse
<1>9. Reads' /\ Collected'
  BY <1>1 DEF Reads, Collected
<1> QED BY <1>5, <1>6, <1>7, <1>8, <1>9 DEF Inv

LEMMA InitInv == Init => Inv
<1> SUFFICES ASSUME Init PROVE Inv
  OBVIOUS
<1>1. slots = <<>> /\ stamps = <<>> /\ kids = <<>> /\ Len(slots) = 0 /\ Len(stamps) = 0
      /\ DOMAIN slots = {} /\ DOMAIN kids = {}
  BY DEF Init
<1>2. slots \in Seq(SlotType) /\ stamps \in Seq(Nat) /\ kids \in Seq(KidType)
  BY <1>1
<1>3. TypeOK
  <2>1. disk \in [Names -> Nat \cup {Missing}]
    BY DEF Init
  <2> QED BY <1>1, <1>2, <2>1 DEF Init, TypeOK, DoingType
<1>4. Rights /\ Stamped
  BY <1>1 DEF Rights, Stamped, Init
<1>5. Reads /\ Collected /\ NoLeak
  BY <1>1 DEF Init, Reads, Nothing, Collected, NoLeak
<1> QED BY <1>3, <1>4, <1>5 DEF Inv

LEMMA StepInv == Inv /\ [Next]_vars => Inv'
<1> SUFFICES ASSUME Inv, [Next]_vars PROVE Inv'
  OBVIOUS
<1>1. CASE UNCHANGED vars
  <2>1. /\ slots' = slots /\ stamps' = stamps /\ kids' = kids /\ disk' = disk /\ bp' = bp
        /\ streams' = streams /\ error' = error /\ exit' = exit /\ doing' = doing
        /\ ops' = ops /\ opened' = opened
    BY <1>1 DEF vars
  <2>2. TypeOK' /\ Reads' /\ Collected'
    BY <2>1 DEF Inv, TypeOK, DoingType, Reads, Collected
  <2>3. Rights' /\ Stamped'
    BY <2>1 DEF Inv, Rights, Right, Stamped
  <2>4. NoLeak => NoLeak'
    BY <2>1 DEF NoLeak
  <2> QED BY <2>2, <2>3, <2>4 DEF Inv
<1>2. ASSUME NEW a \in Aliases, Opens(a) PROVE Inv'
  BY <1>2, FopenKeeps, PopenKeeps DEF Opens
<1>3. ASSUME NEW a \in Aliases, Uses(a) PROVE Inv'
  BY <1>3, ReadKeeps, WriteKeeps, WriteEofKeeps, CloseKeeps DEF Uses
<1>4. ASSUME NEW k \in DOMAIN kids, KidStep(k) PROVE Inv'
  BY <1>4, KidStepKeeps
<1> QED BY <1>1, <1>2, <1>3, <1>4, ReadPipeKeeps, ForkKeeps, CollectKeeps, ExitKeeps DEF Next

(* The invariant of the table of files, whatever the commands behind the       *)
(* pipes do and in whatever order they end (pfile.c).                        *)
THEOREM InvCorrect == Spec => []Inv
BY InitInv, StepInv, PTL DEF Spec

(* The slots, streams, commands and files keep their types in every state.     *)
THEOREM TypeCorrect == Spec => []TypeOK
<1>1. Inv => TypeOK
  BY DEF Inv
<1> QED BY <1>1, InvCorrect, PTL

(* An alias names the file opened last, although the search of an open ends at *)
(* the first free slot and so overlooks one that has the alias (pfile.c).      *)
THEOREM NewestCorrect == Spec => []Newest
<1>1. Inv => Newest
  <2> SUFFICES ASSUME Inv, NEW a \in Aliases, NEW i \in Having(a)
               PROVE  stamps[i] =< stamps[Slot(a)]
    BY DEF Newest
  <2>1. Slot(a) \in Having(a) /\ Slot(a) =< i
    BY SlotIs DEF Inv
  <2>2. Slot(a) = i \/ Slot(a) < i
    BY <2>1, SlotsType DEF Inv, Having
  <2>3. stamps[i] =< stamps[i]
    BY SlotsType DEF Inv, Having
  <2> QED BY <2>1, <2>2, <2>3, SlotsType DEF Inv, Stamped, Having
<1> QED BY <1>1, InvCorrect, PTL

(* Each stream that is open belongs to one slot in use, and none is left when  *)
(* the program ends, unless a fork fails.                                    *)
THEOREM NoLeakCorrect == ~ForkFails => (Spec => []NoLeak)
<1>1. ~ForkFails /\ Inv => NoLeak
  BY DEF Inv
<1>2. ~ForkFails => (~ForkFails)'
  OBVIOUS
<1> QED BY <1>1, <1>2, InvCorrect, PTL

(* A close of a pipe comes back with its own command collected, whichever      *)
(* commands ended before it, also when process numbers do not fit a short.     *)
THEOREM CollectedCorrect == Spec => []Collected
<1>1. Inv => Collected
  BY DEF Inv
<1> QED BY <1>1, InvCorrect, PTL
=============================================================================
