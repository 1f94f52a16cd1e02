-------------------------- MODULE PageSpaceProofs --------------------------
(***************************************************************************)
(* What TLAPS proves of PageSpace.  Its types.  Every page has one owner:  *)
(* PageSpace implements PageVolume, for every instance in which no update  *)
(* is interrupted.  And the limits, which hold whatever signals and kills  *)
(* do: no list is written beyond its array, and the volume is reported     *)
(* full only when it is.                                                   *)
(***************************************************************************)
EXTENDS PageSpace, FiniteSetTheorems, WellFoundedInduction, TLAPS

-----------------------------------------------------------------------------
(* The geometry of the bitmap: every existing page has a bit in one of the *)
(* slabs, and the bits without a page are masked bits of the last slab.    *)

(* Quotients by bounds: the form in which the lemmas below use division.   *)
LEMMA Quotient ==
    ASSUME NEW n \in Nat, NEW d \in Nat \ {0}, NEW q \in Nat
    PROVE  /\ n \div d \in Nat
           /\ d * (n \div d) =< n
           /\ n < d * (n \div d) + d
           /\ d * q =< n => q =< n \div d
           /\ n < d * q + d => n \div d =< q
<1> DEFINE x == n \div d
<1>1. x \in Int /\ d * x =< n /\ n < d * x + d
  BY SMT
<1>2. x \in Nat
  <2>1. CASE x < 0
    <3>1. x + 1 =< 0
      BY <1>1, <2>1
    <3>2. d * (x + 1) =< 0
      BY <3>1, <1>1, SMT
    <3>3. d * (x + 1) = d * x + d
      BY <1>1, SMT
    <3> QED BY <1>1, <3>2, <3>3, SMT
  <2> QED BY <1>1, <2>1
<1>3. ASSUME d * q =< n PROVE q =< x
  <2>1. CASE x + 1 =< q
    <3>1. d * (x + 1) =< d * q
      BY <2>1, <1>2, SMT
    <3>2. d * (x + 1) = d * x + d
      BY <1>2, SMT
    <3> QED BY <1>1, <1>3, <3>1, <3>2, SMT
  <2> QED BY <1>2, <2>1
<1>4. ASSUME n < d * q + d PROVE x =< q
  <2>1. CASE q + 1 =< x
    <3>1. d * (q + 1) =< d * x
      BY <2>1, <1>2, SMT
    <3>2. d * (q + 1) = d * q + d
      BY SMT
    <3> QED BY <1>1, <1>2, <1>4, <3>1, <3>2, SMT
  <2> QED BY <1>2, <2>1
<1> QED BY <1>1, <1>2, <1>3, <1>4

Slab(n) == n \div (ByteBits * SlabBytes)

(* The last byte begins at page ByteBits * (BitMapBytes - 1), at or before *)
(* the last existing page.                                                 *)
LEMMA ByteBounds ==
    /\ BitMapBytes \in Nat \ {0}
    /\ ByteBits * (BitMapBytes - 1) =< MaxPage - 1
    /\ MaxPage =< ByteBits * BitMapBytes
    /\ \A n \in BitPages \ ExistingPages : n \in Masked
<1>a. MaxPage \in Nat \ {0} /\ ByteBits \in Nat \ {0}
  BY ConstantAssumption
<1> DEFINE B == ByteBits
           m == MaxPage
           k == BitMapBytes
<1>1. k \in Nat /\ B * k =< m + B - 1 /\ m + B - 1 < B * k + B
  <2>1. m + B - 1 \in Nat
    BY <1>a
  <2>2. /\ (m + B - 1) \div B \in Nat
        /\ B * ((m + B - 1) \div B) =< m + B - 1
        /\ m + B - 1 < B * ((m + B - 1) \div B) + B
    BY <2>1, <1>a, Quotient
  <2> QED BY <2>2 DEF BitMapBytes
<1>2. B * k \in Nat /\ m =< B * k
  BY <1>1, <1>a, SMT
<1>3. k # 0
  <2>1. CASE k = 0
    <3>1. B * k = 0
      BY <2>1, <1>a, SMT
    <3> QED BY <3>1, <1>2, <1>a, SMT
  <2> QED BY <2>1
<1>4. B * (k - 1) = B * k - B
  BY <1>1, <1>a, SMT
<1>5. B * (k - 1) =< m - 1
  BY <1>4, <1>1, <1>2, <1>a, SMT
<1>6. ASSUME NEW n \in BitPages \ ExistingPages PROVE n \in Masked
  <2>1. n \in Int /\ m =< n
    BY <1>6, <1>a, <1>2, SMT DEF BitPages, ExistingPages
  <2>2. B * k - (B - (m % B)) =< m
    <3>1. m % B \in 0 .. B - 1 /\ m = B * (m \div B) + (m % B) /\ m \div B \in Nat
      BY <1>a, Quotient, SMT
    <3> DEFINE x == m \div B
               r == m % B
    <3>2. CASE r = 0
      <4>1. m + B - 1 < B * x + B
        BY <3>1, <3>2, <1>a, SMT
      <4>2. B * k < B * x + B
        BY <4>1, <3>1, <1>1, <1>2, <1>a, SMT
      <4>3. B * x + B = B * (x + 1)
        BY <3>1, <1>a, SMT
      <4> QED BY <3>2, <4>2, <1>a, <1>1, <1>2, SMT
    <3>3. CASE r # 0
      <4> HIDE DEF x, r
      <4>1. CASE x + 2 =< k
        <5>1. B * (x + 2) =< B * k
          BY <4>1, <1>1, <3>1, <1>a, SMT DEF x
        <5>2. B * (x + 2) = B * x + B + B
          BY <3>1, <1>a, SMT DEF x
        <5> QED BY <5>1, <5>2, <3>1, <1>1, <1>2, <1>a, SMT DEF x, r
      <4>2. CASE k =< x + 1
        <5>1. B * k =< B * (x + 1)
          BY <4>2, <1>1, <3>1, <1>a, SMT DEF x
        <5>2. B * (x + 1) = B * x + B
          BY <3>1, <1>a, SMT DEF x
        <5>3. m = B * x + r /\ r \in Int /\ B * x \in Int
          BY <3>1, <1>a, SMT DEF x, r
        <5>4. B * k - (B - r) =< m
          BY <5>1, <5>2, <5>3, <1>2, <1>a, SMT
        <5> QED BY <5>4 DEF r
      <4> QED BY <4>1, <4>2, <1>1, <3>1, SMT DEF x
    <3> QED BY <3>2, <3>3
  <2>3. B * k - (B - (m % B)) =< n
    <3>1. m % B \in Int
      BY <1>a, SMT
    <3> QED BY <2>1, <2>2, <3>1, <1>2, <1>a, SMT
  <2> QED BY <1>6, <2>3 DEF Masked
<1> QED BY <1>1, <1>2, <1>3, <1>5, <1>6

(* The last slab holds the last byte.                                      *)
LEMMA LastSlabBounds ==
    /\ LastSlab \in Nat
    /\ SlabBytes * LastSlab =< BitMapBytes - 1
    /\ BitMapBytes =< SlabBytes * LastSlab + SlabBytes
<1> DEFINE k == BitMapBytes
           s == SlabBytes
           q == (k + s - 1) \div s
<1>1. k \in Nat \ {0} /\ s \in Nat \ {0}
  BY ByteBounds, ConstantAssumption
<1>2. k + s - 1 \in Nat
  BY <1>1
<1>3. q \in Nat /\ s * q =< k + s - 1 /\ k + s - 1 < s * q + s
  BY <1>1, <1>2, Quotient
<1>4. 1 =< q
  BY <1>1, <1>2, Quotient, s * 1 =< k + s - 1
<1>5. s * (q - 1) = s * q - s
  BY <1>1, <1>3, SMT
<1> HIDE DEF q, k, s
<1>6. q - 1 \in Nat /\ s * (q - 1) =< k - 1 /\ k =< s * (q - 1) + s
  <2>1. s * q \in Int
    BY <1>1, <1>3, SMT
  <2> QED BY <2>1, <1>1, <1>3, <1>4, <1>5, SMT
<1> QED BY <1>6 DEF LastSlab, q, k, s

(* The slab of a bit, and the two facts used below. *)
LEMMA SlabOfBit ==
    ASSUME NEW n \in BitPages
    PROVE  /\ n \in Nat
           /\ Slab(n) \in 0 .. LastSlab
           /\ ByteBits * (BitMapBytes - 1) =< n => Slab(n) = LastSlab
<1> DEFINE B == ByteBits
           s == SlabBytes
           k == BitMapBytes
           q == LastSlab
<1>1. B \in Nat \ {0} /\ s \in Nat \ {0} /\ k \in Nat \ {0} /\ q \in Nat
  BY ByteBounds, LastSlabBounds, ConstantAssumption
<1>2. s * q =< k - 1 /\ k =< s * q + s
  BY LastSlabBounds
<1>3. B * k \in Nat /\ n \in Nat /\ n < B * k
  BY <1>1, SMT DEF BitPages
<1>4. B * s \in Nat \ {0}
  BY <1>1, SMT
<1> HIDE DEF B, s, k, q
<1>5. B * k =< (B * s) * q + B * s
  <2>1. B * k =< B * (s * q + s)
    BY <1>1, <1>2, SMT
  <2>2. B * (s * q + s) = (B * s) * q + B * s
    BY <1>1, SMT
  <2> QED BY <2>1, <2>2
<1>6. n < (B * s) * q + B * s
  BY <1>1, <1>3, <1>4, <1>5, SMT
<1>7. n \div (B * s) \in Nat /\ n \div (B * s) =< q
  BY <1>1, <1>3, <1>4, <1>6, Quotient
<1>8. ASSUME B * (k - 1) =< n PROVE q =< n \div (B * s)
  <2>1. B * (s * q) =< B * (k - 1)
    BY <1>1, <1>2, SMT
  <2>2. (B * s) * q = B * (s * q)
    BY <1>1, SMT
  <2>3. (B * s) * q =< n
    BY <1>1, <1>3, <1>4, <1>8, <2>1, <2>2, SMT
  <2> QED BY <1>1, <1>3, <1>4, <2>3, Quotient
<1> QED BY <1>1, <1>3, <1>7, <1>8, SMT DEF Slab, B, s, k, q

LEMMA ExistingPageBit ==
    ASSUME NEW n \in ExistingPages
    PROVE  n \in BitPages /\ n \in SlabPages(Slab(n)) /\ Slab(n) \in 0 .. LastSlab
<1>1. MaxPage \in Nat \ {0} /\ ByteBits \in Nat \ {0} /\ BitMapBytes \in Nat
  BY ConstantAssumption, ByteBounds
<1>2. ByteBits * BitMapBytes \in Nat
  BY <1>1, SMT
<1>3. n \in BitPages
  BY <1>1, <1>2, ByteBounds, SMT DEF ExistingPages, BitPages
<1> QED BY <1>3, SlabOfBit DEF SlabPages, Slab

(* What getspare() may find in a slab are existing pages. *)
LEMMA FoundExists ==
    ASSUME NEW c \in Nat
    PROVE  SlabPages(c) \ (IF c = LastSlab THEN Masked ELSE {}) \subseteq ExistingPages
<1> SUFFICES ASSUME NEW n \in SlabPages(c), n \notin ExistingPages
             PROVE  c = LastSlab /\ n \in Masked
  OBVIOUS
<1>1. n \in BitPages /\ Slab(n) = c
  BY DEF SlabPages, Slab
<1>2. n \in Masked
  BY <1>1, ByteBounds
<1>3. n \in Nat /\ MaxPage \in Nat /\ MaxPage =< n
  BY <1>1, SlabOfBit, ConstantAssumption DEF ExistingPages
<1>4. ByteBits * (BitMapBytes - 1) \in Int
  BY ConstantAssumption, ByteBounds, SMT
<1>5. ByteBits * (BitMapBytes - 1) =< n
  BY <1>3, <1>4, ByteBounds
<1> QED BY <1>1, <1>2, <1>5, SlabOfBit

-----------------------------------------------------------------------------
(* Types. *)

(* One step of _getspare() on a slab finds existing pages only. *)
LEMMA FoundType ==
    ASSUME NEW p \in Proc, slab[p] \in Nat, NEW k
    PROVE  Lowest(Clear(p), k) \subseteq ExistingPages
BY FoundExists DEF Lowest, Clear

(* A process that updates knows which table it updates. *)
Typed == TypeOK /\ \A p \in Proc : Updating(p) => cur[p] \in Table

LEMMA TypeInit == Init => Typed
<1> SUFFICES ASSUME Init PROVE Typed
  OBVIOUS
<1>1. bitmap \subseteq ExistingPages
  <2>1. \A t \in Table : FirstTree[t] \subseteq ExistingPages
    BY ConstantAssumption DEF ExistingPages
  <2>2. UNION {FirstTree[t] : t \in Table} \subseteq ExistingPages
    BY <2>1, Zenon
  <2> QED BY <2>2, ConstantAssumption DEF Init, ExistingPages
<1>2. tree \in [Table -> SUBSET ExistingPages]
  BY ConstantAssumption DEF Init, ExistingPages
<1>3. spare \in [Proc -> SUBSET ExistingPages]
  BY ConstantAssumption DEF Init, ExistingPages
<1>4. kills \in 0 .. MaxKills /\ signs \in 0 .. MaxSignals
  BY ConstantAssumption DEF Init
<1> QED BY <1>1, <1>2, <1>3, <1>4 DEF Init, Typed, TypeOK, Updating, States,
                                     Bitmapping, Changing

(* A jump, with what its two callers say of the signals. *)
LEMMA JumpType ==
    ASSUME Typed, NEW p \in Proc, Jump(p),
           hangup' \in [Proc -> {1, 2}], seen' \in [Proc -> BOOLEAN],
           signs' \in 0 .. MaxSignals
    PROVE  Typed'
<1> USE DEF Jump, Leave, Goto, disk, locks
<1>1. /\ bitmap' \subseteq ExistingPages /\ lost' \subseteq ExistingPages
      /\ mapLock' \in Proc \cup {None}
      /\ tblLock' \in [Table -> Proc \cup {None}]
      /\ tree' \in [Table -> SUBSET ExistingPages]
      /\ kills' \in 0 .. MaxKills
  BY DEF Typed, TypeOK
<1>2. /\ spare' \in [Proc -> SUBSET ExistingPages]
      /\ list1' \in [Proc -> SUBSET ExistingPages]
      /\ list2' \in [Proc -> SUBSET ExistingPages]
      /\ made' \in [Proc -> SUBSET ExistingPages]
      /\ cut' \in [Proc -> SUBSET ExistingPages]
      /\ freeing' \in [Proc -> SUBSET ExistingPages]
      /\ pending' \in [Proc -> SUBSET ExistingPages]
  BY DEF Typed, TypeOK
<1>3. /\ pc' \in [Proc -> States]
      /\ ret' \in [Proc -> {"putchange", "closing", "sparing"}]
      /\ back' \in [Proc -> {"idle", "unlocking"}]
      /\ cur' \in [Proc -> Table \cup {None}]
      /\ slab' \in [Proc -> Nat]
      /\ buf' \in [Proc -> SUBSET ExistingPages]
  BY DEF Typed, TypeOK, States
<1>4. \A q \in Proc : Updating(q)' => cur'[q] \in Table
  BY DEF Typed, TypeOK, Updating, Changing
<1> QED BY <1>1, <1>2, <1>3, <1>4 DEF Typed, TypeOK

LEMMA TypeStep ==
    ASSUME Typed, [Next]_vars
    PROVE  Typed'
<1> USE DEF Typed, TypeOK, Updating, disk, locks, lists, control, signals, ghosts,
            Bitmapping, Changing
<1>a. CASE UNCHANGED vars
  BY <1>a DEF vars
<1> SUFFICES ASSUME NEW p \in Proc,
                    \/ Allocate(p) \/ Release(p) \/ Update(p) \/ Spare(p) \/ Shut(p)
                    \/ OutOfSpace(p) \/ Kill(p) \/ Hangup(p) \/ Exit(p) \/ Open(p)
                    \/ \E t \in Table : Begin(p, t) \/ Sparetree(p, t)
                    \/ \E h \in {1, 2} : SetHangup(p, h)
             PROVE  Typed'
  BY <1>a DEF Next
<1>1. CASE Getspare(p)
  BY <1>1 DEF Getspare, MapFree, Goto, States
<1>2. CASE GetspareRead(p)
  BY <1>2 DEF GetspareRead, Goto, States
<1>3. CASE GetspareEnd(p)
  BY <1>3 DEF GetspareEnd, Goto, States
<1>4. CASE OutOfSpace(p)
  BY <1>4 DEF OutOfSpace, Forget, Leave, Goto, Held, Replaced, States
<1>5. CASE Kill(p)
  BY <1>5, ConstantAssumption DEF Kill, Forget, Leave, Goto, Held, Replaced, States
<1>6. CASE NothingToDo(p)
  BY <1>6 DEF NothingToDo, Leave, Goto, States
<1>7. CASE Freshnode(p)
  BY <1>7 DEF Freshnode, Goto, States
<1>8. CASE Repos(p)
  BY <1>8 DEF Repos, Goto, States
<1>9. CASE Retire(p)
  BY <1>9 DEF Retire, Goto, States
<1>10. CASE Publish(p)
  BY <1>10 DEF Publish, Goto, States
<1>11. CASE PutchangeFull(p)
  BY <1>11 DEF PutchangeFull, StartMkfree, MapFree, Goto, States
<1>12. CASE Putchange(p)
  BY <1>12 DEF Putchange, Leave, Goto, States
<1>13. CASE MkfreeRead(p)
  BY <1>13 DEF MkfreeRead, Goto, States
<1>14. CASE MkfreeWrite(p)
  BY <1>14 DEF MkfreeWrite, Goto, States
<1>15. CASE SpareFull(p)
  BY <1>15 DEF SpareFull, StartMkfree, MapFree, Goto, States
<1>16. CASE SparePage(p)
  BY <1>16 DEF SparePage
<1>17. CASE SpareEnd(p)
  BY <1>17 DEF SpareEnd, Goto, States
<1>18. CASE Hangup(p)
  <2>1. signs' \in 0 .. MaxSignals
    BY <1>18, ConstantAssumption DEF Hangup
  <2>2. CASE Jump(p) /\ UNCHANGED signals
    <3>1. hangup' \in [Proc -> {1, 2}] /\ seen' \in [Proc -> BOOLEAN]
      BY <2>2
    <3> QED BY <2>1, <2>2, <3>1, JumpType
  <2>3. CASE ~(Jump(p) /\ UNCHANGED signals)
    <3>1. /\ seen' = [seen EXCEPT ![p] = TRUE]
          /\ UNCHANGED <<disk, locks, lists, control, hangup, kills, lost>>
      BY <1>18, <2>3 DEF Hangup
    <3> QED BY <2>1, <3>1
  <2> QED BY <1>18, <2>1, <2>2, <2>3 DEF Hangup
<1>19. CASE Exit(p)
  BY <1>19 DEF Exit, Goto, States
<1>20. CASE Unlocked(p)
  BY <1>20 DEF Unlocked, Goto, States
<1>21. CASE CloseList1(p)
  BY <1>21 DEF CloseList1, StartMkfree, MapFree, Goto, States
<1>22. CASE CloseSpare(p)
  BY <1>22 DEF CloseSpare, StartMkfree, MapFree, Goto, States
<1>23. CASE Close(p)
  BY <1>23 DEF Close, Forget, Leave, Goto, Held, Replaced, States
<1>24. CASE Open(p)
  BY <1>24 DEF Open, Goto, States
<1>25. CASE GetspareWrite(p)
  <2> DEFINE found == Lowest(Clear(p), Wanted(p))
  <2>1. found \subseteq ExistingPages
    BY FoundType
  <2> HIDE DEF found
  <2>2. bitmap' \subseteq ExistingPages /\ spare' \in [Proc -> SUBSET ExistingPages]
    BY <2>1, <1>25 DEF GetspareWrite, found
  <2> QED BY <2>2, <1>25 DEF GetspareWrite, Goto, States
<1>26. ASSUME NEW t \in Table, Begin(p, t) PROVE Typed'
  BY <1>26 DEF Begin, Goto, States
<1>27. ASSUME NEW t \in Table, Sparetree(p, t) PROVE Typed'
  BY <1>27 DEF Sparetree, Goto, States
<1>28. ASSUME NEW h \in {1, 2}, SetHangup(p, h) PROVE Typed'
  <2>1. CASE h = 1 /\ seen[p]
    <3>1. /\ Jump(p) /\ signs' \in 0 .. MaxSignals
          /\ hangup' \in [Proc -> {1, 2}] /\ seen' \in [Proc -> BOOLEAN]
      BY ZenonT(80), <1>28, <2>1 DEF SetHangup
    <3> QED BY <3>1, JumpType
  <2>2. CASE ~(h = 1 /\ seen[p])
    BY <1>28, <2>2 DEF SetHangup
  <2> QED BY <2>1, <2>2
<1> HIDE DEF Typed, TypeOK, Updating, disk, locks, lists, control, signals, ghosts,
            Bitmapping, Changing
<1> QED
  BY <1>1, <1>2, <1>3, <1>4, <1>5, <1>6, <1>7, <1>8, <1>9, <1>10, <1>11, <1>12, <1>13, <1>14, <1>15, <1>16, <1>17, <1>18, <1>19, <1>20, <1>21, <1>22, <1>23, <1>24, <1>25, <1>26, <1>27, <1>28
     DEF Allocate, Release, Update, Spare, Shut

(* TypeOK holds in every state of every instance. *)
THEOREM TypeCorrect == Spec => []TypeOK
<1>1. Init => Typed
  BY TypeInit
<1>2. Typed /\ [Next]_vars => Typed'
  BY TypeStep
<1>3. Typed => TypeOK
  BY DEF Typed
<1> QED BY <1>1, <1>2, <1>3, PTL DEF Spec

-----------------------------------------------------------------------------
(* The inductive invariant.  What a process is doing tells which locks it  *)
(* holds, which of its lists may have pages and what is in its buffer.     *)

(* The lock of the bitmap is held during getspare() and _mkfree() only. *)
MapOwner(p) == pc[p] \in Bitmapping <=> mapLock = p

(* The lock of a table is held during an update of it. *)
TableOwner(p) == Updating(p) => cur[p] \in Table /\ tblLock[cur[p]] = p

(* Nobody writes a slab between its read and its write. *)
Buffered(p) ==
    pc[p] \in {"gsWrite", "mkWrite"} => buf[p] = bitmap \cap SlabPages(slab[p])

(* Until the new tree is published PageList2 has the pages it leaves out.  *)
Cutting(p) ==
    IF pc[p] \in Changing
    THEN list2[p] = cut[p] /\ cut[p] \subseteq tree[cur[p]]
    ELSE cut[p] = {} /\ made[p] = {}

(* Between updates PageList2 is empty. *)
Settled(p) == ~Updating(p) => list2[p] = {}

(* _mkfree() leaves no page behind. *)
Freeing(p) ==
    IF pc[p] \in {"mkRead", "mkWrite"}
    THEN slab[p] =< LastSlab /\ \A n \in freeing[p] : slab[p] =< Slab(n)
    ELSE freeing[p] = {}

(* Only _sparetree() has pages to visit. *)
Visiting(p) ==
    pending[p] # {} => \/ pc[p] = "sparing"
                       \/ pc[p] \in {"mkRead", "mkWrite"} /\ ret[p] = "sparing"

(* HANGUP is 2 whenever a signal would do harm. *)
PutOff(p) == Bracketed /\ pc[p] # "idle" => Ending(p) \/ hangup[p] = 2

Ctl(p) == /\ MapOwner(p) /\ TableOwner(p) /\ Buffered(p) /\ Cutting(p)
          /\ Settled(p) /\ Freeing(p) /\ Visiting(p) /\ PutOff(p)

(* The bits of the last byte without a page are clear. *)
Unmasked == bitmap \cap Masked = {}

(* No update is interrupted: there are no signals, or the program puts     *)
(* them off while it updates.                                              *)
Deferred == Bracketed \/ MaxSignals = 0

Control == (\A p \in Proc : Ctl(p)) /\ Unmasked

(* Every step keeps what is said of each process. *)
LEMMA ControlStep ==
    ASSUME Typed, Deferred, Control, [Next]_vars
    PROVE  \A q \in Proc : Ctl(q)'
<1> USE DEF Typed, TypeOK, disk, locks, lists, control, signals, ghosts, Control
<1> USE DEF Ctl, MapOwner, TableOwner, Buffered, Cutting, Settled, Freeing,
            Visiting, PutOff, Ending, Updating, Bitmapping, Changing, States
<1>b. LastSlab \in Nat /\ \A n \in ExistingPages : Slab(n) \in 0 .. LastSlab
  BY LastSlabBounds, ExistingPageBit
<1>a. CASE UNCHANGED vars
  BY <1>a DEF vars
<1> SUFFICES ASSUME NEW p \in Proc,
                    \/ Allocate(p) \/ Release(p) \/ Update(p) \/ Spare(p) \/ Shut(p)
                    \/ OutOfSpace(p) \/ Kill(p) \/ Hangup(p) \/ Exit(p) \/ Open(p)
                    \/ \E t \in Table : Begin(p, t) \/ Sparetree(p, t)
                    \/ \E h \in {1, 2} : SetHangup(p, h),
                    NEW q \in Proc
             PROVE  Ctl(q)'
  BY <1>a DEF Next
<1>1. CASE Getspare(p)
  BY <1>1, ConstantAssumption DEF Getspare, MapFree, Goto
<1>2. CASE GetspareRead(p)
  BY <1>2, ConstantAssumption DEF GetspareRead, Goto
<1>3. CASE GetspareEnd(p)
  BY <1>3, ConstantAssumption DEF GetspareEnd, Goto
<1>4. CASE OutOfSpace(p)
  BY <1>4, ConstantAssumption DEF OutOfSpace, Forget, Leave, Goto
<1>5. CASE Kill(p)
  BY <1>5, ConstantAssumption DEF Kill, Forget, Leave, Goto
<1>6. CASE NothingToDo(p)
  BY <1>6, ConstantAssumption DEF NothingToDo, Leave, Goto
<1>7. CASE Freshnode(p)
  BY <1>7, ConstantAssumption DEF Freshnode, Goto
<1>8. CASE Repos(p)
  <2>1. CASE q = p
    BY <1>8, <2>1 DEF Repos, Goto
  <2>2. CASE q # p
    BY <1>8, <2>2 DEF Repos, Goto
  <2> QED BY <2>1, <2>2
<1>9. CASE Retire(p)
  <2>1. CASE q = p
    BY <1>9, <2>1 DEF Retire, Goto
  <2>2. CASE q # p
    BY <1>9, <2>2 DEF Retire, Goto
  <2> QED BY <2>1, <2>2
<1>10. CASE Publish(p)
  BY <1>10, ConstantAssumption DEF Publish, Goto
<1>11. CASE Putchange(p)
  BY <1>11, ConstantAssumption DEF Putchange, Leave, Goto
<1>12. CASE MkfreeRead(p)
  BY <1>12, ConstantAssumption DEF MkfreeRead, Goto
<1>13. CASE SparePage(p)
  BY <1>13, ConstantAssumption DEF SparePage
<1>14. CASE SpareEnd(p)
  BY <1>14, ConstantAssumption DEF SpareEnd, Goto
<1>15. CASE Exit(p)
  BY <1>15, ConstantAssumption DEF Exit, Goto
<1>16. CASE Unlocked(p)
  BY <1>16, ConstantAssumption DEF Unlocked, Goto
<1>17. CASE Close(p)
  BY <1>17, ConstantAssumption DEF Close, Forget, Leave, Goto
<1>18. CASE Open(p)
  BY <1>18, ConstantAssumption DEF Open, Goto
<1>19. CASE PutchangeFull(p)
  BY <1>19, <1>b, ConstantAssumption DEF PutchangeFull, StartMkfree, MapFree, Goto
<1>20. CASE SpareFull(p)
  BY <1>20, <1>b, ConstantAssumption DEF SpareFull, StartMkfree, MapFree, Goto
<1>21. CASE CloseList1(p)
  BY <1>21, <1>b, ConstantAssumption DEF CloseList1, StartMkfree, MapFree, Goto
<1>22. CASE CloseSpare(p)
  BY <1>22, <1>b, ConstantAssumption DEF CloseSpare, StartMkfree, MapFree, Goto
<1>23. CASE GetspareWrite(p)
  BY SMTT(30), <1>23, ConstantAssumption DEF GetspareWrite, Goto
<1>24. CASE MkfreeWrite(p)
  <2>1. CASE q # p
    BY <1>24, <2>1, ConstantAssumption DEF MkfreeWrite, Goto
  <2>2. CASE q = p /\ slab[p] = LastSlab
    <3>1. freeing'[p] = {}
      <4> SUFFICES ASSUME NEW n \in freeing[p], n \notin SlabPages(slab[p])
                   PROVE  FALSE
        BY <1>24 DEF MkfreeWrite
      <4>1. n \in SlabPages(Slab(n)) /\ Slab(n) \in 0 .. LastSlab
        BY ExistingPageBit
      <4>2. LastSlab =< Slab(n)
        BY <1>24, <2>2 DEF MkfreeWrite
      <4> QED BY SMTT(30), <4>1, <4>2, <2>2, <1>b
    <3> QED BY SMTT(30), <1>24, <2>2, <3>1, ConstantAssumption DEF MkfreeWrite, Goto
  <2>3. CASE q = p /\ slab[p] # LastSlab
    <3>1. slab[p] + 1 =< LastSlab
      <4>1. slab[p] =< LastSlab /\ slab[p] \in Nat
        BY <1>24 DEF MkfreeWrite
      <4> QED BY <4>1, <2>3, <1>b
    <3>2. ASSUME NEW n \in freeing[p], n \notin SlabPages(slab[p])
          PROVE  slab[p] + 1 =< Slab(n)
      <4>1. n \in SlabPages(Slab(n)) /\ Slab(n) \in 0 .. LastSlab
        BY ExistingPageBit
      <4>2. slab[p] =< Slab(n) /\ slab[p] # Slab(n)
        BY <1>24, <3>2, <4>1 DEF MkfreeWrite
      <4> QED BY <4>1, <4>2, <1>b
    <3>3. slab'[p] =< LastSlab /\ \A n \in freeing'[p] : slab'[p] =< Slab(n)
      BY <1>24, <2>3, <3>1, <3>2 DEF MkfreeWrite
    <3> QED BY SMTT(30), <1>24, <2>3, <3>3, ConstantAssumption DEF MkfreeWrite, Goto
  <2> QED BY <2>1, <2>2, <2>3
<1>25. CASE Hangup(p)
  <2>1. Bracketed
    BY <1>25, ConstantAssumption DEF Hangup, Deferred
  <2>2. CASE hangup[p] = 1 /\ Jump(p) /\ UNCHANGED signals
    <3>1. pc[p] = "idle"
      BY <1>25, <2>1, <2>2 DEF Hangup
    <3> QED BY <2>2, <3>1 DEF Jump, Leave, Goto
  <2>3. CASE UNCHANGED <<disk, locks, lists, control, hangup>>
    BY <2>3
  <2> QED BY <1>25, <2>2, <2>3 DEF Hangup
<1>26. ASSUME NEW t \in Table, Begin(p, t) PROVE Ctl(q)'
  <2>1. CASE q = p
    <3>1. /\ pc[p] \in {"idle", "unlocking"}
          /\ list2[p] = {} /\ cut[p] = {} /\ made[p] = {} /\ freeing[p] = {}
          /\ pending[p] = {} /\ mapLock # p
      BY <1>26 DEF Begin
    <3>2. /\ pc'[p] = "update" /\ cur'[p] = t /\ tblLock'[t] = p
          /\ back'[p] = pc[p]
          /\ pc[p] = "idle" => (Bracketed => hangup[p] = 2)
          /\ UNCHANGED <<disk, mapLock, lists, hangup>>
      BY <1>26 DEF Begin, Goto
    <3> QED BY ZenonT(40), <2>1, <3>1, <3>2
  <2>2. CASE q # p
    BY <1>26, <2>2, ConstantAssumption DEF Begin, TableFree, Goto
  <2> QED BY <2>1, <2>2
<1>27. ASSUME NEW t \in Table, Sparetree(p, t) PROVE Ctl(q)'
  BY <1>27, ConstantAssumption DEF Sparetree, Goto
<1>28. ASSUME NEW h \in {1, 2}, SetHangup(p, h) PROVE Ctl(q)'
  BY SMTT(30), <1>28, ConstantAssumption DEF SetHangup, Jump, Leave, Goto
<1> HIDE DEF Typed, TypeOK, disk, locks, lists, control, signals, ghosts, Control,
            Ctl, MapOwner, TableOwner, Buffered, Cutting, Settled, Freeing,
            Visiting, PutOff, Ending, Updating, Bitmapping, Changing, States
<1> QED
  BY <1>1, <1>2, <1>3, <1>4, <1>5, <1>6, <1>7, <1>8, <1>9, <1>10, <1>11, <1>12, <1>13, <1>14, <1>15, <1>16, <1>17, <1>18, <1>19, <1>20, <1>21, <1>22, <1>23, <1>24, <1>25, <1>26, <1>27, <1>28
     DEF Allocate, Release, Update, Spare, Shut

(* A masked bit belongs to the last byte. *)
LEMMA MaskedLast ==
    ASSUME NEW n \in Masked
    PROVE  n \in BitPages /\ n \in SlabPages(LastSlab)
<1>1. /\ MaxPage \in Nat /\ ByteBits \in Nat \ {0} /\ BitMapBytes \in Nat \ {0}
      /\ n \in BitPages
  BY ConstantAssumption, ByteBounds DEF Masked
<1>2. MaxPage % ByteBits \in Nat /\ ByteBits * BitMapBytes \in Nat /\ n \in Nat
  BY <1>1, SlabOfBit, SMT
<1>3. ByteBits * BitMapBytes - ByteBits =< n
  BY <1>1, <1>2, SMT DEF Masked
<1>4. ByteBits * (BitMapBytes - 1) = ByteBits * BitMapBytes - ByteBits
  BY <1>1, SMT
<1> QED BY <1>1, <1>3, <1>4, SlabOfBit DEF SlabPages, Slab

(* No step sets a bit of the last byte that the mask covers. *)
LEMMA UnmaskedStep ==
    ASSUME Typed, Control, [Next]_vars
    PROVE  Unmasked'
<1> USE DEF Control, Unmasked, disk, locks, lists, control, signals, ghosts
<1>a. CASE UNCHANGED bitmap
  BY <1>a
<1>c. ASSUME NEW p \in Proc, Allocate(p) \/ Release(p) \/ Update(p) \/ Spare(p)
      PROVE  UNCHANGED bitmap \/ GetspareWrite(p) \/ MkfreeWrite(p)
  BY <1>c DEF Allocate, Release, Update, Spare, Getspare, GetspareRead, GetspareEnd,
     NothingToDo, Freshnode, Repos, Retire, Publish, PutchangeFull, Putchange, MkfreeRead,
     SpareFull, SparePage, SpareEnd
<1>d. ASSUME NEW p \in Proc,
             \/ Shut(p) \/ OutOfSpace(p) \/ Kill(p) \/ Hangup(p) \/ Exit(p) \/ Open(p)
             \/ \E t \in Table : Begin(p, t) \/ Sparetree(p, t)
             \/ \E h \in {1, 2} : SetHangup(p, h)
      PROVE  UNCHANGED bitmap
  BY <1>d DEF Shut, OutOfSpace, Kill, Forget, Hangup, Jump, Exit, Unlocked, CloseList1,
     CloseSpare, Close, Open, Begin, Sparetree, SetHangup
<1> SUFFICES ASSUME NEW p \in Proc, GetspareWrite(p) \/ MkfreeWrite(p)
             PROVE  Unmasked'
  BY <1>a, <1>c, <1>d DEF vars, Next
<1>b. buf[p] \cap Masked = {}
  BY DEF Ctl, Buffered, GetspareWrite, MkfreeWrite
<1>1. CASE GetspareWrite(p)
  <2> DEFINE found == Lowest(Clear(p), Wanted(p))
  <2>1. slab[p] # LastSlab => found \cap Masked = {}
    BY MaskedLast DEF Lowest, Clear, SlabPages
  <2> HIDE DEF found
  <2> QED BY <1>1, <1>b, <2>1 DEF GetspareWrite, found
<1>2. CASE MkfreeWrite(p)
  BY <1>2, <1>b DEF MkfreeWrite
<1> QED BY <1>1, <1>2

LEMMA ControlInit == Init => Control
BY ConstantAssumption
   DEF Init, Control, Ctl, MapOwner, TableOwner, Buffered, Cutting, Settled,
       Freeing, Visiting, PutOff, Ending, Updating, Bitmapping, Changing, Unmasked

(* As long as updates are not interrupted: a slab is written as it was     *)
(* read, PageList2 is empty between updates, _mkfree() leaves nothing.     *)
THEOREM ControlCorrect == Deferred => (Spec => []Control)
<1>1. Init => Typed /\ Control
  BY TypeInit, ControlInit
<1>2. ASSUME Deferred, Typed /\ Control, [Next]_vars PROVE (Typed /\ Control)'
  BY <1>2, TypeStep, ControlStep, UnmaskedStep DEF Control
<1>3. Deferred => Deferred'
  BY DEF Deferred
<1> QED BY <1>1, <1>2, <1>3, PTL DEF Spec

-----------------------------------------------------------------------------
(* The invariant of pages and their owners. *)

Inv == Typed /\ Control /\ OwnLists /\ Volume!Partition

-----------------------------------------------------------------------------
(* How each step changes what the abstract volume shows. *)

(* Pages move between the lists of a process, or nothing does. *)
Quiet == /\ UNCHANGED <<bitmap, tree, lost>>
         /\ \A q \in Proc : Held(q)' = Held(q)

(* What the process holds becomes H, nobody else's holding changes. *)
Holds(p, H) ==
    /\ Held(p)' = H
    /\ \A q \in Proc \ {p} : Held(q)' = Held(q)

(* The actions that only move pages between the lists of their process.    *)
QuietAction(p) ==
    \/ Getspare(p) \/ GetspareRead(p) \/ GetspareEnd(p) \/ NothingToDo(p)
    \/ Freshnode(p) \/ Repos(p) \/ Retire(p) \/ PutchangeFull(p)
    \/ Putchange(p) \/ MkfreeRead(p) \/ SpareFull(p) \/ SparePage(p)
    \/ SpareEnd(p) \/ Exit(p) \/ Unlocked(p) \/ CloseList1(p)
    \/ CloseSpare(p) \/ Open(p)
    \/ Hangup(p) \/ \E t \in Table : Begin(p, t)
    \/ \E h \in {1, 2} : SetHangup(p, h)

LEMMA QuietStep ==
    ASSUME Typed, Deferred, Control, NEW p \in Proc, QuietAction(p)
    PROVE  Quiet
<1> USE DEF Typed, TypeOK, disk, locks, lists, control, signals, ghosts, Control, Quiet
<1> USE DEF Ctl, Cutting, Settled, Freeing, Visiting, Updating, Changing, Held, Replaced
<1>1. CASE Getspare(p)
  BY <1>1 DEF Getspare, Goto
<1>2. CASE GetspareRead(p)
  BY <1>2 DEF GetspareRead, Goto
<1>3. CASE GetspareEnd(p)
  BY <1>3 DEF GetspareEnd, Goto
<1>4. CASE NothingToDo(p)
  BY <1>4 DEF NothingToDo, Leave, Goto
<1>5. CASE Freshnode(p)
  BY <1>5 DEF Freshnode, Goto
<1>6. CASE Repos(p)
  BY <1>6 DEF Repos, Goto
<1>7. CASE Retire(p)
  BY <1>7 DEF Retire, Goto
<1>8. CASE PutchangeFull(p)
  BY <1>8 DEF PutchangeFull, StartMkfree, Goto
<1>9. CASE Putchange(p)
  BY <1>9 DEF Putchange, Leave, Goto
<1>10. CASE MkfreeRead(p)
  BY <1>10 DEF MkfreeRead, Goto
<1>11. CASE SpareFull(p)
  BY <1>11 DEF SpareFull, StartMkfree, Goto
<1>12. CASE SparePage(p)
  BY <1>12 DEF SparePage
<1>13. CASE SpareEnd(p)
  BY <1>13 DEF SpareEnd, Goto
<1>14. CASE Exit(p)
  BY <1>14 DEF Exit, Goto
<1>15. CASE Unlocked(p)
  BY <1>15 DEF Unlocked, Goto
<1>16. CASE CloseList1(p)
  BY <1>16 DEF CloseList1, StartMkfree, Goto
<1>17. CASE CloseSpare(p)
  BY <1>17 DEF CloseSpare, StartMkfree, Goto
<1>18. CASE Open(p)
  BY <1>18 DEF Open, Goto
<1>19. ASSUME Jump(p), pc[p] = "idle" PROVE Quiet
  BY <1>19 DEF Jump, Leave, Goto
<1>20. CASE Hangup(p)
  <2>1. Bracketed
    BY <1>20, ConstantAssumption DEF Hangup, Deferred
  <2>2. hangup[p] = 1 => pc[p] = "idle"
    BY <1>20, <2>1 DEF Hangup, PutOff
  <2>3. CASE Jump(p) /\ hangup[p] = 1
    BY <1>19, <2>2, <2>3
  <2>4. CASE UNCHANGED <<disk, lists, control, lost>>
    BY <2>4
  <2> QED BY <1>20, <2>3, <2>4 DEF Hangup
<1>21. ASSUME NEW t \in Table, Begin(p, t) PROVE Quiet
  BY <1>21 DEF Begin, Goto
<1>22. ASSUME NEW h \in {1, 2}, SetHangup(p, h) PROVE Quiet
  BY <1>22, <1>19 DEF SetHangup
<1> HIDE DEF Typed, TypeOK, disk, locks, lists, control, signals, ghosts, Control,
            Quiet, Ctl, Cutting, Settled, Freeing, Visiting, Updating, Changing,
            Held, Replaced
<1> QED
  BY <1>1, <1>2, <1>3, <1>4, <1>5, <1>6, <1>7, <1>8, <1>9, <1>10, <1>11, <1>12, <1>13, <1>14, <1>15, <1>16, <1>17, <1>18, <1>20, <1>21, <1>22 DEF QuietAction

LEMMA TakeStep ==
    ASSUME Typed, Control, NEW p \in Proc, GetspareWrite(p)
    PROVE  \E S \in SUBSET (ExistingPages \ bitmap) :
              /\ bitmap' = bitmap \cup S /\ UNCHANGED <<tree, lost>>
              /\ Holds(p, Held(p) \cup S)
              /\ spare' = [spare EXCEPT ![p] = @ \cup S]
<1> DEFINE found == Lowest(Clear(p), Wanted(p))
           after == (buf[p] \cup found)
                       \ (IF slab[p] = LastSlab THEN Masked ELSE {})
<1>1. buf[p] = bitmap \cap SlabPages(slab[p]) /\ bitmap \cap Masked = {}
  BY DEF Control, Ctl, Buffered, GetspareWrite, Unmasked
<1>2. found \subseteq ExistingPages /\ found \subseteq Clear(p)
  BY FoundType DEF Typed, TypeOK, Lowest
<1>3. /\ found \subseteq SlabPages(slab[p]) /\ found \cap bitmap = {}
      /\ slab[p] = LastSlab => found \cap Masked = {}
  BY <1>1, <1>2 DEF Clear
<1>4. bitmap' = IF found = {} THEN bitmap
               ELSE (bitmap \ SlabPages(slab[p])) \cup after
  BY DEF GetspareWrite
<1>5. spare' = [spare EXCEPT ![p] = @ \cup found]
  BY DEF GetspareWrite
<1> HIDE DEF found
<1>6. bitmap' = bitmap \cup found
  BY <1>1, <1>3, <1>4
<1>7. Holds(p, Held(p) \cup found)
  BY <1>5 DEF Typed, TypeOK, GetspareWrite, Goto, Holds, Held, Replaced, Changing
<1>8. UNCHANGED <<tree, lost>>
  BY DEF GetspareWrite, ghosts
<1> QED BY <1>2, <1>3, <1>5, <1>6, <1>7, <1>8

LEMMA GiveStep ==
    ASSUME Typed, Control, OwnLists, NEW p \in Proc, MkfreeWrite(p)
    PROVE  \E S \in SUBSET Held(p) :
              /\ bitmap' = bitmap \ S /\ UNCHANGED <<tree, lost>>
              /\ Holds(p, Held(p) \ S)
<1> DEFINE here == freeing[p] \cap SlabPages(slab[p])
<1>1. buf[p] = bitmap \cap SlabPages(slab[p])
  BY DEF Control, Ctl, Buffered, MkfreeWrite
<1>2. bitmap' = bitmap \ here
  BY <1>1 DEF MkfreeWrite
<1>3. freeing' = [freeing EXCEPT ![p] = @ \ here]
  BY DEF MkfreeWrite
<1>4. /\ pc[p] = "mkWrite" /\ pc'[p] \notin Changing
      /\ UNCHANGED <<tree, lost, spare, list1, list2, made, pending>>
      /\ \A q \in Proc \ {p} : pc'[q] = pc[q]
  BY DEF Typed, TypeOK, Changing, MkfreeWrite, Goto, lists, ghosts
<1> HIDE DEF here
<1>5. here \subseteq freeing[p]
  BY DEF here
<1>6. Replaced(p)' = list2[p] /\ Replaced(p) = list2[p]
  BY <1>4 DEF Replaced, Changing
<1>7. Held(p)' = Held(p) \ here
  BY <1>3, <1>4, <1>5, <1>6 DEF Typed, TypeOK, OwnLists, Disjoint, Held
<1>8. \A q \in Proc \ {p} : Held(q)' = Held(q)
  BY <1>3, <1>4 DEF Typed, TypeOK, Held, Replaced
<1> QED BY <1>2, <1>4, <1>5, <1>7, <1>8 DEF Holds, Held

(* Publish() and _sparetree() exchange pages of a process for pages of a   *)
(* tree.                                                                   *)
LEMMA ExchangeStep ==
    ASSUME Typed, Control, OwnLists, NEW p \in Proc, NEW t \in Table,
           Sparetree(p, t) \/ (Publish(p) /\ t = cur[p])
    PROVE  \E N \in SUBSET Held(p), O \in SUBSET tree[t] :
              /\ tree' = [tree EXCEPT ![t] = (@ \ O) \cup N]
              /\ Holds(p, (Held(p) \ N) \cup O)
              /\ UNCHANGED <<bitmap, lost>>
<1> USE DEF Typed, TypeOK, Control, Ctl, Cutting, Settled, Visiting, Updating,
            Changing, Held, Replaced, Holds, disk, lists, ghosts
<1>1. CASE Sparetree(p, t)
  <2>1. pending[p] = {}
    BY <1>1 DEF Sparetree
  <2>2. Holds(p, (Held(p) \ {}) \cup tree[t])
    BY <1>1, <2>1 DEF Sparetree, Goto
  <2>3. tree' = [tree EXCEPT ![t] = (@ \ tree[t]) \cup {}]
    BY <1>1 DEF Sparetree
  <2> QED BY <1>1, <2>2, <2>3 DEF Sparetree
<1>2. CASE Publish(p) /\ t = cur[p]
  <2>1. list2[p] = cut[p] /\ cut[p] \subseteq tree[t] /\ made[p] \subseteq Held(p)
    BY <1>2 DEF Publish
  <2>2. Replaced(p) = {} /\ Replaced(p)' = cut[p]
    BY <1>2, <2>1 DEF Publish, Goto
  <2>3. Held(p)' = (Held(p) \ made[p]) \cup cut[p]
    BY <1>2, <2>2 DEF Publish, OwnLists, Disjoint
  <2>4. Holds(p, (Held(p) \ made[p]) \cup cut[p])
    BY <1>2, <2>3 DEF Publish, Goto
  <2>5. tree' = [tree EXCEPT ![t] = (@ \ cut[p]) \cup made[p]]
    BY <1>2 DEF Publish
  <2> QED BY ZenonT(40), <1>2, <2>1, <2>4, <2>5 DEF Publish
<1> QED BY <1>1, <1>2

LEMMA LoseStep ==
    ASSUME Typed, NEW p \in Proc, Forget(p, Held(p))
    PROVE  /\ lost' = lost \cup Held(p) /\ Holds(p, {})
           /\ UNCHANGED <<bitmap, tree>>
BY DEF Typed, TypeOK, Forget, Leave, Goto, Holds, Held, Replaced, Changing, disk

(* A program that ends has given all its pages back. *)
LEMMA CloseStep ==
    ASSUME Typed, Control, NEW p \in Proc, Close(p), ~Private
    PROVE  Quiet
<1>1. pc[p] = "closing" /\ spare[p] = {} /\ list1[p] = {} /\ Forget(p, {})
  BY DEF Close
<1>2. /\ list2[p] = {} /\ made[p] = {} /\ freeing[p] = {} /\ pending[p] = {}
  BY <1>1 DEF Control, Ctl, Cutting, Settled, Freeing, Visiting, Updating, Changing
<1> QED
  BY <1>1, <1>2 DEF Typed, TypeOK, Forget, Leave, Goto, Quiet, Held, Replaced,
                    Changing, disk

-----------------------------------------------------------------------------
(* The refinement. *)

(* What one step of a process does, as the lemmas above say it. *)
Moves(p) ==
    \/ Quiet
    \/ \E S \in SUBSET (ExistingPages \ bitmap) :
          bitmap' = bitmap \cup S /\ UNCHANGED <<tree, lost>>
            /\ Holds(p, Held(p) \cup S)
    \/ \E S \in SUBSET Held(p) :
          bitmap' = bitmap \ S /\ UNCHANGED <<tree, lost>> /\ Holds(p, Held(p) \ S)
    \/ \E t \in Table : \E N \in SUBSET Held(p), O \in SUBSET tree[t] :
          /\ tree' = [tree EXCEPT ![t] = (@ \ O) \cup N]
          /\ Holds(p, (Held(p) \ N) \cup O)
          /\ UNCHANGED <<bitmap, lost>>
    \/ /\ lost' = lost \cup Held(p) /\ Holds(p, {})
       /\ UNCHANGED <<bitmap, tree>>

LEMMA NextMoves ==
    ASSUME Inv, Deferred, [Next]_vars
    PROVE  \/ UNCHANGED vars
           \/ \E p \in Proc : Moves(p)
<1> USE DEF Inv
<1> SUFFICES ASSUME NEW p \in Proc,
                    \/ Allocate(p) \/ Release(p) \/ Update(p) \/ Spare(p) \/ Shut(p)
                    \/ OutOfSpace(p) \/ Kill(p) \/ Hangup(p) \/ Exit(p) \/ Open(p)
                    \/ \E t \in Table : Begin(p, t) \/ Sparetree(p, t)
                    \/ \E h \in {1, 2} : SetHangup(p, h)
             PROVE  Moves(p)
  BY DEF Next
<1>1. CASE QuietAction(p)
  BY <1>1, QuietStep DEF Moves
<1>2. CASE GetspareWrite(p)
  <2>1. PICK S \in SUBSET (ExistingPages \ bitmap) :
           /\ bitmap' = bitmap \cup S /\ UNCHANGED <<tree, lost>>
           /\ Holds(p, Held(p) \cup S)
    BY <1>2, TakeStep
  <2> QED BY <2>1 DEF Moves
<1>3. CASE MkfreeWrite(p)
  BY <1>3, GiveStep DEF Moves
<1>4. CASE Publish(p)
  <2>1. cur[p] \in Table
    BY <1>4 DEF Typed, Updating, Changing, Publish
  <2>2. \E N \in SUBSET Held(p), O \in SUBSET tree[cur[p]] :
              /\ tree' = [tree EXCEPT ![cur[p]] = (@ \ O) \cup N]
              /\ Holds(p, (Held(p) \ N) \cup O)
              /\ UNCHANGED <<bitmap, lost>>
    BY <1>4, <2>1, ExchangeStep
  <2> QED BY <2>1, <2>2 DEF Moves
<1>5. ASSUME NEW t \in Table, Sparetree(p, t) PROVE Moves(p)
  <2>1. \E N \in SUBSET Held(p), O \in SUBSET tree[t] :
              /\ tree' = [tree EXCEPT ![t] = (@ \ O) \cup N]
              /\ Holds(p, (Held(p) \ N) \cup O)
              /\ UNCHANGED <<bitmap, lost>>
    BY <1>5, ExchangeStep
  <2> QED BY <2>1 DEF Moves
<1>6. CASE Forget(p, Held(p))
  BY <1>6, LoseStep DEF Moves
<1>7. CASE Close(p) /\ ~Private
  BY <1>7, CloseStep DEF Moves
<1> QED
  BY <1>1, <1>2, <1>3, <1>4, <1>5, <1>6, <1>7
     DEF QuietAction, Allocate, Release, Update, Spare, Shut, OutOfSpace, Kill, Close

(* Pages, as far as the volume sees them, are existing pages. *)
LEMMA HeldType ==
    ASSUME Typed
    PROVE  /\ \A p \in Proc : Held(p) \in SUBSET ExistingPages
           /\ tree \in [Table -> SUBSET ExistingPages]
           /\ bitmap \subseteq ExistingPages /\ lost \subseteq ExistingPages
BY DEF Typed, TypeOK, Held, Replaced

(* A step of PageSpace is a step of PageVolume or changes nothing there.   *)
LEMMA VolumeStep ==
    ASSUME Inv, Deferred, [Next]_vars
    PROVE  [Volume!Next]_(Volume!vars)
<1> DEFINE H == [p \in Proc |-> Held(p)]
           F == ExistingPages \ bitmap
<1>a. CASE UNCHANGED vars
  BY <1>a DEF vars, disk, locks, lists, control, signals, ghosts, Volume!vars,
              Held, Replaced
<1> SUFFICES ASSUME NEW p \in Proc, Moves(p)
             PROVE  [Volume!Next]_(Volume!vars)
  BY <1>a, NextMoves
<1>b. /\ bitmap \subseteq ExistingPages
      /\ \A q \in Proc : Held(q) \subseteq ExistingPages
      /\ \A q \in Proc : Held(q) \cap F = {}
  BY HeldType DEF Inv, Volume!Partition
<1>c. ASSUME NEW X, Holds(p, X)
      PROVE  H' = [H EXCEPT ![p] = X]
  BY <1>c DEF Holds
<1>d. H[p] = Held(p) /\ H' = [q \in Proc |-> Held(q)']
  OBVIOUS
<1>1. CASE Quiet
  BY <1>1 DEF Quiet, Volume!vars
<1>2. ASSUME NEW S \in SUBSET F, bitmap' = bitmap \cup S, UNCHANGED <<tree, lost>>,
             Holds(p, Held(p) \cup S)
      PROVE  [Volume!Next]_(Volume!vars)
  <2>1. H' = [H EXCEPT ![p] = @ \cup S] /\ F' = F \ S
    BY <1>2, <1>c DEF ExistingPages
  <2>2. CASE S = {}
    <3>1. H' = H
      BY <2>1, <2>2
    <3> QED BY <1>2, <2>1, <2>2, <3>1 DEF Volume!vars
  <2>3. CASE S # {}
    BY <1>2, <2>1, <2>3 DEF Volume!Next, Volume!Take
  <2> QED BY <2>2, <2>3
<1>3. ASSUME NEW S \in SUBSET Held(p), bitmap' = bitmap \ S, UNCHANGED <<tree, lost>>,
             Holds(p, Held(p) \ S)
      PROVE  [Volume!Next]_(Volume!vars)
  <2>1. H' = [H EXCEPT ![p] = @ \ S] /\ F' = F \cup S /\ S \in SUBSET H[p]
    BY <1>3, <1>b, <1>c DEF ExistingPages
  <2>2. CASE S = {}
    <3>1. H' = H
      BY <2>1, <2>2
    <3> QED BY <1>3, <2>1, <2>2, <3>1 DEF Volume!vars
  <2>3. CASE S # {}
    BY <1>3, <2>1, <2>3 DEF Volume!Next, Volume!Give
  <2> QED BY <2>2, <2>3
<1>4. ASSUME NEW t \in Table, NEW N \in SUBSET Held(p), NEW O \in SUBSET tree[t],
             tree' = [tree EXCEPT ![t] = (@ \ O) \cup N],
             Holds(p, (Held(p) \ N) \cup O), UNCHANGED <<bitmap, lost>>
      PROVE  [Volume!Next]_(Volume!vars)
  <2>1. H' = [H EXCEPT ![p] = (@ \ N) \cup O] /\ F' = F /\ N \in SUBSET H[p]
    BY <1>4, <1>c DEF ExistingPages
  <2> QED BY <1>4, <2>1 DEF Volume!Next, Volume!Exchange
<1>5. ASSUME lost' = lost \cup Held(p), Holds(p, {}), UNCHANGED <<bitmap, tree>>
      PROVE  [Volume!Next]_(Volume!vars)
  <2>1. H' = [H EXCEPT ![p] = @ \ H[p]] /\ F' = F /\ lost' = lost \cup H[p]
    BY <1>5, <1>c DEF ExistingPages
  <2> QED BY <1>5, <2>1 DEF Volume!Next, Volume!Lose
<1> QED BY <1>1, <1>2, <1>3, <1>4, <1>5 DEF Moves

-----------------------------------------------------------------------------
(* Each page stays in one place. *)

LEMMA PartitionStep ==
    ASSUME Inv, Deferred, [Next]_vars
    PROVE  Volume!Partition'
<1> USE DEF Inv, Volume!Partition
<1>a. CASE UNCHANGED vars
  BY <1>a DEF vars, disk, locks, lists, control, signals, ghosts, Held, Replaced
<1> SUFFICES ASSUME NEW p \in Proc, Moves(p)
             PROVE  Volume!Partition'
  BY <1>a, NextMoves
<1>b. SystemPages \subseteq ExistingPages
  BY ConstantAssumption DEF ExistingPages
<1>c. ExistingPages' = ExistingPages /\ SystemPages' = SystemPages
  BY DEF ExistingPages
<1> USE HeldType
<1>1. CASE Quiet
  BY <1>1, <1>c DEF Quiet
<1>2. ASSUME NEW S \in SUBSET (ExistingPages \ bitmap), bitmap' = bitmap \cup S,
             UNCHANGED <<tree, lost>>, Holds(p, Held(p) \cup S)
      PROVE  Volume!Partition'
  BY <1>2, <1>b, <1>c DEF Holds
<1>3. ASSUME NEW S \in SUBSET Held(p), bitmap' = bitmap \ S,
             UNCHANGED <<tree, lost>>, Holds(p, Held(p) \ S)
      PROVE  Volume!Partition'
  BY <1>3, <1>b, <1>c DEF Holds
<1>4. ASSUME NEW t \in Table, NEW N \in SUBSET Held(p), NEW O \in SUBSET tree[t],
             tree' = [tree EXCEPT ![t] = (@ \ O) \cup N],
             Holds(p, (Held(p) \ N) \cup O), UNCHANGED <<bitmap, lost>>
      PROVE  Volume!Partition'
  BY <1>4, <1>b, <1>c DEF Holds
<1>5. ASSUME lost' = lost \cup Held(p), Holds(p, {}), UNCHANGED <<bitmap, tree>>
      PROVE  Volume!Partition'
  BY <1>5, <1>b, <1>c DEF Holds
<1> QED BY <1>1, <1>2, <1>3, <1>4, <1>5 DEF Moves

LEMMA OwnListsStep ==
    ASSUME Inv, Deferred, [Next]_vars
    PROVE  OwnLists'
<1> USE DEF Inv, Typed, TypeOK, Control, OwnLists, Disjoint,
            disk, locks, lists, control, signals, ghosts
<1> USE DEF Ctl, Cutting, Settled, Freeing, Visiting, Updating, Changing, Replaced
<1>a. CASE UNCHANGED vars
  BY <1>a DEF vars
<1> SUFFICES ASSUME NEW p \in Proc,
                    \/ Allocate(p) \/ Release(p) \/ Update(p) \/ Spare(p) \/ Shut(p)
                    \/ OutOfSpace(p) \/ Kill(p) \/ Hangup(p) \/ Exit(p) \/ Open(p)
                    \/ \E t \in Table : Begin(p, t) \/ Sparetree(p, t)
                    \/ \E h \in {1, 2} : SetHangup(p, h)
             PROVE  OwnLists'
  BY <1>a DEF Next
<1>b. /\ \A t \in Table : Held(p) \cap tree[t] = {}
      /\ Held(p) \subseteq bitmap
  BY HeldType DEF Volume!Partition
<1>1. CASE Getspare(p)
  BY <1>1 DEF Getspare, Goto
<1>2. CASE GetspareRead(p)
  BY <1>2 DEF GetspareRead, Goto
<1>3. CASE GetspareEnd(p)
  BY <1>3 DEF GetspareEnd, Goto
<1>4. CASE NothingToDo(p)
  BY <1>4 DEF NothingToDo, Leave, Goto
<1>5. CASE Freshnode(p)
  BY <1>5 DEF Freshnode, Goto
<1>6. CASE Repos(p)
  BY <1>6 DEF Repos, Goto
<1>7. CASE Retire(p)
  BY <1>7 DEF Retire, Goto
<1>8. CASE PutchangeFull(p)
  BY <1>8 DEF PutchangeFull, StartMkfree, Goto
<1>9. CASE Putchange(p)
  BY <1>9 DEF Putchange, Leave, Goto
<1>10. CASE MkfreeRead(p)
  BY <1>10 DEF MkfreeRead, Goto
<1>11. CASE SpareFull(p)
  BY <1>11 DEF SpareFull, StartMkfree, Goto
<1>12. CASE SparePage(p)
  BY <1>12 DEF SparePage
<1>13. CASE SpareEnd(p)
  BY <1>13 DEF SpareEnd, Goto
<1>14. CASE Exit(p)
  BY <1>14 DEF Exit, Goto
<1>15. CASE Unlocked(p)
  BY <1>15 DEF Unlocked, Goto
<1>16. CASE CloseList1(p)
  BY <1>16 DEF CloseList1, StartMkfree, Goto
<1>17. CASE CloseSpare(p)
  BY <1>17 DEF CloseSpare, StartMkfree, Goto
<1>18. CASE Open(p)
  BY <1>18 DEF Open, Goto
<1>19. CASE GetspareWrite(p)
  <2>1. PICK S \in SUBSET (ExistingPages \ bitmap) :
           /\ bitmap' = bitmap \cup S /\ UNCHANGED <<tree, lost>>
           /\ Holds(p, Held(p) \cup S)
           /\ spare' = [spare EXCEPT ![p] = @ \cup S]
    BY <1>19, TakeStep
  <2>2. S \cap Held(p) = {}
    BY <1>b
  <2> QED BY <1>19, <2>1, <2>2 DEF GetspareWrite, Goto, Held
<1>20. CASE MkfreeWrite(p)
  BY <1>20 DEF MkfreeWrite, Goto
<1>21. CASE Publish(p)
  <2>1. cut[p] \cap Held(p) = {}
    BY <1>21, <1>b DEF Publish
  <2> QED BY <1>21, <2>1 DEF Publish, Goto, Held
<1>22. ASSUME NEW S, Forget(p, S) PROVE OwnLists'
  BY <1>22 DEF Forget, Leave, Goto
<1>23. ASSUME Jump(p), pc[p] = "idle" PROVE OwnLists'
  BY <1>23 DEF Jump, Leave, Goto
<1>24. CASE Hangup(p)
  <2>1. Bracketed
    BY <1>24, ConstantAssumption DEF Hangup, Deferred
  <2>2. hangup[p] = 1 => pc[p] = "idle"
    BY <1>24, <2>1 DEF Hangup, PutOff
  <2>3. CASE Jump(p) /\ hangup[p] = 1
    BY <1>23, <2>2, <2>3
  <2>4. CASE UNCHANGED <<disk, lists, control, lost>>
    BY <2>4
  <2> QED BY <1>24, <2>3, <2>4 DEF Hangup
<1>25. ASSUME NEW t \in Table, Begin(p, t) PROVE OwnLists'
  BY <1>25 DEF Begin, Goto
<1>26. ASSUME NEW t \in Table, Sparetree(p, t) PROVE OwnLists'
  <2>1. tree[t] \cap Held(p) = {}
    BY <1>b
  <2> QED BY <1>26, <2>1 DEF Sparetree, Goto, Held
<1>27. ASSUME NEW h \in {1, 2}, SetHangup(p, h) PROVE OwnLists'
  BY <1>27, <1>23 DEF SetHangup
<1> HIDE DEF Typed, TypeOK, Control, OwnLists, Disjoint, disk, locks, lists, control, signals, ghosts,
            Ctl, Cutting, Settled, Freeing, Visiting, Updating, Changing,
            Replaced, Inv
<1> QED
  BY <1>1, <1>2, <1>3, <1>4, <1>5, <1>6, <1>7, <1>8, <1>9, <1>10, <1>11, <1>12, <1>13, <1>14, <1>15, <1>16, <1>17, <1>18, <1>19, <1>20, <1>21, <1>22, <1>24, <1>25, <1>26, <1>27
     DEF Allocate, Release, Update, Spare, Shut, OutOfSpace, Kill, Close

LEMMA InvInit == Init => Inv
<1> SUFFICES ASSUME Init PROVE Inv
  OBVIOUS
<1>1. OwnLists
  BY DEF Init, OwnLists, Disjoint, Replaced
<1>2. \A p \in Proc : Held(p) = FirstSpare
  BY DEF Init, Held, Replaced
<1>3. Volume!Partition
  <2>1. /\ tree = FirstTree /\ lost = {} /\ ExistingPages = 0 .. MaxPage - 1
        /\ bitmap = SystemPages \cup FirstSpare \cup UNION {FirstTree[t] : t \in Table}
    BY DEF Init, ExistingPages
  <2>2. \A t \in Table : tree[t] \subseteq bitmap
    BY <2>1
  <2>3. \A n \in bitmap :
           \/ n \in SystemPages \cup FirstSpare
           \/ \E t \in Table : n \in tree[t]
    BY <2>1
  <2>4. \A p, q \in Proc : p # q => Held(p) \cap Held(q) = {}
    BY <1>2, ConstantAssumption
  <2>5. \A t \in Table, p \in Proc : Held(p) \cap tree[t] = {}
    BY <1>2, <2>1, ConstantAssumption
  <2>6. /\ \A p \in Proc : Held(p) \cap SystemPages = {} /\ Held(p) \subseteq bitmap
        /\ \A t \in Table : tree[t] \cap SystemPages = {}
        /\ \A t, u \in Table : t # u => tree[t] \cap tree[u] = {}
    BY <1>2, <2>1, ConstantAssumption
  <2>7. \A n \in FirstSpare : \E p \in Proc : n \in Held(p)
    BY <1>2, ConstantAssumption
  <2> DEFINE free == ExistingPages \ bitmap
             held == [p \in Proc |-> Held(p)]
  <2>8. \A p \in Proc : held[p] = Held(p) /\ held[p] \cap (free \cup lost \cup SystemPages) = {}
    BY <2>1, <2>6
  <2>9. \A t \in Table : tree[t] \cap (free \cup lost \cup SystemPages) = {}
    BY <2>1, <2>2, <2>6
  <2>10. free \cap (lost \cup SystemPages) = {} /\ lost \cap SystemPages = {}
    BY <2>1
  <2> HIDE DEF free, held
  <2>11. \A n \in ExistingPages :
            \/ n \in free \cup lost \cup SystemPages
            \/ \E p \in Proc : n \in held[p]
            \/ \E t \in Table : n \in tree[t]
    <3> SUFFICES ASSUME NEW n \in ExistingPages, n \notin free, n \notin SystemPages,
                        \A t \in Table : n \notin tree[t]
                 PROVE  \E p \in Proc : n \in held[p]
      OBVIOUS
    <3>1. n \in FirstSpare
      BY <2>3 DEF free
    <3>2. PICK p \in Proc : n \in Held(p)
      BY <2>7, <3>1
    <3> QED BY <2>8, <3>2
  <2>12. /\ \A p, q \in Proc : p # q => held[p] \cap held[q] = {}
         /\ \A p \in Proc, t \in Table : held[p] \cap tree[t] = {}
    BY <2>4, <2>5, <2>8
  <2> QED BY <2>6, <2>8, <2>9, <2>10, <2>11, <2>12 DEF Volume!Partition, free, held
<1> QED BY <1>1, <1>3, TypeInit, ControlInit DEF Inv

LEMMA InvStep ==
    ASSUME Inv, Deferred, [Next]_vars
    PROVE  Inv'
BY TypeStep, ControlStep, UnmaskedStep, OwnListsStep, PartitionStep DEF Inv, Control

(* Inv is stronger than the three properties of PageSpace. *)
LEMMA InvImplies == Inv => Exclusive /\ Marked /\ Conserved
<1> SUFFICES ASSUME Inv PROVE Exclusive /\ Marked /\ Conserved
  OBVIOUS
<1> USE HeldType DEF Inv, Volume!Partition
<1>0. SystemPages \subseteq ExistingPages
  BY ConstantAssumption DEF ExistingPages
<1>1. Exclusive
  BY DEF Exclusive, OwnProcess, OwnTree, OwnSystem, Disjoint
<1>2. Marked
  BY <1>0 DEF Marked
<1>3. Conserved
  BY DEF Conserved
<1> QED BY <1>1, <1>2, <1>3

-----------------------------------------------------------------------------
LEMMA Invariance == Deferred => (Spec => []Inv)
<1>1. Init => Inv
  BY InvInit
<1>2. ASSUME Deferred, Inv, [Next]_vars PROVE Inv'
  BY <1>2, InvStep
<1>3. Deferred => Deferred'
  BY DEF Deferred
<1> QED BY <1>1, <1>2, <1>3, PTL DEF Spec

(* No page has two owners: getspare(), _mkfree(), putchange() and the      *)
(* publishing write never hand a page to two nodes.                        *)
THEOREM ExclusiveCorrect == Deferred => (Spec => []Exclusive)
BY Invariance, InvImplies, PTL

(* The bit of a page in use is set, whatever getspare() and _mkfree() of   *)
(* other processes write meanwhile.                                        *)
THEOREM MarkedCorrect == Deferred => (Spec => []Marked)
BY Invariance, InvImplies, PTL

(* A bit that is set has an owner, unless a process died with the page.    *)
THEOREM ConservedCorrect == Deferred => (Spec => []Conserved)
BY Invariance, InvImplies, PTL

(* The bitmap, the locks and the page lists implement the abstract volume. *)
THEOREM Refinement == Deferred => (Spec => VolumeSpec)
<1>1. Init => Volume!Init
  <2> SUFFICES ASSUME Init PROVE Volume!Init
    OBVIOUS
  <2>1. \A p \in Proc : Held(p) = FirstSpare
    BY DEF Init, Held, Replaced
  <2> QED BY <2>1 DEF Init, Volume!Init
<1>2. ASSUME Deferred, Inv, [Next]_vars PROVE [Volume!Next]_(Volume!vars)
  BY <1>2, VolumeStep
<1>3. Deferred => Deferred'
  BY DEF Deferred
<1> QED BY <1>1, <1>2, <1>3, Invariance, PTL DEF Spec, VolumeSpec, Volume!Spec

(* What _mkfree() is given to free is in no tree, as dbclos.c says: it     *)
(* takes a signal in mid-update to break it.                               *)
THEOREM FreesCorrect == Deferred => (Spec => []FreesOnlyUnused)
<1>1. Exclusive => FreesOnlyUnused
  BY DEF Exclusive, OwnTree, FreesOnlyUnused, Disjoint, Held
<1> QED BY <1>1, ExclusiveCorrect, PTL

(* No step of any process frees a page of a tree as it is before the step. *)
THEOREM NeverFreedCorrect == Deferred => (Spec => NeverFreedAtOnce)
<1>1. ASSUME Deferred, Inv, [Next]_vars
      PROVE  [\A t \in Table : tree[t] \subseteq bitmap']_vars
  <2>1. CASE UNCHANGED vars
    BY <2>1
  <2>2. ASSUME NEW p \in Proc, Moves(p)
        PROVE  \A t \in Table : tree[t] \subseteq bitmap'
    <3>1. \A t \in Table : tree[t] \subseteq bitmap /\ tree[t] \cap Held(p) = {}
      BY <1>1, HeldType DEF Inv, Volume!Partition
    <3>2. \/ UNCHANGED bitmap
          \/ \E S \in SUBSET (ExistingPages \ bitmap) : bitmap' = bitmap \cup S
          \/ \E S \in SUBSET Held(p) : bitmap' = bitmap \ S
      BY <2>2 DEF Moves, Quiet
    <3> QED BY <3>1, <3>2
  <2> QED BY <1>1, <2>1, <2>2, NextMoves
<1>2. Deferred => Deferred'
  BY DEF Deferred
<1> QED BY <1>1, <1>2, Invariance, PTL DEF Spec, NeverFreedAtOnce

-----------------------------------------------------------------------------
(* The pages findspace() takes. *)

(* A set of natural numbers has a least one. *)
LEMMA Least ==
    ASSUME NEW S \in SUBSET Nat, S # {}
    PROVE  \E n \in S : \A m \in S : n =< m
<1> DEFINE R == OpToRel(<, Nat)
<1>1. IsWellFoundedOn(R, Nat)
  BY NatLessThanWellFounded
<1>2. \A x, y \in Nat : x < y => <<x, y>> \in R
  BY DEF OpToRel
<1> HIDE DEF R
<1>3. PICK n \in S : \A m \in S : ~(<<m, n>> \in R)
  BY <1>1, WFMin
<1>4. ASSUME NEW m \in S PROVE n =< m
  <2>1. n \in Nat /\ m \in Nat /\ ~(m < n)
    BY <1>2, <1>3
  <2> QED BY <2>1
<1> QED BY <1>4

(* findspace() takes k pages at most ... *)
LEMMA LowestCount ==
    ASSUME NEW S \in SUBSET Nat, IsFiniteSet(S), NEW k \in Nat
    PROVE  Cardinality(Lowest(S, k)) =< k
<1> DEFINE Under(n) == {m \in S : m < n}
           L == Lowest(S, k)
           f == [n \in L |-> Cardinality(Under(n))]
<1>1. \A n \in S : IsFiniteSet(Under(n)) /\ Cardinality(Under(n)) \in Nat
  BY FS_Subset, FS_CardinalityType
<1>2. f \in [L -> 0 .. k - 1]
  <2>1. ASSUME NEW n \in L PROVE Cardinality(Under(n)) \in 0 .. k - 1
    <3>1. n \in S /\ Cardinality(Under(n)) < k
      BY DEF Lowest
    <3>2. Cardinality(Under(n)) \in Nat
      BY <1>1, <3>1
    <3> HIDE DEF Under
    <3> QED BY <3>1, <3>2
  <2> QED BY <2>1
<1>3. ASSUME NEW a \in L, NEW b \in L, a < b PROVE f[a] # f[b]
  <2>1. a \in Nat /\ b \in Nat /\ a \in S /\ b \in S
    BY DEF Lowest
  <2>2. Under(a) \subseteq Under(b)
    <3>1. ASSUME NEW m \in S, m < a PROVE m < b
      <4>1. m \in Nat
        OBVIOUS
      <4> QED BY <1>3, <2>1, <3>1, <4>1
    <3> QED BY <3>1, Zenon
  <2>3. a \in Under(b) /\ a \notin Under(a)
    BY <1>3, <2>1
  <2>4. Cardinality(Under(b)) # Cardinality(Under(a))
    BY <1>1, <2>1, <2>2, <2>3, FS_Subset, Zenon
  <2> QED BY <2>4
<1>4. \A a, b \in L : f[a] = f[b] => a = b
  <2> SUFFICES ASSUME NEW a \in L, NEW b \in L, f[a] = f[b], a # b PROVE FALSE
    OBVIOUS
  <2>1. a \in Nat /\ b \in Nat
    BY DEF Lowest
  <2>2. a < b \/ b < a
    BY <2>1
  <2> HIDE DEF f, L
  <2> QED BY <1>3, <2>2
<1> HIDE DEF f, L
<1>5. f \in Injection(L, 0 .. k - 1)
  BY <1>2, <1>4 DEF Injection, IsInjective
<1>6. IsFiniteSet(0 .. k - 1) /\ Cardinality(0 .. k - 1) = k
  BY FS_Interval
<1>7. Cardinality(L) =< k
  BY <1>5, <1>6, FS_Injection
<1> QED BY <1>7 DEF L

(* ... and none only where there is none. *)
LEMMA LowestNone ==
    ASSUME NEW S \in SUBSET Nat, NEW k \in Nat \ {0}, Lowest(S, k) = {}
    PROVE  S = {}
<1> SUFFICES ASSUME S # {} PROVE FALSE
  OBVIOUS
<1>1. PICK n \in S : \A m \in S : n =< m
  BY Least
<1>2. {m \in S : m < n} = {}
  <2>1. ASSUME NEW m \in S PROVE ~(m < n)
    <3>1. m \in Nat /\ n \in Nat /\ n =< m
      BY <1>1
    <3> QED BY <3>1
  <2> QED BY <2>1, Zenon
<1>3. Cardinality({m \in S : m < n}) = 0
  BY <1>2, FS_EmptySet
<1> QED BY <1>3 DEF Lowest

(* Every list is finite, and its length a number. *)
LEMMA ListSize ==
    ASSUME NEW S \in SUBSET ExistingPages
    PROVE  IsFiniteSet(S) /\ Cardinality(S) \in Nat
<1>1. IsFiniteSet(ExistingPages)
  BY ConstantAssumption, FS_Interval DEF ExistingPages
<1> QED BY <1>1, FS_Subset, FS_CardinalityType

LEMMA ListUnion ==
    ASSUME NEW S \in SUBSET ExistingPages, NEW T \in SUBSET ExistingPages
    PROVE  Cardinality(S \cup T) =< Cardinality(S) + Cardinality(T)
<1>1. /\ IsFiniteSet(S) /\ Cardinality(S) \in Nat
      /\ IsFiniteSet(T) /\ Cardinality(T) \in Nat
      /\ Cardinality(S \cap T) \in Nat
  BY ListSize
<1>2. Cardinality(S \cup T) = Cardinality(S) + Cardinality(T) - Cardinality(S \cap T)
  BY <1>1, FS_Union
<1> QED BY <1>1, <1>2

LEMMA ListLess ==
    ASSUME NEW S \in SUBSET ExistingPages, NEW n
    PROVE  Cardinality(S \ {n}) \in Nat /\ Cardinality(S \ {n}) =< Cardinality(S)
BY ListSize, FS_Subset

LEMMA ListMore ==
    ASSUME NEW S \in SUBSET ExistingPages, NEW n \in ExistingPages
    PROVE  Cardinality(S \cup {n}) =< Cardinality(S) + 1
BY ListSize, FS_AddElement

-----------------------------------------------------------------------------
(* The length of the lists.  While getspare() searches it has not yet found *)
(* more than it wants.                                                     *)

Searching(p) == pc[p] \in {"gsRead", "gsWrite"}

Short(p) ==
    /\ Cardinality(spare[p]) =< SpareCap
    /\ Cardinality(list1[p]) =< List1Cap
    /\ Searching(p) => Cardinality(spare[p]) =< Smaller(NSpare, SpareCap)

Fits == Typed /\ \A p \in Proc : Short(p)

LEMMA FitsInit == Init => Fits
<1> SUFFICES ASSUME Init, NEW p \in Proc PROVE Short(p)
  BY TypeInit DEF Fits
<1>1. Cardinality({}) = 0
  BY FS_EmptySet
<1> QED BY <1>1, ConstantAssumption DEF Init, Short, Searching

(* A step that does not lengthen a list, nor begins a search. *)
LEMMA ShortQuiet ==
    ASSUME Typed, NEW q \in Proc, Short(q),
           \/ spare'[q] = spare[q] \/ spare'[q] = {}
           \/ \E n : spare'[q] = spare[q] \ {n},
           list1'[q] = list1[q] \/ list1'[q] = {},
           Searching(q)' => Searching(q)
    PROVE  Short(q)'
<1>1. /\ spare[q] \in SUBSET ExistingPages /\ list1[q] \in SUBSET ExistingPages
      /\ Cardinality(spare[q]) \in Nat /\ Cardinality(list1[q]) \in Nat
  BY ListSize DEF Typed, TypeOK
<1>2. Cardinality({}) = 0
  BY FS_EmptySet
<1>3. Cardinality(spare'[q]) \in Nat /\ Cardinality(spare'[q]) =< Cardinality(spare[q])
  BY <1>1, <1>2, ListLess
<1>4. Cardinality(list1'[q]) \in Nat /\ Cardinality(list1'[q]) =< Cardinality(list1[q])
  BY <1>1, <1>2
<1>5. SpareCap \in Nat /\ List1Cap \in Nat /\ Smaller(NSpare, SpareCap) \in Nat
  BY ConstantAssumption DEF Smaller
<1> HIDE DEF Searching
<1> QED BY <1>1, <1>3, <1>4, <1>5 DEF Short

LEMMA ShortStep ==
    ASSUME Fits, [Next]_vars, NEW q \in Proc
    PROVE  Short(q)'
<1> USE DEF disk, lists, control
<1>0. Typed /\ Short(q)
  BY DEF Fits
<1>t. /\ pc \in [Proc -> States] /\ spare \in [Proc -> SUBSET ExistingPages]
      /\ list1 \in [Proc -> SUBSET ExistingPages] /\ list2 \in [Proc -> SUBSET ExistingPages]
      /\ ret \in [Proc -> {"putchange", "closing", "sparing"}]
      /\ back \in [Proc -> {"idle", "unlocking"}]
  BY <1>0 DEF Typed, TypeOK
<1>a. CASE UNCHANGED vars
  BY <1>0, <1>a, ShortQuiet DEF vars, Searching
<1> SUFFICES ASSUME NEW p \in Proc,
                    \/ Allocate(p) \/ Release(p) \/ Update(p) \/ Spare(p) \/ Shut(p)
                    \/ OutOfSpace(p) \/ Kill(p) \/ Hangup(p) \/ Exit(p) \/ Open(p)
                    \/ \E t \in Table : Begin(p, t) \/ Sparetree(p, t)
                    \/ \E h \in {1, 2} : SetHangup(p, h)
             PROVE  Short(q)'
  BY <1>a DEF Next
<1>1. CASE Getspare(p)
  <2>1. Cardinality({}) = 0 /\ 0 =< Smaller(NSpare, SpareCap)
    BY FS_EmptySet, ConstantAssumption DEF Smaller
  <2>2. UNCHANGED <<spare, list1>> /\ pc' = [pc EXCEPT ![p] = "gsRead"] /\ spare[p] = {}
    BY <1>1 DEF Getspare, Goto
  <2>3. CASE q = p
    BY <1>0, <2>1, <2>2, <2>3 DEF Short
  <2>4. CASE q # p
    BY <1>0, <1>t, <2>2, <2>4, ShortQuiet DEF Searching
  <2> QED BY <2>3, <2>4
<1>2. CASE GetspareWrite(p)
  <2> DEFINE found == Lowest(Clear(p), Wanted(p))
             small == Smaller(NSpare, SpareCap)
  <2>1. /\ spare' = [spare EXCEPT ![p] = @ \cup found] /\ list1' = list1
        /\ pc[p] = "gsWrite"
        /\ pc' = [pc EXCEPT ![p] = "gsDone"] \/ pc' = [pc EXCEPT ![p] = "gsRead"]
    BY <1>2 DEF GetspareWrite, Goto
  <2>2. CASE q # p
    BY <1>0, <1>t, <2>1, <2>2, ShortQuiet DEF Searching
  <2>3. CASE q = p
    <3>1. spare[p] \in SUBSET ExistingPages /\ Cardinality(spare[p]) \in Nat
      BY <1>t, ListSize
    <3>2. small \in Nat /\ small =< SpareCap /\ SpareCap \in Nat
      BY ConstantAssumption DEF Smaller
    <3>3. Cardinality(spare[p]) =< small
      BY <1>0, <2>1, <2>3 DEF Short, Searching
    <3>4. Wanted(p) \in Nat /\ Wanted(p) = small - Cardinality(spare[p])
      <4> HIDE DEF small
      <4>1. Wanted(p) = small - Cardinality(spare[p])
        BY DEF Wanted, small
      <4> QED BY <3>1, <3>2, <3>3, <4>1
    <3>5. Clear(p) \in SUBSET ExistingPages
      BY FoundExists, <1>0 DEF Typed, TypeOK, Clear
    <3>6. Clear(p) \in SUBSET Nat /\ IsFiniteSet(Clear(p))
      BY <3>5, ListSize, ConstantAssumption DEF ExistingPages
    <3>7. Cardinality(found) =< Wanted(p)
      BY <3>4, <3>6, LowestCount
    <3>8. found \in SUBSET ExistingPages
      BY <3>5 DEF Lowest
    <3> HIDE DEF found, small
    <3>9. Cardinality(spare[p] \cup found) =< small /\ Cardinality(spare[p] \cup found) \in Nat
      <4>1. spare[p] \cup found \in SUBSET ExistingPages
        BY <3>1, <3>8
      <4>2. Cardinality(spare[p] \cup found) \in Nat /\ Cardinality(found) \in Nat
        BY <3>8, <4>1, ListSize
      <4>3. Cardinality(spare[p] \cup found) =< Cardinality(spare[p]) + Cardinality(found)
        BY <3>1, <3>8, ListUnion
      <4> QED BY <3>1, <3>2, <3>4, <3>7, <4>2, <4>3
    <3>10. spare'[p] = spare[p] \cup found /\ list1'[p] = list1[p]
      BY <2>1, <1>t
    <3>11. Cardinality(spare'[p]) =< SpareCap
      BY <3>2, <3>9, <3>10
    <3> QED BY <1>0, <2>3, <3>9, <3>10, <3>11 DEF Short, small
  <2> QED BY <2>2, <2>3
<1>3. CASE Putchange(p)
  <2>1. /\ spare' = spare /\ list1' = [list1 EXCEPT ![p] = @ \cup list2[p]]
        /\ pc' = [pc EXCEPT ![p] = back[p]]
        /\ Cardinality(list1[p]) + Cardinality(list2[p]) =< List1Cap
    BY <1>3 DEF Putchange, Leave, Goto
  <2>2. CASE q # p
    BY <1>0, <1>t, <2>1, <2>2, ShortQuiet DEF Searching
  <2>3. CASE q = p
    <3>1. list1[p] \in SUBSET ExistingPages /\ list2[p] \in SUBSET ExistingPages
      BY <1>t
    <3>2. /\ Cardinality(list1[p] \cup list2[p]) =< Cardinality(list1[p]) + Cardinality(list2[p])
          /\ Cardinality(list1[p]) \in Nat /\ Cardinality(list2[p]) \in Nat
          /\ Cardinality(list1[p] \cup list2[p]) \in Nat
      BY <3>1, ListUnion, ListSize
    <3>3. Cardinality(list1[p] \cup list2[p]) =< List1Cap
      BY <3>2, <2>1, ConstantAssumption
    <3>4. list1'[p] = list1[p] \cup list2[p] /\ ~Searching(p)'
      BY <1>t, <2>1 DEF Searching
    <3> QED BY <1>0, <2>1, <2>3, <3>3, <3>4 DEF Short
  <2> QED BY <2>2, <2>3
<1>4. CASE SparePage(p)
  <2>1. PICK n \in pending[p] : spare' = [spare EXCEPT ![p] = @ \cup {n}]
    BY <1>4 DEF SparePage
  <2>2. /\ list1' = list1 /\ pc' = pc /\ pc[p] = "sparing" /\ Cardinality(spare[p]) < SpareCap
        /\ n \in ExistingPages
    BY <1>0, <1>4 DEF SparePage, Typed, TypeOK
  <2>3. CASE q # p
    BY <1>0, <1>t, <2>1, <2>2, <2>3, ShortQuiet DEF Searching
  <2>4. CASE q = p
    <3>1. /\ spare[p] \in SUBSET ExistingPages /\ Cardinality(spare[p]) \in Nat
          /\ Cardinality(spare[p] \cup {n}) =< Cardinality(spare[p]) + 1
          /\ Cardinality(spare[p] \cup {n}) \in Nat
      BY <1>t, <2>2, ListSize, ListMore
    <3>2. Cardinality(spare[p] \cup {n}) =< SpareCap
      BY <2>2, <3>1, ConstantAssumption
    <3>3. spare'[p] = spare[p] \cup {n} /\ ~Searching(p)'
      BY <1>t, <2>1, <2>2 DEF Searching
    <3> QED BY <1>0, <2>2, <2>4, <3>2, <3>3 DEF Short
  <2> QED BY <2>3, <2>4
<1>5. CASE Freshnode(p) \/ Repos(p)
  <2>1. /\ \E n : spare' = [spare EXCEPT ![p] = @ \ {n}]
        /\ list1' = list1 /\ pc' = [pc EXCEPT ![p] = "update"]
    BY <1>5 DEF Freshnode, Repos, Goto
  <2> QED BY <1>0, <1>t, <2>1, ShortQuiet DEF Searching
<1>6. CASE GetspareRead(p)
  <2>1. UNCHANGED <<spare, list1>> /\ pc[p] = "gsRead" /\ pc' = [pc EXCEPT ![p] = "gsWrite"]
    BY <1>6 DEF GetspareRead, Goto
  <2> QED BY <1>0, <1>t, <2>1, ShortQuiet DEF Searching
<1>7. ASSUME NEW l \in States \ {"gsRead", "gsWrite"}, pc' = [pc EXCEPT ![p] = l],
             spare' = spare \/ spare' = [spare EXCEPT ![p] = {}],
             list1' = list1 \/ list1' = [list1 EXCEPT ![p] = {}]
      PROVE  Short(q)'
  BY <1>0, <1>t, <1>7, ShortQuiet DEF Searching
<1>8. CASE UNCHANGED <<spare, list1, pc>>
  BY <1>0, <1>8, ShortQuiet DEF Searching
<1>9. CASE GetspareEnd(p) \/ NothingToDo(p) \/ Publish(p) \/ SpareEnd(p)
  BY <1>7, <1>9, <1>t DEF GetspareEnd, NothingToDo, Publish, SpareEnd, Leave, Goto, States, Bitmapping, Changing
<1>10. CASE PutchangeFull(p) \/ SpareFull(p) \/ CloseList1(p) \/ CloseSpare(p)
  BY <1>7, <1>10 DEF PutchangeFull, SpareFull, CloseList1, CloseSpare, StartMkfree, Goto, States, Bitmapping
<1>11. CASE OutOfSpace(p) \/ Kill(p) \/ Close(p)
  BY <1>7, <1>11 DEF OutOfSpace, Kill, Close, Forget, Leave, Goto, States
<1>12. CASE Exit(p) \/ Open(p) \/ Unlocked(p)
  BY <1>7, <1>12 DEF Exit, Open, Unlocked, Goto, States
<1>13. CASE Retire(p)
  BY <1>8, <1>13 DEF Retire
<1>14. CASE MkfreeRead(p)
  BY <1>7, <1>14 DEF MkfreeRead, Goto, States, Bitmapping
<1>15. CASE MkfreeWrite(p)
  <2>1. \E l \in {"putchange", "closing", "sparing", "mkRead"} : pc' = [pc EXCEPT ![p] = l]
    BY <1>15, <1>t DEF MkfreeWrite, Goto
  <2>2. UNCHANGED <<spare, list1>>
    BY <1>15 DEF MkfreeWrite
  <2> QED BY <1>7, <2>1, <2>2 DEF States, Bitmapping
<1>16. CASE Jump(p)
  BY <1>7, <1>16 DEF Jump, Leave, Goto, States
<1>17. CASE Hangup(p)
  BY <1>8, <1>16, <1>17 DEF Hangup
<1>18. ASSUME NEW t \in Table, Begin(p, t) \/ Sparetree(p, t) PROVE Short(q)'
  BY <1>7, <1>18 DEF Begin, Sparetree, Goto, States, Changing
<1>19. ASSUME NEW h \in {1, 2}, SetHangup(p, h) PROVE Short(q)'
  BY <1>8, <1>16, <1>19 DEF SetHangup
<1> QED
  BY <1>1, <1>2, <1>3, <1>4, <1>5, <1>6, <1>9, <1>10, <1>11, <1>12, <1>13, <1>14, <1>15, <1>17, <1>18, <1>19
     DEF Allocate, Release, Update, Spare, Shut

(* No process writes more page numbers into SpareList or PageList1 than the *)
(* arrays of DBinfo have room for, whatever interrupts it (structures.h).   *)
THEOREM ListsCorrect == Spec => []ListsFit
<1>1. Init => Fits
  BY FitsInit
<1>2. Fits /\ [Next]_vars => Fits'
  BY TypeStep, ShortStep DEF Fits
<1>3. Fits => ListsFit
  BY DEF Fits, Short, ListsFit
<1> QED BY <1>1, <1>2, <1>3, PTL DEF Spec

-----------------------------------------------------------------------------
(* Error 42.  The lock of the bitmap is held during a search, so that what  *)
(* the search has seen is still so when it is over.                         *)

Owner(p) == pc[p] \in Bitmapping => mapLock = p

InBuffer(p) == pc[p] = "gsWrite" => buf[p] = bitmap \cap SlabPages(slab[p])

(* As long as nothing was found, all pages of the slabs passed are taken.   *)
Passed(p) ==
    spare[p] = {} =>
        /\ Searching(p) => \A n \in ExistingPages : Slab(n) < slab[p] => n \in bitmap
        /\ pc[p] = "gsDone" => ExistingPages \subseteq bitmap

Search == Typed /\ \A p \in Proc : Owner(p) /\ InBuffer(p) /\ Passed(p)

LEMMA SearchInit == Init => Search
BY TypeInit DEF Init, Search, Owner, InBuffer, Passed, Searching, Bitmapping

(* A step of p leaves the other processes alone, and only two actions write *)
(* the bitmap.                                                             *)
Step(p) ==
    \/ Allocate(p) \/ Release(p) \/ Update(p) \/ Spare(p) \/ Shut(p)
    \/ OutOfSpace(p) \/ Kill(p) \/ Hangup(p) \/ Exit(p) \/ Open(p)
    \/ \E t \in Table : Begin(p, t) \/ Sparetree(p, t)
    \/ \E h \in {1, 2} : SetHangup(p, h)

LEMMA Frame ==
    ASSUME Typed, NEW p \in Proc, Step(p), NEW q \in Proc, q # p
    PROVE  /\ pc'[q] = pc[q] /\ spare'[q] = spare[q]
           /\ slab'[q] = slab[q] /\ buf'[q] = buf[q]
           /\ bitmap' = bitmap \/ GetspareWrite(p) \/ MkfreeWrite(p)
<1> USE DEF Typed, TypeOK, disk, locks, lists, control
<1>1. CASE Allocate(p) \/ Release(p)
  BY <1>1 DEF Allocate, Release, Getspare, GetspareRead, GetspareWrite, GetspareEnd,
     MkfreeRead, MkfreeWrite, Goto
<1>2. CASE Update(p)
  BY <1>2 DEF Update, NothingToDo, Freshnode, Repos, Retire, Publish, PutchangeFull,
     Putchange, StartMkfree, Leave, Goto
<1>3. CASE Spare(p) \/ Exit(p) \/ Open(p)
  BY <1>3 DEF Spare, SpareFull, SparePage, SpareEnd, Exit, Open, StartMkfree, Goto
<1>4. CASE Shut(p)
  BY <1>4 DEF Shut, Unlocked, CloseList1, CloseSpare, Close, Forget, StartMkfree, Leave, Goto
<1>5. CASE OutOfSpace(p) \/ Kill(p)
  BY <1>5 DEF OutOfSpace, Kill, Forget, Leave, Goto
<1>6. CASE Hangup(p) \/ \E h \in {1, 2} : SetHangup(p, h)
  BY <1>6 DEF Hangup, SetHangup, Jump, Leave, Goto
<1>7. ASSUME NEW t \in Table, Begin(p, t) \/ Sparetree(p, t)
      PROVE  /\ pc'[q] = pc[q] /\ spare'[q] = spare[q]
             /\ slab'[q] = slab[q] /\ buf'[q] = buf[q] /\ bitmap' = bitmap
  BY <1>7 DEF Begin, Sparetree, Goto
<1> QED BY <1>1, <1>2, <1>3, <1>4, <1>5, <1>6, <1>7 DEF Step

(* Who has the lock of the bitmap. *)
LEMMA OwnerStep ==
    ASSUME Search, NEW p \in Proc, Step(p), NEW q \in Proc
    PROVE  Owner(q)'
<1> USE DEF Search, Typed, TypeOK, Owner, Bitmapping, disk, locks, lists, control
<1>1. CASE Getspare(p)
  BY <1>1, ConstantAssumption DEF Getspare, MapFree, Goto
<1>2. CASE GetspareRead(p) \/ GetspareWrite(p) \/ GetspareEnd(p)
  BY <1>2, ConstantAssumption DEF GetspareRead, GetspareWrite, GetspareEnd, Goto
<1>3. CASE PutchangeFull(p) \/ SpareFull(p) \/ CloseList1(p) \/ CloseSpare(p)
  BY <1>3, ConstantAssumption DEF PutchangeFull, SpareFull, CloseList1, CloseSpare,
     StartMkfree, MapFree, Goto
<1>4. CASE MkfreeRead(p) \/ MkfreeWrite(p)
  BY <1>4, ConstantAssumption DEF MkfreeRead, MkfreeWrite, Goto
<1>5. CASE OutOfSpace(p) \/ Kill(p) \/ Close(p)
  <2>1. CASE OutOfSpace(p)
    BY <2>1, ConstantAssumption DEF OutOfSpace, Forget, Leave, Goto
  <2>2. CASE Kill(p)
    BY <2>2, ConstantAssumption DEF Kill, Forget, Leave, Goto
  <2>3. CASE Close(p)
    BY <2>3, ConstantAssumption DEF Close, Forget, Leave, Goto
  <2> QED BY <1>5, <2>1, <2>2, <2>3
<1>6. ASSUME mapLock' = mapLock, pc' = pc \/ pc'[p] \notin Bitmapping
      PROVE  Owner(q)'
  BY <1>6, Frame
<1>7. CASE NothingToDo(p) \/ Freshnode(p) \/ Repos(p) \/ Retire(p) \/ Publish(p) \/ Putchange(p)
  BY <1>6, <1>7 DEF NothingToDo, Freshnode, Repos, Retire, Publish, Putchange, Leave, Goto
<1>8. CASE SparePage(p) \/ SpareEnd(p) \/ Exit(p) \/ Open(p) \/ Unlocked(p)
  BY <1>6, <1>8 DEF SparePage, SpareEnd, Exit, Open, Unlocked, Goto
<1>9. ASSUME NEW t \in Table, Begin(p, t) \/ Sparetree(p, t) PROVE Owner(q)'
  BY <1>6, <1>9 DEF Begin, Sparetree, Goto
<1>10. CASE Jump(p)
  BY <1>6, <1>10 DEF Jump, Leave, Goto
<1>11. CASE Hangup(p) \/ \E h \in {1, 2} : SetHangup(p, h)
  BY <1>6, <1>10, <1>11 DEF Hangup, SetHangup
<1> HIDE DEF Search, Typed, TypeOK, Owner, Bitmapping, disk, locks, lists, control
<1> QED BY <1>1, <1>2, <1>3, <1>4, <1>5, <1>7, <1>8, <1>9, <1>11
        DEF Step, Allocate, Release, Update, Spare, Shut

(* What is masked does not exist, unless the last byte is full.             *)
LEMMA MaskHidesNone ==
    ASSUME MaxPage % ByteBits # 0
    PROVE  Masked \cap ExistingPages = {}
<1> DEFINE B == ByteBits
           m == MaxPage
           k == BitMapBytes
           x == m \div B
           r == m % B
<1>1. /\ m \in Nat \ {0} /\ B \in Nat \ {0} /\ k \in Nat \ {0} /\ m =< B * k
  BY ConstantAssumption, ByteBounds
<1>2. r \in 0 .. B - 1 /\ m = B * x + r /\ x \in Nat
  BY <1>1, Quotient, SMT
<1> HIDE DEF B, m, k, x, r
<1>3. B * x + B =< B * k
  <2>1. CASE k =< x
    <3>1. B * k =< B * x
      BY <1>1, <1>2, <2>1, SMT
    <3>2. r # 0
      BY DEF r, m, B
    <3>3. B * x \in Int /\ B * k \in Int
      BY <1>1, <1>2, SMT
    <3> QED BY <1>1, <1>2, <3>1, <3>2, <3>3, SMT
  <2>2. CASE x + 1 =< k
    <3>1. B * (x + 1) =< B * k
      BY <1>1, <1>2, <2>2, SMT
    <3>2. B * (x + 1) = B * x + B
      BY <1>1, <1>2, SMT
    <3> QED BY <3>1, <3>2
  <2> QED BY <1>1, <1>2, <2>1, <2>2
<1>4. m =< B * k - (B - r)
  <2>1. B * x \in Int /\ B * k \in Int
    BY <1>1, <1>2, SMT
  <2> QED BY <1>1, <1>2, <1>3, <2>1, SMT
<1>5. ASSUME NEW n \in Masked PROVE n \notin ExistingPages
  <2>1. B * k - (B - r) =< n /\ n \in Int
    BY DEF Masked, BitPages, B, k, r, m
  <2>2. B * k \in Int
    BY <1>1, SMT
  <2>3. m =< n
    BY <1>1, <1>2, <1>4, <2>1, <2>2, SMT
  <2> QED BY <2>1, <2>3, <1>1, SMT DEF ExistingPages, m
<1> QED BY <1>5

(* The search goes on where nothing was found.                              *)
LEMMA WritePasses ==
    ASSUME Search, MaxPage % ByteBits # 0, NEW p \in Proc, GetspareWrite(p)
    PROVE  Passed(p)'
<1> DEFINE found == Lowest(Clear(p), Wanted(p))
<1> SUFFICES ASSUME spare'[p] = {} PROVE Passed(p)'
  BY DEF Passed
<1>1. /\ spare \in [Proc -> SUBSET ExistingPages] /\ slab \in [Proc -> Nat]
      /\ pc \in [Proc -> States] /\ slab[p] \in Nat /\ pc[p] = "gsWrite"
  BY DEF Search, Typed, TypeOK, GetspareWrite
<1>2. spare[p] = {} /\ found = {} /\ bitmap' = bitmap
  BY <1>1 DEF GetspareWrite
<1>3. Wanted(p) \in Nat \ {0}
  <2>1. Cardinality(spare[p]) = 0
    BY <1>2, FS_EmptySet
  <2> QED BY <2>1, ConstantAssumption DEF Wanted, Smaller
<1>4. Clear(p) = {}
  <2>1. Clear(p) \in SUBSET Nat
    BY <1>1, FoundExists, ConstantAssumption DEF Clear, ExistingPages
  <2> QED BY <2>1, <1>2, <1>3, LowestNone
<1>5. Cardinality(found) # Wanted(p)
  BY <1>2, <1>3, FS_EmptySet
<1>6. ASSUME NEW n \in ExistingPages, Slab(n) =< slab[p] PROVE n \in bitmap
  <2>1. n \in SlabPages(Slab(n)) /\ Slab(n) \in Nat /\ n \notin Masked
    BY ExistingPageBit, LastSlabBounds, MaskHidesNone
  <2>2. CASE Slab(n) = slab[p]
    BY <1>1, <1>4, <2>1, <2>2 DEF Clear, Search, InBuffer
  <2>3. CASE Slab(n) < slab[p]
    BY <1>1, <1>2, <2>3 DEF Search, Passed, Searching
  <2> QED BY <1>1, <1>6, <2>1, <2>2, <2>3
<1>7. CASE slab[p] = LastSlab
  <2>1. pc'[p] = "gsDone"
    BY <1>1, <1>7 DEF GetspareWrite, Goto
  <2>2. ASSUME NEW n \in ExistingPages PROVE n \in bitmap
    BY <1>6, <1>7, ExistingPageBit, LastSlabBounds
  <2> QED BY <1>2, <2>1, <2>2 DEF Passed, Searching
<1>8. CASE slab[p] # LastSlab
  <2>1. pc'[p] = "gsRead" /\ slab'[p] = slab[p] + 1
    BY <1>1, <1>5, <1>8 DEF GetspareWrite, Goto
  <2>2. ASSUME NEW n \in ExistingPages, Slab(n) < slab[p] + 1 PROVE n \in bitmap
    <3>1. Slab(n) \in Nat
      BY ExistingPageBit, LastSlabBounds
    <3> QED BY <1>1, <1>6, <2>2, <3>1
  <2> QED BY <1>2, <2>1, <2>2 DEF Passed, Searching
<1> QED BY <1>7, <1>8

LEMMA SearchStep ==
    ASSUME Search, MaxPage % ByteBits # 0, [Next]_vars
    PROVE  Search'
<1> USE DEF disk, lists, control
<1>1. Typed'
  BY TypeStep DEF Search
<1>2. CASE UNCHANGED vars
  BY <1>1, <1>2 DEF vars, locks, Search, Owner, InBuffer, Passed, Searching
<1>3. ASSUME NEW p \in Proc, Step(p), NEW q \in Proc PROVE InBuffer(q)' /\ Passed(q)'
  <2>0. Typed /\ Owner(p) /\ Owner(q) /\ InBuffer(q) /\ Passed(q)
    BY DEF Search
  <2>1. CASE q # p
    <3>1. CASE bitmap' = bitmap
      BY <1>3, <2>0, <2>1, <3>1, Frame DEF InBuffer, Passed, Searching
    <3>2. CASE bitmap' # bitmap
      <4>1. pc[p] \in Bitmapping
        BY <1>3, <2>0, <2>1, <3>2, Frame DEF GetspareWrite, MkfreeWrite, Bitmapping
      <4>2. pc[q] \notin Bitmapping /\ pc'[q] = pc[q]
        BY <1>3, <2>0, <2>1, <4>1, Frame DEF Owner
      <4> QED BY <4>2 DEF Bitmapping, InBuffer, Passed, Searching
    <3> QED BY <3>1, <3>2
  <2>2. ASSUME q = p, pc'[p] \notin {"gsRead", "gsWrite", "gsDone"} PROVE InBuffer(q)' /\ Passed(q)'
    BY <2>2 DEF InBuffer, Passed, Searching
  <2>3. CASE q = p /\ Allocate(p)
    <3> USE DEF Typed, TypeOK
    <3>1. CASE Getspare(p)
      <4>1. pc'[p] = "gsRead" /\ slab'[p] = 0
        BY <2>0, <3>1 DEF Getspare, Goto
      <4>2. \A n \in ExistingPages : ~(Slab(n) < 0)
        BY ExistingPageBit, LastSlabBounds
      <4> QED BY <2>3, <4>1, <4>2 DEF InBuffer, Passed, Searching
    <3>2. CASE GetspareRead(p)
      BY <2>0, <2>3, <3>2 DEF GetspareRead, Goto, InBuffer, Passed, Searching
    <3>3. CASE GetspareWrite(p)
      <4>1. pc'[p] # "gsWrite"
        BY <2>0, <3>3 DEF GetspareWrite, Goto
      <4> HIDE DEF Typed, TypeOK
      <4> QED BY <2>3, <3>3, <4>1, WritePasses DEF InBuffer
    <3>4. CASE GetspareEnd(p)
      <4>1. pc'[p] = "capture"
        BY <2>0, <3>4 DEF GetspareEnd, Goto
      <4> QED BY <2>2, <2>3, <4>1
    <3> QED BY <2>3, <3>1, <3>2, <3>3, <3>4 DEF Allocate
  <2>4. CASE q = p /\ UNCHANGED <<bitmap, pc, spare, slab, buf>>
    BY <2>0, <2>4 DEF InBuffer, Passed, Searching
  <2>5. CASE q = p /\ (Release(p) \/ Spare(p) \/ Exit(p) \/ Open(p))
    <3> USE DEF Typed, TypeOK
    <3>1. CASE SparePage(p)
      BY <2>0, <2>2, <2>5, <3>1 DEF SparePage
    <3>2. CASE ~SparePage(p)
      BY <2>0, <2>2, <2>5, <3>2 DEF Release, MkfreeRead, MkfreeWrite, Spare, SpareFull, SpareEnd,
         Exit, Open, StartMkfree, Goto
    <3> QED BY <3>1, <3>2
  <2>6. CASE q = p /\ Update(p)
    <3> USE DEF Typed, TypeOK
    <3>1. CASE Retire(p)
      BY <2>0, <2>2, <2>6, <3>1 DEF Retire
    <3>2. CASE ~Retire(p)
      BY <2>0, <2>2, <2>6, <3>2 DEF Update, NothingToDo, Freshnode, Repos, Publish, PutchangeFull,
         Putchange, StartMkfree, Leave, Goto
    <3> QED BY <3>1, <3>2
  <2>7. CASE q = p /\ (Shut(p) \/ OutOfSpace(p) \/ Kill(p))
    BY <2>0, <2>2, <2>7 DEF Shut, Unlocked, CloseList1, CloseSpare, Close, OutOfSpace, Kill, Forget,
       StartMkfree, Leave, Goto, Typed, TypeOK
  <2>8. CASE q = p /\ (Hangup(p) \/ \E h \in {1, 2} : SetHangup(p, h))
    <3>1. CASE Jump(p)
      BY <2>0, <2>2, <2>8, <3>1 DEF Jump, Leave, Goto, Typed, TypeOK
    <3>2. CASE ~Jump(p)
      BY <2>4, <2>8, <3>2 DEF Hangup, SetHangup
    <3> QED BY <3>1, <3>2
  <2>9. ASSUME q = p, NEW t \in Table, Begin(p, t) \/ Sparetree(p, t) PROVE InBuffer(q)' /\ Passed(q)'
    BY <2>0, <2>2, <2>9 DEF Begin, Sparetree, Goto, Typed, TypeOK
  <2> QED BY <1>3, <2>1, <2>3, <2>5, <2>6, <2>7, <2>8, <2>9 DEF Step
<1>4. CASE Next
  <2>1. PICK p \in Proc : Step(p)
    BY <1>4 DEF Next, Step
  <2> QED BY <1>1, <1>3, <2>1, OwnerStep DEF Search
<1> QED BY <1>2, <1>4

(* The volume is reported full (error 42) only when every existing page has *)
(* its bit set, unless the number of pages is a multiple of the bits of a   *)
(* byte: then the mask of captur.c:60 hides the pages of the last byte.     *)
THEOREM FullCorrect == MaxPage % ByteBits # 0 => (Spec => []FullMeansFull)
<1>1. Init => Search
  BY SearchInit
<1>2. ASSUME MaxPage % ByteBits # 0, Search, [Next]_vars PROVE Search'
  BY <1>2, SearchStep
<1>3. MaxPage % ByteBits # 0 => (MaxPage % ByteBits # 0)'
  OBVIOUS
<1>4. Search => FullMeansFull
  BY DEF Search, Passed, FullMeansFull
<1> QED BY <1>1, <1>2, <1>3, <1>4, PTL DEF Spec
=============================================================================
