-------------------------- MODULE RecordLockOwned --------------------------
(***************************************************************************)
(* What TLAPS proves of RecordLock, for any number of programs, tables and *)
(* records, whatever the programs do with them: its types, who has which   *)
(* lock (the inductive invariant), and with that the safety properties of  *)
(* the record locks.                                                       *)
(***************************************************************************)
EXTENDS RecordLock, TLAPS

-----------------------------------------------------------------------------
(* Types.                                                                  *)

Action(p, t) ==
  \/ Get(p, t) \/ Getnext(p, t) \/ Put(p, t) \/ Delete(p, t) \/ Unlock(p, t)
Going(p) ==
  \/ RdrecUnlock(p) \/ Getr(p) \/ RdrecLock(p) \/ RdrecRefused(p) \/ RdrecReread(p)
  \/ RdnxtUnlock(p) \/ GetnxtFinds(p) \/ GetnxtEnds(p) \/ RdnxtLock(p) \/ RdnxtRefused(p)
  \/ RdnxtReread(p) \/ RdnxtMissed(p) \/ RdnxtUlockr(p)
  \/ Clputr(p) \/ Cldelr(p) \/ UlckrecStep(p)
  \/ Leave(p) \/ Ulock(p) \/ Release(p) \/ Kill(p)

(* The steps, without the intermediate disjunctions.                       *)
LEMMA StepCases ==
  ASSUME NEW p \in Process, Step(p)
  PROVE  (\E t \in Table : Action(p, t)) \/ Going(p) \/ UNCHANGED vars
BY DEF Step, Start, Action, Going, Rdrec, Rdnxt, Change, Ending, LgetrSleeps

Flags == [LOCK : BOOLEAN, AVAIL : BOOLEAN, work2 : Area]
Cursors == [node : SUBSET Area, loaded : BOOLEAN, done : BOOLEAN]
Commands == [table : Table, mode : {"none", "lock", "lockr"}, found : BOOLEAN,
             keep : BOOLEAN, work1 : Area]

LEMMA Constants ==
  /\ Blank \in Area /\ Blank.key \in Record /\ Blank.val = Absent
  /\ NoCommand \in Commands
  /\ Unused \in Flags /\ ~Unused.LOCK
  /\ NoSeq \in Cursors /\ NoSeq.node = {}
<1>1. (CHOOSE r \in Record : TRUE) \in Record /\ (CHOOSE t \in Table : TRUE) \in Table
  BY Tables
<1>2. Blank \in Area /\ Blank.key \in Record /\ Blank.val = Absent
  BY <1>1 DEF Blank, Area
<1>3. Unused \in Flags /\ ~Unused.LOCK
  BY <1>2 DEF Unused, Flags
<1>4. NoSeq \in Cursors /\ NoSeq.node = {}
  BY DEF NoSeq, Cursors
<1> QED BY <1>1, <1>2, <1>3, <1>4 DEF NoCommand, Commands

(* TypeOK with names for the types of the records.                         *)
LEMMA TypeNames ==
  TypeOK <=> /\ stored \in [Record -> Value \cup {Absent}]
             /\ locks \in [Lock -> Process \cup {NoProcess}]
             /\ tt \in [Table -> Flags] /\ seq \in [Table -> Cursors]
             /\ pc \in [Process -> Stage] /\ op \in [Process -> Commands]
             /\ left \in [Process -> 0 .. Calls]
BY DEF TypeOK, Flags, Cursors, Commands

LEMMA TypeNamesPrime ==
  TypeOK' <=> /\ stored' \in [Record -> Value \cup {Absent}]
              /\ locks' \in [Lock -> Process \cup {NoProcess}]
              /\ tt' \in [Table -> Flags] /\ seq' \in [Table -> Cursors]
              /\ pc' \in [Process -> Stage] /\ op' \in [Process -> Commands]
              /\ left' \in [Process -> 0 .. Calls]
BY DEF TypeOK, Flags, Cursors, Commands

(* What a command may start with.                                          *)
LEMMA CommandType ==
  ASSUME NEW c \in Commands, NEW t \in Table, NEW m \in {"none", "lock", "lockr"},
         NEW r \in Record, NEW w \in Area, NEW k \in BOOLEAN
  PROVE  /\ [c EXCEPT !.table = t] \in Commands
         /\ [c EXCEPT !.table = t, !.mode = m] \in Commands
         /\ [c EXCEPT !.table = t, !.keep = k, !.work1 = w] \in Commands
         /\ [c EXCEPT !.table = t, !.work1.key = r, !.mode = m] \in Commands
         /\ [c EXCEPT !.table = t, !.work1.key = r] \in Commands
<1>1. [c EXCEPT !.table = t] \in Commands /\ [c EXCEPT !.table = t, !.mode = m] \in Commands
  BY DEF Commands
<1>2. [c EXCEPT !.table = t, !.keep = k, !.work1 = w] \in Commands
  BY DEF Commands
<1>3. [c EXCEPT !.table = t, !.work1.key = r, !.mode = m] \in Commands
  BY DEF Commands, Area
<1>4. [c EXCEPT !.table = t, !.work1.key = r] \in Commands
  BY DEF Commands, Area
<1> QED BY <1>1, <1>2, <1>3, <1>4

LEMMA TypeAction ==
  ASSUME TypeOK, NEW p \in Process, NEW t \in Table, Action(p, t)
  PROVE  TypeOK'
<1> USE TypeNames, TypeNamesPrime
<1>1. ASSUME NEW stage \in Stage, NEW command \in Commands, Command(p, t, stage, command)
      PROVE  /\ pc' \in [Process -> Stage] /\ op' \in [Process -> Commands]
             /\ left' \in [Process -> 0 .. Calls]
  <2>1. left[p] \in 0 .. Calls /\ left[p] > 0 /\ Calls \in Nat
    BY <1>1, Tables DEF Command
  <2>2. left[p] - 1 \in 0 .. Calls
    BY ONLY <2>1, SMT
  <2>3. left' = [left EXCEPT ![p] = left[p] - 1] \/ left' = left
    BY <1>1 DEF Command
  <2> QED BY <1>1, <2>2, <2>3 DEF Command
<1>2. \A r \in RecordsOf[t], v \in Value \cup {Absent} :
        [key |-> r, val |-> v] \in Area
  BY Tables DEF Area
<1>3. \E stage \in Stage, command \in Commands : Command(p, t, stage, command)
  <2>1. CASE Get(p, t)
    <3>1. PICK r \in RecordsOf[t], m \in GetModes :
            Command(p, t, "rdrec", [NoCommand EXCEPT !.table = t, !.work1.key = r, !.mode = m])
      BY <2>1 DEF Get
    <3>2. r \in Record /\ m \in {"none", "lock", "lockr"}
      BY Tables
    <3>3. [NoCommand EXCEPT !.table = t, !.work1.key = r, !.mode = m] \in Commands
      BY <3>2, CommandType, Constants
    <3> QED BY <3>1, <3>3 DEF Stage
  <2>2. CASE Getnext(p, t)
    <3>1. PICK m \in NextModes :
            Command(p, t, "rdnxt", [NoCommand EXCEPT !.table = t, !.mode = m])
      BY <2>2 DEF Getnext
    <3>2. [NoCommand EXCEPT !.table = t, !.mode = m] \in Commands
      BY Tables, <3>1, CommandType, Constants
    <3> QED BY <3>1, <3>2 DEF Stage
  <2>3. CASE Put(p, t)
    <3>1. PICK r \in RecordsOf[t], v \in Value, keep \in BOOLEAN :
            \/ Command(p, t, "clputr", [NoCommand EXCEPT !.table = t, !.keep = keep,
                                                         !.work1 = [key |-> r, val |-> v]])
            \/ Command(p, t, "idle", NoCommand)
            \/ Command(p, t, "ulckrec", [NoCommand EXCEPT !.table = t])
      BY <2>3 DEF Put
    <3>2. [NoCommand EXCEPT !.table = t, !.keep = keep, !.work1 = [key |-> r, val |-> v]] \in Commands
      BY <1>2, CommandType, Constants
    <3> QED BY <3>1, <3>2, Constants, CommandType DEF Stage
  <2>4. CASE Delete(p, t)
    <3>1. PICK r \in RecordsOf[t] :
            Command(p, t, "cldelr", [NoCommand EXCEPT !.table = t, !.work1.key = r])
      BY <2>4 DEF Delete
    <3>2. r \in Record
      BY Tables
    <3>3. [NoCommand EXCEPT !.table = t, !.work1.key = r] \in Commands
      BY <3>2, CommandType, Constants
    <3> QED BY <3>1, <3>3 DEF Stage
  <2>5. CASE Unlock(p, t)
    <3>1. [NoCommand EXCEPT !.table = t] \in Commands
      BY CommandType, Constants
    <3> QED BY <2>5, <3>1 DEF Unlock, Stage
  <2> QED BY <2>1, <2>2, <2>3, <2>4, <2>5 DEF Action
<1>4. /\ stored' = stored /\ locks' = locks /\ tt' = tt
      /\ seq' = seq \/ seq' = [seq EXCEPT ![t] = NoSeq]
  BY DEF Action, Get, Getnext, Put, Delete, Unlock
<1>5. seq' \in [Table -> Cursors]
  BY <1>4, Constants
<1> QED BY <1>1, <1>3, <1>4, <1>5

(* What a command does with its record, and with its entry.                *)
LEMMA RecordTypes ==
  ASSUME NEW c \in Commands, NEW f \in Flags, NEW a \in BOOLEAN, NEW w \in Area,
         NEW v \in Value \cup {Absent}
  PROVE  /\ [c EXCEPT !.found = a, !.work1.val = v] \in Commands
         /\ [c EXCEPT !.work1 = w] \in Commands
         /\ [f EXCEPT !.AVAIL = a] \in Flags
         /\ [f EXCEPT !.AVAIL = a, !.work2 = w] \in Flags
         /\ [f EXCEPT !.LOCK = FALSE, !.work2 = Blank] \in Flags
         /\ LockedCopy(a, w) \in Flags
         /\ [w EXCEPT !.val = v] \in Area
<1>1. [c EXCEPT !.found = a, !.work1.val = v] \in Commands
  BY DEF Commands, Area
<1>2. [c EXCEPT !.work1 = w] \in Commands
  BY DEF Commands
<1>3. [f EXCEPT !.AVAIL = a] \in Flags /\ [f EXCEPT !.AVAIL = a, !.work2 = w] \in Flags
  BY DEF Flags
<1>4. [f EXCEPT !.LOCK = FALSE, !.work2 = Blank] \in Flags
  BY Constants DEF Flags
<1>5. LockedCopy(a, w) \in Flags
  BY DEF LockedCopy, Flags
<1>6. [w EXCEPT !.val = v] \in Area
  BY DEF Area
<1> QED BY <1>1, <1>2, <1>3, <1>4, <1>5, <1>6

LEMMA LockTypes ==
  ASSUME TypeOK, NEW p \in Process, NEW r \in Record, NEW t \in Table
  PROVE  /\ Locked(p, r) \in [Lock -> Process \cup {NoProcess}]
         /\ Unlocked(r) \in [Lock -> Process \cup {NoProcess}]
         /\ Ulckrec(t) => locks' \in [Lock -> Process \cup {NoProcess}]
         /\ WithoutLock(t) \in Flags
<1>1. tt[t] \in Flags /\ tt[t].work2.key \in Record
  BY DEF TypeOK, Flags, Area
<1>2. WithoutLock(t) \in Flags
  BY <1>1, RecordTypes, Constants DEF WithoutLock
<1>3. \A s \in Record : Unlocked(s) \in [Lock -> Process \cup {NoProcess}]
  BY Tables DEF TypeOK, Unlocked
<1>4. Locked(p, r) \in [Lock -> Process \cup {NoProcess}]
  BY Tables DEF TypeOK, Locked
<1> QED BY <1>1, <1>2, <1>3, <1>4 DEF Ulckrec, TypeOK

(* What TypeOK says of one program.                                        *)
LEMMA TypeOfProcess ==
  ASSUME TypeOK, NEW p \in Process
  PROVE  /\ op[p] \in Commands /\ op[p].table \in Table /\ op[p].work1 \in Area
         /\ op[p].work1.key \in Record /\ op[p].found \in BOOLEAN
         /\ tt[op[p].table] \in Flags /\ seq[op[p].table] \in Cursors
         /\ stored[op[p].work1.key] \in Value \cup {Absent}
<1>1. op[p] \in Commands
  BY TypeNames
<1>2. op[p].table \in Table /\ op[p].work1 \in Area /\ op[p].found \in BOOLEAN
  BY <1>1 DEF Commands
<1>3. op[p].work1.key \in Record
  BY <1>2 DEF Area
<1> QED BY <1>1, <1>2, <1>3, TypeNames

(* What steps do to pc and op, and to the entry of the command's table.    *)
LEMMA TypeUpdates ==
  ASSUME TypeOK, NEW p \in Process, NEW stage \in Stage, NEW command \in Commands,
         NEW t \in Table, NEW f \in Flags, NEW c \in Cursors
  PROVE  /\ GoTo(p, stage) => pc' \in [Process -> Stage]
         /\ Continue(p, stage) => pc' \in [Process -> Stage] /\ op' \in [Process -> Commands]
         /\ Return(p) => pc' \in [Process -> Stage] /\ op' \in [Process -> Commands]
         /\ [op EXCEPT ![p] = command] \in [Process -> Commands]
         /\ [tt EXCEPT ![t] = f] \in [Table -> Flags]
         /\ [seq EXCEPT ![t] = c] \in [Table -> Cursors]
BY TypeNames, Constants DEF GoTo, Continue, Return, Stage

LEMMA LeafType ==
  ASSUME TypeOK, NEW t \in Table
  PROVE  Ahead(t) \subseteq Area
<1>1. RecordsOf[t] \subseteq Record
  BY Tables
<1>2. \A r \in RecordsOf[t] : [key |-> r, val |-> stored[r]] \in Area
  BY <1>1 DEF TypeOK, Area
<1>3. Leaf(t) \subseteq Area
  BY <1>2 DEF Leaf
<1>4. seq[t].node \subseteq Area
  BY DEF TypeOK
<1> QED BY <1>3, <1>4 DEF Ahead

LEMMA TypeGoing ==
  ASSUME TypeOK, NEW p \in Process, Going(p)
  PROVE  TypeOK'
<1> DEFINE t == op[p].table
           w == op[p].work1
           v == stored[op[p].work1.key]
<1>0. /\ op[p] \in Commands /\ t \in Table /\ w \in Area /\ w.key \in Record
      /\ op[p].found \in BOOLEAN /\ tt[t] \in Flags /\ seq[t] \in Cursors
      /\ v \in Value \cup {Absent}
  BY TypeOfProcess
<1> HIDE DEF t, w, v
<1>1. /\ stored \in [Record -> Value \cup {Absent}]
      /\ locks \in [Lock -> Process \cup {NoProcess}]
      /\ tt \in [Table -> Flags] /\ seq \in [Table -> Cursors]
      /\ pc \in [Process -> Stage] /\ op \in [Process -> Commands]
      /\ left \in [Process -> 0 .. Calls]
  BY TypeNames
<1>2. \A s \in Stage : /\ GoTo(p, s) => pc' \in [Process -> Stage]
                       /\ Continue(p, s) => pc' \in [Process -> Stage] /\ op' \in [Process -> Commands]
  BY TypeUpdates, <1>0
<1>3. Return(p) => pc' \in [Process -> Stage] /\ op' \in [Process -> Commands]
  BY TypeUpdates, <1>0, Constants DEF Stage
<1>4. /\ \A f \in Flags : [tt EXCEPT ![t] = f] \in [Table -> Flags]
      /\ \A a \in BOOLEAN : [tt EXCEPT ![t].AVAIL = a] \in [Table -> Flags]
  <2>1. \A a \in BOOLEAN : [tt[t] EXCEPT !.AVAIL = a] \in Flags
    BY <1>0, RecordTypes
  <2> QED BY <1>0, <1>1, <2>1
<1>5. \A c \in Cursors : [seq EXCEPT ![t] = c] \in [Table -> Cursors]
  BY <1>0, <1>1
<1>6. /\ Locked(p, w.key) \in [Lock -> Process \cup {NoProcess}]
      /\ Unlocked(w.key) \in [Lock -> Process \cup {NoProcess}]
      /\ Ulckrec(t) => locks' \in [Lock -> Process \cup {NoProcess}]
      /\ WithoutLock(t) \in Flags
  BY <1>0, LockTypes
<1>7. \A a \in BOOLEAN : [WithoutLock(t) EXCEPT !.AVAIL = a] \in Flags
  BY <1>0, <1>6, RecordTypes
<1>8. \A a \in BOOLEAN, u \in Area : LockedCopy(a, u) \in Flags
  BY <1>0, RecordTypes
<1>11. CASE RdrecUnlock(p)
  <2>1. tt' = [tt EXCEPT ![t] = [WithoutLock(t) EXCEPT !.AVAIL = FALSE]]
    BY <1>11 DEF RdrecUnlock, t
  <2>2. tt' \in [Table -> Flags]
    BY <2>1, <1>4, <1>7
  <2>3. Ulckrec(t) /\ Continue(p, "getr") /\ UNCHANGED <<stored, seq, left>>
    BY <1>11 DEF RdrecUnlock, t
  <2> QED BY <2>2, <2>3, <1>1, <1>2, <1>6, TypeNamesPrime DEF Stage
<1>12. CASE Getr(p)
  <2>1. UNCHANGED <<stored, locks, seq, left>>
    BY <1>12 DEF Getr
  <2>2. CASE Return(p) /\ tt' = [tt EXCEPT ![t].AVAIL = (v # Absent)]
    BY <2>1, <2>2, <1>1, <1>3, <1>4, TypeNamesPrime
  <2>3. CASE /\ GoTo(p, "lgetr") /\ tt' = tt
             /\ op' = [op EXCEPT ![p].found = (v # Absent), ![p].work1.val = v]
    <3>1. [op[p] EXCEPT !.found = (v # Absent), !.work1.val = v] \in Commands
      BY <1>0, RecordTypes
    <3>2. op' = [op EXCEPT ![p] = [op[p] EXCEPT !.found = (v # Absent), !.work1.val = v]]
      BY <2>3, <1>1
    <3> QED BY <2>1, <2>3, <3>1, <3>2, <1>1, <1>2, TypeNamesPrime DEF Stage
  <2> QED BY <1>12, <2>2, <2>3 DEF Getr, t, v
<1>13. CASE RdrecLock(p) \/ RdnxtLock(p)
  <2>1. PICK s \in Stage : Continue(p, s) /\ locks' = Locked(p, w.key)
                           /\ UNCHANGED <<stored, tt, seq, left>>
    BY <1>13 DEF RdrecLock, RdnxtLock, LgetrLocks, Stage, w
  <2> QED BY <2>1, <1>1, <1>2, <1>6, TypeNamesPrime
<1>14. CASE RdrecRefused(p) \/ RdnxtRefused(p)
  <2>1. \E a \in BOOLEAN : tt' = [tt EXCEPT ![t].AVAIL = a]
    BY <1>14, <1>0 DEF RdrecRefused, RdnxtRefused, LgetrRefused, t
  <2>2. Return(p) /\ UNCHANGED <<stored, locks, seq, left>>
    BY <1>14 DEF RdrecRefused, RdnxtRefused, LgetrRefused
  <2> QED BY <2>1, <2>2, <1>1, <1>3, <1>4, TypeNamesPrime
<1>15. CASE RdrecReread(p)
  <2>1. [w EXCEPT !.val = IF v # Absent THEN v ELSE w.val] \in Area
    BY <1>0 DEF Area
  <2>2. tt' = [tt EXCEPT ![t] = LockedCopy(op[p].found, [w EXCEPT !.val = IF v # Absent THEN v ELSE w.val])]
    BY <1>15 DEF RdrecReread, t, w, v
  <2>3. Return(p) /\ UNCHANGED <<stored, locks, seq, left>>
    BY <1>15 DEF RdrecReread
  <2> QED BY <2>1, <2>2, <2>3, <1>0, <1>1, <1>3, <1>4, <1>8, TypeNamesPrime
<1>16. CASE RdnxtUnlock(p)
  <2>1. tt' = [tt EXCEPT ![t] = [WithoutLock(t) EXCEPT !.AVAIL = FALSE]]
    BY <1>16 DEF RdnxtUnlock, t
  <2>2. tt' \in [Table -> Flags]
    BY <2>1, <1>4, <1>7
  <2>3. Ulckrec(t) /\ Continue(p, "getnxt") /\ UNCHANGED <<stored, seq, left>>
    BY <1>16 DEF RdnxtUnlock, t
  <2> QED BY <2>2, <2>3, <1>1, <1>2, <1>6, TypeNamesPrime DEF Stage
<1>17. CASE GetnxtFinds(p)
  <2>1. PICK first \in Ahead(t) :
          /\ seq' = [seq EXCEPT ![t].node = Ahead(t) \ {first}, ![t].loaded = TRUE]
          /\ \/ Return(p) /\ tt' = [tt EXCEPT ![t].AVAIL = TRUE]
             \/ GoTo(p, "nxlgetr") /\ tt' = tt /\ op' = [op EXCEPT ![p].work1 = first]
    BY <1>17 DEF GetnxtFinds, t
  <2>2. first \in Area /\ Ahead(t) \ {first} \in SUBSET Area
    BY <1>0, LeafType
  <2>3. [seq[t] EXCEPT !.node = Ahead(t) \ {first}, !.loaded = TRUE] \in Cursors
    BY <1>0, <2>2 DEF Cursors
  <2>4. seq' = [seq EXCEPT ![t] = [seq[t] EXCEPT !.node = Ahead(t) \ {first}, !.loaded = TRUE]]
    BY <2>1, <1>1
  <2>5. seq' \in [Table -> Cursors]
    BY <2>3, <2>4, <1>5
  <2>6. [op[p] EXCEPT !.work1 = first] \in Commands
    BY <2>2, <1>0, RecordTypes
  <2>7. UNCHANGED <<stored, locks, left>>
    BY <1>17 DEF GetnxtFinds
  <2>8. /\ tt' \in [Table -> Flags] /\ pc' \in [Process -> Stage] /\ op' \in [Process -> Commands]
    BY <2>1, <2>6, <1>1, <1>2, <1>3, <1>4 DEF Stage
  <2> QED BY <2>5, <2>7, <2>8, <1>1, TypeNamesPrime
<1>18. CASE GetnxtEnds(p)
  <2>1. [node |-> {}, loaded |-> FALSE, done |-> TRUE] \in Cursors
    BY DEF Cursors
  <2>2. /\ seq' = [seq EXCEPT ![t] = [node |-> {}, loaded |-> FALSE, done |-> TRUE]]
        /\ Return(p) /\ UNCHANGED <<stored, locks, tt, left>>
    BY <1>18 DEF GetnxtEnds, t
  <2> QED BY <2>1, <2>2, <1>1, <1>3, <1>5, TypeNamesPrime
<1>19. CASE RdnxtReread(p)
  <2>1. [w EXCEPT !.val = v] \in Area
    BY <1>0, RecordTypes
  <2>2. /\ tt' = [tt EXCEPT ![t] = LockedCopy(TRUE, [w EXCEPT !.val = v])]
        /\ Return(p) /\ UNCHANGED <<stored, locks, seq, left>>
    BY <1>19 DEF RdnxtReread, t, w, v
  <2> QED BY <2>1, <2>2, <1>1, <1>3, <1>4, <1>8, TypeNamesPrime
<1>20. CASE RdnxtMissed(p) \/ Leave(p)
  <2>1. PICK s \in Stage : Continue(p, s) /\ UNCHANGED <<stored, locks, tt, seq, left>>
    BY <1>20 DEF RdnxtMissed, Leave, Stage
  <2> QED BY <2>1, <1>1, <1>2, TypeNamesPrime
<1>21. CASE RdnxtUlockr(p)
  <2>1. Continue(p, "getnxt") /\ locks' = Unlocked(w.key) /\ UNCHANGED <<stored, tt, seq, left>>
    BY <1>21 DEF RdnxtUlockr, w
  <2> QED BY <2>1, <1>1, <1>2, <1>6, TypeNamesPrime DEF Stage
<1>22. CASE Clputr(p)
  <2>1. [stored EXCEPT ![w.key] = w.val] \in [Record -> Value \cup {Absent}]
    BY <1>0, <1>1 DEF Area
  <2>2. \/ tt' = [tt EXCEPT ![t].AVAIL = TRUE]
        \/ tt' = [tt EXCEPT ![t].AVAIL = TRUE, ![t].work2 = w]
        \/ tt' = [tt EXCEPT ![t].AVAIL = TRUE, ![t].work2 = tt[t].work2]
    BY <1>22, <1>1, <1>0 DEF Clputr, t, w
  <2>3. tt[t].work2 \in Area
    BY <1>0 DEF Flags
  <2>4. \A u \in Area : [tt[t] EXCEPT !.AVAIL = TRUE, !.work2 = u] \in Flags
    BY <1>0, RecordTypes
  <2>5. \A u \in Area : [tt EXCEPT ![t].AVAIL = TRUE, ![t].work2 = u]
                          = [tt EXCEPT ![t] = [tt[t] EXCEPT !.AVAIL = TRUE, !.work2 = u]]
    BY <1>0, <1>1
  <2>6. tt' \in [Table -> Flags]
    <3>1. CASE tt' = [tt EXCEPT ![t].AVAIL = TRUE]
      BY <3>1, <1>0, <1>4
    <3>2. ASSUME NEW u \in Area, tt' = [tt EXCEPT ![t].AVAIL = TRUE, ![t].work2 = u]
          PROVE  tt' \in [Table -> Flags]
      <4>1. tt' = [tt EXCEPT ![t] = [tt[t] EXCEPT !.AVAIL = TRUE, !.work2 = u]]
        BY <3>2, <2>5
      <4> QED BY <4>1, <2>4, <1>0, <1>4
    <3>3. w \in Area
      BY <1>0
    <3> QED BY <3>1, <3>2, <3>3, <2>2, <2>3
  <2>7. /\ stored' = [stored EXCEPT ![w.key] = w.val] /\ UNCHANGED <<locks, seq, left>>
        /\ Return(p) \/ Continue(p, "ulckrec")
    BY <1>22 DEF Clputr, w
  <2> QED BY <2>1, <2>6, <2>7, <1>1, <1>2, <1>3, TypeNamesPrime DEF Stage
<1>23. CASE Cldelr(p)
  <2>1. [stored EXCEPT ![w.key] = Absent] \in [Record -> Value \cup {Absent}]
    BY <1>0, <1>1
  <2>2. /\ stored' = [stored EXCEPT ![w.key] = Absent]
        /\ Continue(p, "delulck") /\ UNCHANGED <<locks, tt, seq, left>>
    BY <1>23 DEF Cldelr, w
  <2> QED BY <2>1, <2>2, <1>1, <1>2, TypeNamesPrime DEF Stage
<1>24. CASE UlckrecStep(p)
  <2>1. /\ tt' = [tt EXCEPT ![t] = [WithoutLock(t) EXCEPT !.AVAIL = WithoutLock(t).AVAIL /\ At(p, "ulckrec")]]
        /\ Ulckrec(t) /\ Return(p) /\ UNCHANGED <<stored, seq, left>>
    BY <1>24 DEF UlckrecStep, t
  <2>2. (WithoutLock(t).AVAIL /\ At(p, "ulckrec")) \in BOOLEAN
    OBVIOUS
  <2>3. tt' \in [Table -> Flags]
    BY <2>1, <2>2, <1>4, <1>7
  <2> QED BY <2>1, <2>3, <1>1, <1>3, <1>6, TypeNamesPrime
<1>25. CASE Ulock(p)
  <2>1. locks' \in [Lock -> Process \cup {NoProcess}] /\ UNCHANGED <<stored, tt, seq, pc, op, left>>
    BY <1>25, <1>1 DEF Ulock
  <2> QED BY <2>1, <1>1, TypeNamesPrime
<1>26. CASE Release(p) \/ Kill(p)
  <2>1. PICK s \in Stage : GoTo(p, s) /\ Emptied(p) /\ UNCHANGED <<stored, locks, left>>
    BY <1>26 DEF Release, Kill, Stage
  <2>2. tt' \in [Table -> Flags] /\ seq' \in [Table -> Cursors] /\ op' \in [Process -> Commands]
    BY <2>1, <1>1, Constants DEF Emptied
  <2> QED BY <2>1, <2>2, <1>1, <1>2, TypeNamesPrime
<1> QED BY <1>11, <1>12, <1>13, <1>14, <1>15, <1>16, <1>17, <1>18, <1>19, <1>20, <1>21,
            <1>22, <1>23, <1>24, <1>25, <1>26 DEF Going

(* Every variable keeps its type, and so every key that a program locks is  *)
(* the key of a record of some table (lockr.c, rdrec.c).                    *)
THEOREM TypeCorrect == Spec => []TypeOK
<1>1. Init => TypeOK
  <2> SUFFICES ASSUME Init PROVE TypeOK
    OBVIOUS
  <2>1. stored \in [Record -> Value \cup {Absent}] /\ Calls \in 0 .. Calls
    BY Tables DEF Init
  <2> QED BY <2>1, Constants, TypeNames DEF Init, Stage
<1>2. TypeOK /\ [Next]_vars => TypeOK'
  <2> SUFFICES ASSUME TypeOK, [Next]_vars PROVE TypeOK'
    OBVIOUS
  <2>1. CASE UNCHANGED vars
    BY <2>1 DEF vars, TypeOK
  <2>2. ASSUME NEW p \in Process, Step(p) PROVE TypeOK'
    BY <2>1, <2>2, StepCases, TypeAction, TypeGoing
  <2> QED BY <2>1, <2>2 DEF Next, Over
<1> QED BY <1>1, <1>2, PTL DEF Spec

-----------------------------------------------------------------------------
(* The inductive invariant. *)

Busy == Stage \ {"idle", "close", "gone", "dead"}
Keyed == {"rdrec", "getr", "lgetr", "reread", "nxlgetr", "nxreread", "ulockr", "clputr", "cldelr"}
Without == {"getr", "lgetr", "reread", "getnxt", "nxlgetr", "nxreread", "ulockr"}
Holding == {"reread", "nxreread", "ulockr"}

Own(p) == {t \in Table : Owner[t] = p}
Has(p, l) == locks[l] = p

(* The keys a program works with are keys of its own tables.               *)
Places(p) ==
  /\ \A t \in Own(p) : /\ tt[t].LOCK => tt[t].work2.key \in RecordsOf[t]
                       /\ \A w \in seq[t].node : w.key \in RecordsOf[t]
  /\ pc[p] \in Busy => op[p].table \in Own(p)
  /\ pc[p] \in Keyed => op[p].work1.key \in RecordsOf[op[p].table]

(* A command that reads has given back the lock of its entry before, and    *)
(* has the lock of its record until the entry says so.                     *)
InCommand(p) ==
  /\ pc[p] \in Without => ~tt[op[p].table].LOCK
  /\ pc[p] \in Holding => Has(p, LockOf[op[p].work1.key])

(* The entries of a program that runs say LOCK for locks it has, and it has *)
(* no other lock, but for that of the record it is reading.                *)
Agree(p) ==
  /\ Running(p) => \A t \in Own(p) : tt[t].LOCK => Has(p, LockOf[tt[t].work2.key])
  /\ Running(p) => \A l \in Lock : Has(p, l) =>
       \/ \E t \in Own(p) : tt[t].LOCK /\ l = LockOf[tt[t].work2.key]
       \/ pc[p] \in Holding /\ l = LockOf[op[p].work1.key]
  /\ pc[p] = "gone" => \A l \in Lock : ~Has(p, l)

Owned(p) == Places(p) /\ InCommand(p) /\ Agree(p)

(* A disciplined program changes a record only under its lock, and its copy *)
(* of a record it locked is current, unless it is about to unlock it.      *)
Changing(p) ==
  pc[p] \in {"clputr", "cldelr"} =>
    tt[op[p].table].LOCK /\ tt[op[p].table].work2.key = op[p].work1.key

Current(p) ==
  Running(p) => \A t \in Own(p) : tt[t].LOCK /\ ~(pc[p] = "ulckrec" /\ op[p].table = t) =>
    stored[tt[t].work2.key] \in {Absent, tt[t].work2.val}

Careful(p) == Changing(p) /\ Current(p)

Inv == TypeOK /\ \A p \in Process : Owned(p) /\ (Disciplined => Careful(p))

-----------------------------------------------------------------------------
(* The parts of the records that the steps build.                          *)

LEMMA RecordParts ==
  ASSUME NEW c \in Commands, NEW f \in Flags, NEW a \in BOOLEAN, NEW w \in Area,
         NEW v \in Value \cup {Absent}
  PROVE  /\ LET d == [c EXCEPT !.found = a, !.work1.val = v]
            IN d.table = c.table /\ d.work1.key = c.work1.key
         /\ LET d == [c EXCEPT !.work1 = w] IN d.table = c.table /\ d.work1 = w
         /\ LET g == [f EXCEPT !.AVAIL = a] IN g.LOCK = f.LOCK /\ g.work2 = f.work2
         /\ LET g == [f EXCEPT !.AVAIL = a, !.work2 = w] IN g.LOCK = f.LOCK /\ g.work2 = w
         /\ ~[f EXCEPT !.LOCK = FALSE, !.work2 = Blank].LOCK
         /\ LockedCopy(a, w).LOCK /\ LockedCopy(a, w).work2 = w
         /\ [w EXCEPT !.val = v].key = w.key /\ [w EXCEPT !.val = v].val = v
BY DEF Commands, Flags, Area, LockedCopy

LEMMA WithoutParts ==
  ASSUME TypeOK, NEW t \in Table, NEW a \in BOOLEAN
  PROVE  ~[WithoutLock(t) EXCEPT !.AVAIL = a].LOCK
<1>1. tt[t] \in Flags
  BY TypeNames
<1>2. WithoutLock(t) \in Flags /\ ~WithoutLock(t).LOCK
  BY <1>1, RecordTypes, RecordParts, Constants DEF WithoutLock
<1> QED BY <1>2, RecordParts, Constants

(* Two entries of one program never stand for the same lock.               *)
LEMMA OwnEntries ==
  ASSUME NEW p \in Process, NEW t \in Own(p), NEW u \in Own(p), t # u,
         NEW r \in RecordsOf[t], NEW s \in RecordsOf[u]
  PROVE  LockOf[r] # LockOf[s]
BY NoAliases DEF Own

-----------------------------------------------------------------------------
(* What a step of one program leaves alone.                                *)

StaysOut(p) ==
  /\ \A q \in Process \ {p} : pc'[q] = pc[q] /\ op'[q] = op[q]
  /\ \A t \in Table : Owner[t] # p => tt'[t] = tt[t] /\ seq'[t] = seq[t]
  /\ \A l \in Lock : locks'[l] # locks[l] => {locks[l], locks'[l]} = {p, NoProcess}
  /\ Disciplined => \A r \in Record : stored'[r] # stored[r] => Has(p, LockOf[r])

LEMMA OthersKept ==
  ASSUME NEW p \in Process, NEW q \in Process, q # p, TypeOK, StaysOut(p),
         Owned(q), Disciplined => Careful(q)
  PROVE  Owned(q)' /\ (Disciplined => Careful(q)')
<1>1. /\ pc'[q] = pc[q] /\ op'[q] = op[q]
      /\ \A t \in Own(q) : tt'[t] = tt[t] /\ seq'[t] = seq[t]
  BY DEF StaysOut, Own
<1>2. \A l \in Lock : Has(q, l)' <=> Has(q, l)
  BY Distinct DEF StaysOut, Has
<1>3. \A r \in Record : LockOf[r] \in Lock
  BY Tables
<1>4. Places(q)'
  BY <1>1 DEF Owned, Places, Own
<1>5. op[q].work1.key \in Record
  BY TypeOfProcess
<1>6. InCommand(q)'
  <2>1. pc[q] \in Without => op[q].table \in Own(q)
    BY DEF Owned, Places, Without, Busy, Stage
  <2>2. pc'[q] \in Without => ~tt'[op'[q].table].LOCK
    BY <1>1, <2>1 DEF Owned, InCommand
  <2>3. pc'[q] \in Holding => Has(q, LockOf[op[q].work1.key])'
    BY <1>1, <1>2, <1>3, <1>5 DEF Owned, InCommand
  <2> QED BY <2>2, <2>3 DEF InCommand
<1>7. Agree(q)'
  <2>1. \A t \in Own(q) : tt[t].work2.key \in Record
    BY DEF TypeOK, Area, Own
  <2>2. Running(q)' => \A t \in Own(q) : tt'[t].LOCK => Has(q, LockOf[tt[t].work2.key])'
    BY <1>1, <1>2, <1>3, <2>1 DEF Owned, Agree, Running
  <2>3. Running(q)' => \A l \in Lock : Has(q, l)' =>
          \/ \E t \in Own(q) : tt'[t].LOCK /\ l = LockOf[tt'[t].work2.key]
          \/ pc'[q] \in Holding /\ l = LockOf[op'[q].work1.key]
    BY <1>1, <1>2 DEF Owned, Agree, Running
  <2>4. pc'[q] = "gone" => \A l \in Lock : ~Has(q, l)'
    BY <1>1, <1>2 DEF Owned, Agree
  <2> QED BY <2>2, <2>3, <2>4 DEF Agree, Own
<1>8. ASSUME Disciplined PROVE Careful(q)'
  <2>1. Changing(q)'
    <3>1. pc[q] \in {"clputr", "cldelr"} => op[q].table \in Own(q)
      BY DEF Owned, Places, Busy, Stage
    <3> QED BY <1>1, <1>8, <3>1 DEF Careful, Changing
  <2>2. ASSUME Running(q)', NEW t \in Own(q), tt'[t].LOCK, ~(pc'[q] = "ulckrec" /\ op'[q].table = t)
        PROVE  stored'[tt'[t].work2.key] \in {Absent, tt'[t].work2.val}
    <3>1. Running(q) /\ tt'[t] = tt[t] /\ tt[t].work2.key \in Record
      BY <1>1, <2>2 DEF Running, TypeOK, Area, Own
    <3>2. Has(q, LockOf[tt[t].work2.key])
      BY <3>1, <2>2 DEF Owned, Agree
    <3>3. stored'[tt[t].work2.key] = stored[tt[t].work2.key]
      BY <1>8, <3>1, <3>2 DEF StaysOut, Has
    <3>4. stored[tt[t].work2.key] \in {Absent, tt[t].work2.val}
      BY <1>1, <1>8, <2>2, <3>1 DEF Careful, Current
    <3> QED BY <3>1, <3>3, <3>4
  <2>3. Current(q)'
    BY <2>2 DEF Current, Own
  <2> QED BY <2>1, <2>3 DEF Careful
<1> QED BY <1>4, <1>6, <1>7, <1>8 DEF Owned

(* Taking and giving back a lock changes that lock only.                   *)
LEMMA LockSteps ==
  ASSUME TypeOK, NEW p \in Process, NEW r \in Record
  PROVE  /\ LockOf[r] \in Lock
         /\ locks' = Locked(p, r) =>
              \A l \in Lock : locks'[l] = IF l = LockOf[r] THEN p ELSE locks[l]
         /\ locks' = Unlocked(r) =>
              \A l \in Lock : locks'[l] = IF l = LockOf[r] THEN NoProcess ELSE locks[l]
BY Tables DEF TypeOK, Locked, Unlocked

(* _ulckrec2() deletes a lock only if the entry says that it has one.      *)
LEMMA UlckrecStaysOut ==
  ASSUME TypeOK, NEW p \in Process, NEW t \in Own(p), Owned(p), Running(p), Ulckrec(t)
  PROVE  /\ \A l \in Lock : locks'[l] # locks[l] => {locks[l], locks'[l]} = {p, NoProcess}
         /\ \A l \in Lock : Has(p, l)' <=> Has(p, l) /\ ~(tt[t].LOCK /\ l = LockOf[tt[t].work2.key])
<1>1. tt[t].work2.key \in Record
  BY DEF TypeOK, Area, Own
<1>2. CASE tt[t].LOCK
  <2>1. Has(p, LockOf[tt[t].work2.key])
    BY <1>2 DEF Owned, Agree
  <2>2. \A l \in Lock : locks'[l] = IF l = LockOf[tt[t].work2.key] THEN NoProcess ELSE locks[l]
    BY <1>1, <1>2, LockSteps DEF Ulckrec
  <2> QED BY <1>2, <2>1, <2>2, Distinct DEF Has
<1>3. CASE ~tt[t].LOCK
  BY <1>3 DEF Ulckrec, Has
<1> QED BY <1>2, <1>3

-----------------------------------------------------------------------------
(* The commands begin.                                                     *)

(* What the interpreter passes to a command.                               *)
LEMMA Commanded ==
  ASSUME TypeOK, NEW p \in Process, NEW t \in Table, Action(p, t)
  PROVE  \E stage \in Stage, command \in Commands :
           /\ Command(p, t, stage, command)
           /\ stage \notin Without \cup Holding \cup {"close", "gone", "dead"}
           /\ stage # "idle" => command.table = t
           /\ stage \in Keyed => command.work1.key \in RecordsOf[t]
           /\ stage \in {"clputr", "cldelr"} => MayChange(t, command.work1.key)
<1> USE DEF Stage, Without, Holding, Keyed
<1>1. CASE Get(p, t)
  <2>1. PICK r \in RecordsOf[t], m \in GetModes :
          Command(p, t, "rdrec", [NoCommand EXCEPT !.table = t, !.work1.key = r, !.mode = m])
    BY <1>1 DEF Get
  <2> DEFINE c == [NoCommand EXCEPT !.table = t, !.work1.key = r, !.mode = m]
  <2>2. r \in Record /\ m \in {"none", "lock", "lockr"}
    BY Tables
  <2>3. c \in Commands
    BY <2>2, CommandType, Constants
  <2>4. c.table = t /\ c.work1.key = r
    BY Constants DEF Commands, Area
  <2> HIDE DEF c
  <2> QED BY <2>1, <2>3, <2>4 DEF c
<1>2. CASE Getnext(p, t)
  <2>1. PICK m \in NextModes : Command(p, t, "rdnxt", [NoCommand EXCEPT !.table = t, !.mode = m])
    BY <1>2 DEF Getnext
  <2> DEFINE c == [NoCommand EXCEPT !.table = t, !.mode = m]
  <2>2. c \in Commands
    BY Tables, CommandType, Constants
  <2>3. c.table = t
    BY Constants DEF Commands
  <2> HIDE DEF c
  <2> QED BY <2>1, <2>2, <2>3 DEF c
<1>3. CASE Put(p, t)
  <2>1. PICK r \in RecordsOf[t], v \in Value, keep \in BOOLEAN :
          /\ MayChange(t, r)
          /\ \/ Command(p, t, "clputr", [NoCommand EXCEPT !.table = t, !.keep = keep,
                                                          !.work1 = [key |-> r, val |-> v]])
             \/ Command(p, t, "idle", NoCommand)
             \/ Command(p, t, "ulckrec", [NoCommand EXCEPT !.table = t])
    BY <1>3 DEF Put
  <2> DEFINE c == [NoCommand EXCEPT !.table = t, !.keep = keep, !.work1 = [key |-> r, val |-> v]]
             d == [NoCommand EXCEPT !.table = t]
  <2>2. r \in Record /\ [key |-> r, val |-> v] \in Area
    BY Tables DEF Area
  <2>3. c \in Commands /\ d \in Commands
    BY <2>2, CommandType, Constants
  <2>4. c.table = t /\ c.work1.key = r /\ d.table = t
    BY Constants DEF Commands
  <2> HIDE DEF c, d
  <2>5. CASE Command(p, t, "clputr", c)
    BY <2>1, <2>3, <2>4, <2>5
  <2>6. CASE Command(p, t, "idle", NoCommand)
    BY <2>6, Constants
  <2>7. CASE Command(p, t, "ulckrec", d)
    BY <2>3, <2>4, <2>7
  <2> QED BY <2>1, <2>5, <2>6, <2>7 DEF c, d
<1>4. CASE Delete(p, t)
  <2>1. PICK r \in RecordsOf[t] :
          /\ MayChange(t, r)
          /\ Command(p, t, "cldelr", [NoCommand EXCEPT !.table = t, !.work1.key = r])
    BY <1>4 DEF Delete
  <2> DEFINE c == [NoCommand EXCEPT !.table = t, !.work1.key = r]
  <2>2. r \in Record
    BY Tables
  <2>3. c \in Commands
    BY <2>2, CommandType, Constants
  <2>4. c.table = t /\ c.work1.key = r
    BY Constants DEF Commands, Area
  <2> HIDE DEF c
  <2> QED BY <2>1, <2>3, <2>4 DEF c
<1>5. CASE Unlock(p, t)
  <2> DEFINE c == [NoCommand EXCEPT !.table = t]
  <2>1. c \in Commands
    BY CommandType, Constants
  <2>2. c.table = t
    BY Constants DEF Commands
  <2> HIDE DEF c
  <2> QED BY <1>5, <2>1, <2>2 DEF Unlock, c
<1> QED BY <1>1, <1>2, <1>3, <1>4, <1>5 DEF Action

LEMMA ActionStep ==
  ASSUME TypeOK, NEW p \in Process, NEW t \in Table, Action(p, t),
         Owned(p), Disciplined => Careful(p)
  PROVE  Owned(p)' /\ (Disciplined => Careful(p)') /\ StaysOut(p)
<1>1. PICK stage \in Stage, command \in Commands :
           /\ Command(p, t, stage, command)
           /\ stage \notin Without \cup Holding \cup {"close", "gone", "dead"}
           /\ stage # "idle" => command.table = t
           /\ stage \in Keyed => command.work1.key \in RecordsOf[t]
           /\ stage \in {"clputr", "cldelr"} => MayChange(t, command.work1.key)
  BY Commanded
<1>2. /\ pc[p] = "idle" /\ t \in Own(p) /\ pc'[p] = stage /\ op'[p] = command
      /\ \A q \in Process \ {p} : pc'[q] = pc[q] /\ op'[q] = op[q]
  BY <1>1, TypeNames DEF Command, Own
<1>3. /\ stored' = stored /\ locks' = locks /\ tt' = tt
      /\ seq' = seq \/ seq' = [seq EXCEPT ![t] = NoSeq]
  BY DEF Action, Get, Getnext, Put, Delete, Unlock
<1>4. \A u \in Table : seq'[u] = seq[u] \/ (u = t /\ seq'[u].node = {})
  BY <1>3, Constants, TypeNames
<1>5. Places(p)'
  BY <1>1, <1>2, <1>3, <1>4 DEF Places, Owned, Busy, Own, Keyed
<1>6. InCommand(p)'
  BY <1>1, <1>2 DEF InCommand
<1>7. Agree(p)'
  BY <1>1, <1>2, <1>3 DEF Owned, Agree, Running, Has, Holding, Own
<1>8. ASSUME Disciplined PROVE Careful(p)'
  <2>1. Changing(p)'
    BY <1>1, <1>2, <1>3, <1>8 DEF Changing, MayChange
  <2>2. Current(p)'
    BY <1>2, <1>3, <1>8 DEF Careful, Current, Running, Own
  <2> QED BY <2>1, <2>2 DEF Careful
<1>9. StaysOut(p)
  BY <1>2, <1>3, <1>4 DEF StaysOut, Own
<1> QED BY <1>5, <1>6, <1>7, <1>8, <1>9 DEF Owned

-----------------------------------------------------------------------------
(* The commands go on.                                                     *)

(* What GoTo, Continue and Return say of the program and of the others.    *)
LEMMA Moves ==
  ASSUME TypeOK, NEW p \in Process, NEW stage \in Stage
  PROVE  /\ GoTo(p, stage) => /\ pc'[p] = stage
                              /\ \A q \in Process \ {p} : pc'[q] = pc[q]
         /\ Continue(p, stage) => /\ pc'[p] = stage /\ op' = op
                                  /\ \A q \in Process \ {p} : pc'[q] = pc[q] /\ op'[q] = op[q]
         /\ Return(p) => /\ pc'[p] = "idle"
                         /\ \A q \in Process \ {p} : pc'[q] = pc[q] /\ op'[q] = op[q]
BY TypeNames DEF GoTo, Continue, Return

(* An entry of the program is changed, no other.                           *)
LEMMA EntryChanged ==
  ASSUME TypeOK, NEW t \in Table, NEW f, tt' = [tt EXCEPT ![t] = f]
  PROVE  /\ tt'[t] = f /\ \A u \in Table \ {t} : tt'[u] = tt[u]
BY TypeNames

(* The command's table, in a command.                                      *)
LEMMA InBusy ==
  ASSUME TypeOK, NEW p \in Process, Owned(p), pc[p] \in Busy
  PROVE  /\ op[p].table \in Table /\ op[p].table \in Own(p) /\ Running(p)
         /\ op[p].work1 \in Area /\ op[p].work1.key \in Record
         /\ tt[op[p].table] \in Flags /\ op[p] \in Commands
         /\ stored[op[p].work1.key] \in Value \cup {Absent}
         /\ pc[p] \in Keyed => op[p].work1.key \in RecordsOf[op[p].table]
BY TypeOfProcess DEF Owned, Places, Busy, Running

LEMMA GiveBack ==
  ASSUME TypeOK, NEW p \in Process, Owned(p), Disciplined => Careful(p),
         RdrecUnlock(p) \/ RdnxtUnlock(p) \/ UlckrecStep(p)
  PROVE  Owned(p)' /\ (Disciplined => Careful(p)') /\ StaysOut(p)
<1> DEFINE t == op[p].table
<1>1. pc[p] \in {"rdrec", "rdnxt", "ulckrec", "delulck"} /\ Ulckrec(t)
  BY DEF RdrecUnlock, RdnxtUnlock, UlckrecStep, At
<1>2. pc[p] \in Busy /\ Running(p) /\ pc[p] \notin Holding
  BY <1>1 DEF Busy, Stage, Running, Holding
<1>3. t \in Table /\ t \in Own(p)
  BY <1>2, InBusy
<1>4. \E a \in BOOLEAN : tt' = [tt EXCEPT ![t] = [WithoutLock(t) EXCEPT !.AVAIL = a]]
  BY <1>1 DEF RdrecUnlock, RdnxtUnlock, UlckrecStep
<1>5. ~tt'[t].LOCK /\ \A u \in Table \ {t} : tt'[u] = tt[u]
  <2>1. PICK a \in BOOLEAN : tt' = [tt EXCEPT ![t] = [WithoutLock(t) EXCEPT !.AVAIL = a]]
    BY <1>4
  <2>2. ~[WithoutLock(t) EXCEPT !.AVAIL = a].LOCK
    BY <1>3, WithoutParts
  <2>3. /\ tt'[t] = [WithoutLock(t) EXCEPT !.AVAIL = a]
        /\ \A u \in Table \ {t} : tt'[u] = tt[u]
    BY <2>1, <1>3, EntryChanged
  <2> QED BY <2>2, <2>3
<1>6. /\ stored' = stored /\ seq' = seq
      /\ \A q \in Process \ {p} : pc'[q] = pc[q] /\ op'[q] = op[q]
      /\ \/ pc'[p] = "getr" /\ pc[p] = "rdrec" /\ op' = op
         \/ pc'[p] = "getnxt" /\ op' = op
         \/ pc'[p] = "idle"
  BY Moves DEF RdrecUnlock, RdnxtUnlock, UlckrecStep, At, Stage
<1>7. /\ \A l \in Lock : locks'[l] # locks[l] => {locks[l], locks'[l]} = {p, NoProcess}
      /\ \A l \in Lock : Has(p, l)' <=> Has(p, l) /\ ~(tt[t].LOCK /\ l = LockOf[tt[t].work2.key])
  BY <1>1, <1>2, <1>3, UlckrecStaysOut
<1>8. Places(p)'
  BY <1>3, <1>5, <1>6, <1>2 DEF Places, Owned, Own, Busy, Keyed
<1>9. InCommand(p)'
  BY <1>5, <1>6 DEF InCommand, Holding, Without
<1>10. Agree(p)'
  <2>1. Running(p)' /\ pc'[p] # "gone" /\ pc'[p] \notin Holding
    BY <1>6 DEF Running, Holding
  <2>2. ASSUME NEW u \in Own(p), tt'[u].LOCK PROVE Has(p, LockOf[tt[u].work2.key])'
    <3>1. u # t /\ u \in Table /\ tt'[u] = tt[u]
      BY <1>5, <2>2 DEF Own
    <3>2. Has(p, LockOf[tt[u].work2.key]) /\ tt[u].work2.key \in RecordsOf[u]
      BY <1>2, <2>2, <3>1 DEF Owned, Agree, Places
    <3>3. LockOf[tt[u].work2.key] \in Lock
      BY <3>1, Tables DEF TypeOK, Area
    <3>4. tt[t].LOCK => tt[t].work2.key \in RecordsOf[t]
      BY <1>3 DEF Owned, Places
    <3>5. tt[t].LOCK => LockOf[tt[u].work2.key] # LockOf[tt[t].work2.key]
      BY <1>3, <2>2, <3>1, <3>2, <3>4, OwnEntries
    <3> QED BY <1>7, <3>1, <3>2, <3>3, <3>5
  <2>3. ASSUME NEW l \in Lock, Has(p, l)'
        PROVE  \E u \in Own(p) : tt'[u].LOCK /\ l = LockOf[tt'[u].work2.key]
    <3>1. Has(p, l) /\ ~(tt[t].LOCK /\ l = LockOf[tt[t].work2.key])
      BY <1>7, <2>3
    <3>2. PICK u \in Own(p) : tt[u].LOCK /\ l = LockOf[tt[u].work2.key]
      BY <1>2, <3>1 DEF Owned, Agree
    <3>3. u # t /\ u \in Table
      BY <3>1, <3>2 DEF Own
    <3> QED BY <1>5, <3>2, <3>3
  <2> QED BY <2>1, <2>2, <2>3 DEF Agree, Own
<1>11. ASSUME Disciplined PROVE Careful(p)'
  <2>1. Changing(p)'
    BY <1>6 DEF Changing
  <2>2. Current(p)'
    BY <1>2, <1>5, <1>6, <1>11 DEF Careful, Current, Own
  <2> QED BY <2>1, <2>2 DEF Careful
<1>12. StaysOut(p)
  BY <1>3, <1>5, <1>6, <1>7 DEF StaysOut, Own
<1> QED BY <1>8, <1>9, <1>10, <1>11, <1>12 DEF Owned

LEMMA Take ==
  ASSUME TypeOK, NEW p \in Process, Owned(p), Disciplined => Careful(p),
         RdrecLock(p) \/ RdnxtLock(p)
  PROVE  Owned(p)' /\ (Disciplined => Careful(p)') /\ StaysOut(p)
<1> DEFINE w == op[p].work1
<1>1. /\ pc[p] \in {"lgetr", "nxlgetr"} /\ pc'[p] \in {"reread", "nxreread"}
      /\ MayLock(p, w.key) /\ locks' = Locked(p, w.key) /\ op' = op
      /\ stored' = stored /\ tt' = tt /\ seq' = seq
      /\ \A q \in Process \ {p} : pc'[q] = pc[q] /\ op'[q] = op[q]
  BY Moves DEF RdrecLock, RdnxtLock, LgetrLocks, At, Stage
<1>2. pc[p] \in Busy /\ pc[p] \in Without /\ pc[p] \notin Holding /\ Running(p)
  BY <1>1 DEF Busy, Stage, Without, Holding, Running
<1>3. w.key \in Record /\ op[p].table \in Own(p) /\ w.key \in RecordsOf[op[p].table]
  BY <1>1, <1>2, InBusy DEF Keyed
<1>4. /\ LockOf[w.key] \in Lock /\ locks[LockOf[w.key]] \in {p, NoProcess}
      /\ \A l \in Lock : locks'[l] = IF l = LockOf[w.key] THEN p ELSE locks[l]
  BY <1>1, <1>3, LockSteps DEF MayLock
<1>5. Places(p)'
  BY <1>1, <1>2, <1>3 DEF Places, Owned, Own
<1>6. InCommand(p)'
  BY <1>1, <1>2, <1>4 DEF InCommand, Owned, Has
<1>7. Agree(p)'
  <2>1. Running(p)' /\ pc'[p] # "gone" /\ pc'[p] \in Holding
    BY <1>1 DEF Running, Holding
  <2>2. \A l \in Lock : Has(p, l)' <=> Has(p, l) \/ l = LockOf[w.key]
    BY <1>4 DEF Has
  <2>3. ASSUME NEW u \in Own(p), tt'[u].LOCK PROVE Has(p, LockOf[tt[u].work2.key])'
    <3>1. LockOf[tt[u].work2.key] \in Lock
      BY Tables DEF TypeOK, Area, Own
    <3>2. Has(p, LockOf[tt[u].work2.key])
      BY <1>1, <1>2, <2>3 DEF Owned, Agree
    <3> QED BY <1>1, <2>2, <3>1, <3>2
  <2>4. ASSUME NEW l \in Lock, Has(p, l)'
        PROVE  \/ \E u \in Own(p) : tt'[u].LOCK /\ l = LockOf[tt'[u].work2.key]
               \/ l = LockOf[op'[p].work1.key]
    BY <1>1, <1>2, <2>2, <2>4 DEF Owned, Agree
  <2> QED BY <2>1, <2>3, <2>4 DEF Agree, Own
<1>8. ASSUME Disciplined PROVE Careful(p)'
  <2>1. Changing(p)'
    BY <1>1 DEF Changing
  <2>2. Current(p)'
    BY <1>1, <1>2, <1>8 DEF Careful, Current, Own
  <2> QED BY <2>1, <2>2 DEF Careful
<1>9. StaysOut(p)
  BY <1>1, <1>4 DEF StaysOut, Has
<1> QED BY <1>5, <1>6, <1>7, <1>8, <1>9 DEF Owned

LEMMA Keep ==
  ASSUME TypeOK, NEW p \in Process, Owned(p), Disciplined => Careful(p),
         RdrecReread(p) \/ RdnxtReread(p)
  PROVE  Owned(p)' /\ (Disciplined => Careful(p)') /\ StaysOut(p)
<1> DEFINE t == op[p].table
           w == op[p].work1
           v == stored[op[p].work1.key]
<1>1. /\ pc[p] \in {"reread", "nxreread"} /\ pc'[p] = "idle"
      /\ stored' = stored /\ locks' = locks /\ seq' = seq
      /\ \A q \in Process \ {p} : pc'[q] = pc[q] /\ op'[q] = op[q]
  BY Moves DEF RdrecReread, RdnxtReread, At, Stage
<1>2. pc[p] \in Busy /\ pc[p] \in Without /\ pc[p] \in Holding /\ Running(p)
  BY <1>1 DEF Busy, Stage, Without, Holding, Running
<1>3. /\ t \in Own(p) /\ t \in Table /\ w \in Area /\ w.key \in Record /\ v \in Value \cup {Absent}
      /\ w.key \in RecordsOf[t] /\ ~tt[t].LOCK /\ Has(p, LockOf[w.key])
  BY <1>1, <1>2, InBusy DEF Keyed, Owned, InCommand
<1>4. PICK a \in BOOLEAN, x \in Value \cup {Absent} :
        /\ tt' = [tt EXCEPT ![t] = LockedCopy(a, [w EXCEPT !.val = x])]
        /\ v # Absent => x = v
  <2>1. CASE RdrecReread(p)
    <3>1. (IF v # Absent THEN v ELSE w.val) \in Value \cup {Absent} /\ op[p].found \in BOOLEAN
      BY <1>3, TypeOfProcess DEF Area
    <3> QED BY <2>1, <3>1 DEF RdrecReread
  <2>2. CASE RdnxtReread(p)
    BY <2>2, <1>3 DEF RdnxtReread
  <2> QED BY <2>1, <2>2
<1>5. /\ tt'[t].LOCK /\ tt'[t].work2.key = w.key /\ tt'[t].work2.val = x
      /\ \A u \in Table \ {t} : tt'[u] = tt[u]
  <2>1. /\ tt'[t] = LockedCopy(a, [w EXCEPT !.val = x])
        /\ \A u \in Table \ {t} : tt'[u] = tt[u]
    BY <1>3, <1>4, EntryChanged
  <2>2. [w EXCEPT !.val = x] \in Area /\ [w EXCEPT !.val = x].key = w.key /\ [w EXCEPT !.val = x].val = x
    BY <1>3 DEF Area
  <2> HIDE DEF w
  <2>3. LockedCopy(a, [w EXCEPT !.val = x]).LOCK
        /\ LockedCopy(a, [w EXCEPT !.val = x]).work2 = [w EXCEPT !.val = x]
    BY DEF LockedCopy
  <2> QED BY <2>1, <2>2, <2>3
<1>6. Places(p)'
  BY <1>1, <1>3, <1>5 DEF Places, Owned, Own, Busy, Keyed
<1>7. InCommand(p)'
  BY <1>1 DEF InCommand, Without, Holding
<1>8. Agree(p)'
  <2>1. Running(p)' /\ pc'[p] # "gone"
    BY <1>1 DEF Running
  <2>2. ASSUME NEW u \in Own(p), tt'[u].LOCK PROVE Has(p, LockOf[tt[u].work2.key])'
    BY <1>1, <1>2, <1>3, <1>5, <2>2 DEF Owned, Agree, Has, Own
  <2>3. ASSUME NEW l \in Lock, Has(p, l)'
        PROVE  \E u \in Own(p) : tt'[u].LOCK /\ l = LockOf[tt'[u].work2.key]
    <3>1. \/ \E u \in Own(p) : tt[u].LOCK /\ l = LockOf[tt[u].work2.key]
          \/ l = LockOf[w.key]
      BY <1>1, <1>2, <2>3 DEF Owned, Agree, Has
    <3> QED BY <1>3, <1>5, <3>1 DEF Own
  <2> QED BY <2>1, <2>2, <2>3 DEF Agree, Own
<1>9. ASSUME Disciplined PROVE Careful(p)'
  <2>1. Changing(p)'
    BY <1>1 DEF Changing
  <2>2. stored'[tt'[t].work2.key] \in {Absent, tt'[t].work2.val}
    BY <1>1, <1>4, <1>5
  <2>3. Current(p)'
    BY <1>1, <1>2, <1>5, <1>9, <2>2 DEF Careful, Current, Own
  <2> QED BY <2>1, <2>3 DEF Careful
<1>10. StaysOut(p)
  BY <1>1, <1>3, <1>5 DEF StaysOut, Own
<1> QED BY <1>6, <1>7, <1>8, <1>9, <1>10 DEF Owned

(* The steps that change neither a lock nor what the entries say of locks. *)
LEMMA Quiet ==
  ASSUME TypeOK, NEW p \in Process, Owned(p), Disciplined => Careful(p),
         stored' = stored, locks' = locks, Running(p),
         \A u \in Table : tt'[u].LOCK = tt[u].LOCK /\ tt'[u].work2 = tt[u].work2,
         \A u \in Table : Owner[u] # p => tt'[u] = tt[u] /\ seq'[u] = seq[u],
         \A q \in Process \ {p} : pc'[q] = pc[q] /\ op'[q] = op[q],
         \A u \in Own(p) : \A w \in seq'[u].node : w.key \in RecordsOf[u],
         \/ pc'[p] = "close"
         \/ pc'[p] = "idle" /\ pc[p] \in Busy \ (Holding \cup {"ulckrec"})
         \/ /\ pc'[p] \in {"lgetr", "nxlgetr"} /\ pc[p] \in Without \ Holding
            /\ op'[p].table = op[p].table /\ op'[p].work1.key \in RecordsOf[op[p].table]
         \/ pc'[p] = "ulockr" /\ pc[p] = "nxreread" /\ op' = op
  PROVE  Owned(p)' /\ (Disciplined => Careful(p)') /\ StaysOut(p)
<1>1. Places(p)'
  BY DEF Places, Owned, Own, Busy, Stage, Keyed, Without, Holding
<1>2. InCommand(p)'
  <2>1. pc[p] \in Without => op[p].table \in Table
    BY TypeOfProcess
  <2>2. pc'[p] \in Without => ~tt'[op'[p].table].LOCK
    BY <2>1 DEF InCommand, Owned, Without, Holding
  <2>3. pc'[p] \in Holding => pc[p] \in Holding /\ op' = op
    BY DEF Holding
  <2> QED BY <2>2, <2>3 DEF InCommand, Owned, Has
<1>3. Agree(p)'
  <2>1. Running(p)' => \A u \in Own(p) : tt'[u].LOCK => Has(p, LockOf[tt[u].work2.key])'
    BY DEF Owned, Agree, Has, Own
  <2>2. Running(p)' => \A l \in Lock : Has(p, l)' =>
          \/ \E u \in Own(p) : tt'[u].LOCK /\ l = LockOf[tt'[u].work2.key]
          \/ pc'[p] \in Holding /\ l = LockOf[op'[p].work1.key]
    BY DEF Owned, Agree, Has, Own, Holding, Running
  <2> QED BY <2>1, <2>2 DEF Agree, Own
<1>4. ASSUME Disciplined PROVE Careful(p)'
  <2>1. Changing(p)'
    BY DEF Changing
  <2>2. Current(p)'
    BY <1>4 DEF Careful, Current, Own, Running, Without
  <2> QED BY <2>1, <2>2 DEF Careful
<1>5. StaysOut(p)
  BY DEF StaysOut
<1> QED BY <1>1, <1>2, <1>3, <1>4, <1>5 DEF Owned

LEMMA EntryKept ==
  ASSUME TypeOK, NEW t \in Table, NEW a \in BOOLEAN, tt' = [tt EXCEPT ![t].AVAIL = a]
  PROVE  /\ \A u \in Table : tt'[u].LOCK = tt[u].LOCK /\ tt'[u].work2 = tt[u].work2
         /\ \A u \in Table \ {t} : tt'[u] = tt[u]
<1>1. tt' = [tt EXCEPT ![t] = [tt[t] EXCEPT !.AVAIL = a]] /\ tt[t] \in Flags
  BY TypeNames
<1>2. [tt[t] EXCEPT !.AVAIL = a].LOCK = tt[t].LOCK /\ [tt[t] EXCEPT !.AVAIL = a].work2 = tt[t].work2
  BY <1>1 DEF Flags
<1> QED BY <1>1, <1>2, EntryChanged

LEMMA QuietSteps ==
  ASSUME TypeOK, NEW p \in Process, Owned(p), Disciplined => Careful(p),
         \/ Getr(p) \/ RdrecRefused(p) \/ RdnxtRefused(p) \/ GetnxtFinds(p)
         \/ GetnxtEnds(p) \/ RdnxtMissed(p) \/ Leave(p)
  PROVE  Owned(p)' /\ (Disciplined => Careful(p)') /\ StaysOut(p)
<1> DEFINE t == op[p].table
<1>1. \A u \in Own(p) : \A w \in seq[u].node : w.key \in RecordsOf[u]
  BY DEF Owned, Places
<1>2. CASE Getr(p)
  <2>1. pc[p] = "getr" /\ stored' = stored /\ locks' = locks /\ seq' = seq
    BY <1>2 DEF Getr, At
  <2>2. /\ pc[p] \in Busy \ (Holding \cup {"ulckrec"}) /\ pc[p] \in Without /\ pc[p] \in Keyed
        /\ Running(p)
    BY <2>1 DEF Busy, Stage, Holding, Without, Running, Keyed
  <2>3. t \in Own(p) /\ t \in Table /\ op[p].work1.key \in RecordsOf[t]
    BY <2>2, InBusy
  <2>4. CASE Return(p) /\ \E a \in BOOLEAN : tt' = [tt EXCEPT ![t].AVAIL = a]
    <3>1. /\ \A u \in Table : tt'[u].LOCK = tt[u].LOCK /\ tt'[u].work2 = tt[u].work2
          /\ \A u \in Table \ {t} : tt'[u] = tt[u]
      BY <2>3, <2>4, EntryKept
    <3>2. pc'[p] = "idle" /\ \A q \in Process \ {p} : pc'[q] = pc[q] /\ op'[q] = op[q]
      BY <2>4, Moves DEF Stage
    <3>3. \A u \in Table : Owner[u] # p => tt'[u] = tt[u] /\ seq'[u] = seq[u]
      BY <2>1, <2>3, <3>1 DEF Own
    <3> QED BY <1>1, <2>1, <2>2, <3>1, <3>2, <3>3, Quiet
  <2>5. CASE /\ GoTo(p, "lgetr") /\ tt' = tt
             /\ \E a \in BOOLEAN, v \in Value \cup {Absent} :
                  op' = [op EXCEPT ![p].found = a, ![p].work1.val = v]
    <3>1. PICK a \in BOOLEAN, v \in Value \cup {Absent} :
            op' = [op EXCEPT ![p].found = a, ![p].work1.val = v]
      BY <2>5
    <3>2. op[p] \in Commands /\ op'[p] = [op[p] EXCEPT !.found = a, !.work1.val = v]
      BY <3>1, TypeNames
    <3>3. op'[p].table = op[p].table /\ op'[p].work1.key = op[p].work1.key
      BY SMTT(30), <3>2, RecordParts, Constants
    <3>4. pc'[p] = "lgetr" /\ \A q \in Process \ {p} : pc'[q] = pc[q]
      BY <2>5, Moves DEF Stage
    <3>5. \A q \in Process \ {p} : op'[q] = op[q]
      BY <3>1, TypeNames
    <3> QED BY <1>1, <2>1, <2>2, <2>3, <2>5, <3>3, <3>4, <3>5, Quiet
  <2>6. stored[op[p].work1.key] \in Value \cup {Absent}
    BY TypeOfProcess
  <2> QED BY <1>2, <2>4, <2>5, <2>6 DEF Getr
<1>3. CASE RdrecRefused(p) \/ RdnxtRefused(p)
  <2>1. /\ pc[p] \in {"lgetr", "nxlgetr"} /\ stored' = stored /\ locks' = locks /\ seq' = seq
        /\ Return(p) /\ \E a \in BOOLEAN : tt' = [tt EXCEPT ![t].AVAIL = a]
    BY <1>3, TypeOfProcess DEF RdrecRefused, RdnxtRefused, LgetrRefused, At
  <2>2. /\ pc[p] \in Busy \ (Holding \cup {"ulckrec"}) /\ Running(p)
    BY <2>1 DEF Busy, Stage, Holding, Running
  <2>3. t \in Own(p) /\ t \in Table
    BY <2>2, InBusy
  <2>4. /\ \A u \in Table : tt'[u].LOCK = tt[u].LOCK /\ tt'[u].work2 = tt[u].work2
        /\ \A u \in Table \ {t} : tt'[u] = tt[u]
    BY <2>1, <2>3, EntryKept
  <2>5. pc'[p] = "idle" /\ \A q \in Process \ {p} : pc'[q] = pc[q] /\ op'[q] = op[q]
    BY <2>1, Moves DEF Stage
  <2>6. \A u \in Table : Owner[u] # p => tt'[u] = tt[u] /\ seq'[u] = seq[u]
    BY <2>1, <2>3, <2>4 DEF Own
  <2> QED BY <1>1, <2>1, <2>2, <2>4, <2>5, <2>6, Quiet
<1>4. CASE GetnxtFinds(p)
  <2>1. pc[p] = "getnxt" /\ stored' = stored /\ locks' = locks
    BY <1>4 DEF GetnxtFinds, At
  <2>2. /\ pc[p] \in Busy \ (Holding \cup {"ulckrec"}) /\ pc[p] \in Without
        /\ Running(p)
    BY <2>1 DEF Busy, Stage, Holding, Without, Running
  <2>3. t \in Own(p) /\ t \in Table
    BY <2>2, InBusy
  <2>4. PICK first \in Ahead(t) :
          /\ seq' = [seq EXCEPT ![t].node = Ahead(t) \ {first}, ![t].loaded = TRUE]
          /\ \/ Return(p) /\ tt' = [tt EXCEPT ![t].AVAIL = TRUE]
             \/ GoTo(p, "nxlgetr") /\ tt' = tt /\ op' = [op EXCEPT ![p].work1 = first]
    BY <1>4 DEF GetnxtFinds
  <2>5. first \in Area /\ \A w \in Ahead(t) : w.key \in RecordsOf[t]
    <3>1. \A w \in Leaf(t) : w.key \in RecordsOf[t]
      BY DEF Leaf
    <3> QED BY <1>1, <2>3, <3>1, LeafType DEF Ahead
  <2>6. /\ seq'[t].node = Ahead(t) \ {first}
        /\ \A u \in Table \ {t} : seq'[u] = seq[u]
    <3>1. seq' = [seq EXCEPT ![t] = [seq[t] EXCEPT !.node = Ahead(t) \ {first}, !.loaded = TRUE]]
      BY <2>3, <2>4, TypeNames
    <3>2. seq[t] \in Cursors
      BY <2>3, TypeNames
    <3> QED BY <2>3, <3>1, <3>2, TypeNames DEF Cursors
  <2>7. \A u \in Own(p) : \A w \in seq'[u].node : w.key \in RecordsOf[u]
    BY <1>1, <2>5, <2>6 DEF Own
  <2>8. CASE Return(p) /\ tt' = [tt EXCEPT ![t].AVAIL = TRUE]
    <3>1. /\ \A u \in Table : tt'[u].LOCK = tt[u].LOCK /\ tt'[u].work2 = tt[u].work2
          /\ \A u \in Table \ {t} : tt'[u] = tt[u]
      BY <2>3, <2>8, EntryKept
    <3>2. pc'[p] = "idle" /\ \A q \in Process \ {p} : pc'[q] = pc[q] /\ op'[q] = op[q]
      BY <2>8, Moves DEF Stage
    <3>3. \A u \in Table : Owner[u] # p => tt'[u] = tt[u] /\ seq'[u] = seq[u]
      BY <2>3, <2>6, <3>1 DEF Own
    <3> QED BY <2>1, <2>2, <2>7, <3>1, <3>2, <3>3, Quiet
  <2>9. CASE GoTo(p, "nxlgetr") /\ tt' = tt /\ op' = [op EXCEPT ![p].work1 = first]
    <3>1. op[p] \in Commands /\ op'[p] = [op[p] EXCEPT !.work1 = first]
      BY <2>9, TypeNames
    <3>2. op'[p].table = t /\ op'[p].work1 = first
      BY <2>5, <3>1 DEF Commands
    <3>3. \A q \in Process \ {p} : op'[q] = op[q]
      BY <2>9, TypeNames
    <3>4. pc'[p] = "nxlgetr" /\ \A q \in Process \ {p} : pc'[q] = pc[q]
      BY <2>9, Moves DEF Stage
    <3>5. \A u \in Table : Owner[u] # p => tt'[u] = tt[u] /\ seq'[u] = seq[u]
      BY <2>3, <2>6, <2>9 DEF Own
    <3> QED BY <2>1, <2>2, <2>4, <2>5, <2>7, <2>9, <3>2, <3>3, <3>4, <3>5, Quiet
  <2> QED BY <2>4, <2>8, <2>9
<1>5. CASE GetnxtEnds(p)
  <2>1. /\ pc[p] = "getnxt" /\ stored' = stored /\ locks' = locks /\ tt' = tt /\ Return(p)
        /\ seq' = [seq EXCEPT ![t] = [node |-> {}, loaded |-> FALSE, done |-> TRUE]]
    BY <1>5 DEF GetnxtEnds, At
  <2>2. /\ pc[p] \in Busy \ (Holding \cup {"ulckrec"}) /\ Running(p)
    BY <2>1 DEF Busy, Stage, Holding, Running
  <2>3. t \in Own(p) /\ t \in Table
    BY <2>2, InBusy
  <2>4. seq'[t].node = {} /\ \A u \in Table \ {t} : seq'[u] = seq[u]
    BY <2>1, <2>3, TypeNames
  <2>5. pc'[p] = "idle" /\ \A q \in Process \ {p} : pc'[q] = pc[q] /\ op'[q] = op[q]
    BY <2>1, Moves DEF Stage
  <2>6. /\ \A u \in Table : Owner[u] # p => seq'[u] = seq[u]
        /\ \A u \in Own(p) : \A w \in seq'[u].node : w.key \in RecordsOf[u]
    BY <1>1, <2>3, <2>4 DEF Own
  <2> QED BY <2>1, <2>2, <2>5, <2>6, Quiet
<1>6. CASE RdnxtMissed(p)
  <2>1. /\ pc[p] = "nxreread" /\ Running(p) /\ pc'[p] = "ulockr" /\ op' = op
        /\ \A q \in Process \ {p} : pc'[q] = pc[q]
        /\ stored' = stored /\ locks' = locks /\ tt' = tt /\ seq' = seq
    BY <1>6, Moves DEF RdnxtMissed, At, Running, Stage
  <2> QED BY <1>1, <2>1, Quiet
<1>7. CASE Leave(p)
  <2>1. /\ Running(p) /\ pc'[p] = "close" /\ op' = op
        /\ \A q \in Process \ {p} : pc'[q] = pc[q]
        /\ stored' = stored /\ locks' = locks /\ tt' = tt /\ seq' = seq
    BY <1>7, Moves DEF Leave, Stage
  <2> QED BY <1>1, <2>1, Quiet
<1> QED BY <1>2, <1>3, <1>4, <1>5, <1>6, <1>7

(* rdnxt() gives back the lock of a record that disappeared.               *)
LEMMA Forget ==
  ASSUME TypeOK, NEW p \in Process, Owned(p), Disciplined => Careful(p), RdnxtUlockr(p)
  PROVE  Owned(p)' /\ (Disciplined => Careful(p)') /\ StaysOut(p)
<1> DEFINE t == op[p].table
           r == op[p].work1.key
<1>1. /\ pc[p] = "ulockr" /\ pc'[p] = "getnxt" /\ op' = op /\ locks' = Unlocked(r)
      /\ stored' = stored /\ tt' = tt /\ seq' = seq
      /\ \A q \in Process \ {p} : pc'[q] = pc[q]
  BY Moves DEF RdnxtUlockr, At, Stage
<1>2. pc[p] \in Busy /\ pc[p] \in Without /\ pc[p] \in Holding /\ Running(p) /\ pc[p] \in Keyed
  BY <1>1 DEF Busy, Stage, Without, Holding, Running, Keyed
<1>3. t \in Own(p) /\ r \in Record /\ r \in RecordsOf[t] /\ ~tt[t].LOCK /\ Has(p, LockOf[r])
  BY <1>2, InBusy DEF Owned, InCommand
<1>4. /\ \A l \in Lock : locks'[l] = IF l = LockOf[r] THEN NoProcess ELSE locks[l]
      /\ \A l \in Lock : Has(p, l)' <=> Has(p, l) /\ l # LockOf[r]
  BY <1>1, <1>3, LockSteps, Distinct DEF Has
<1>5. Places(p)'
  BY <1>1, <1>2 DEF Places, Owned, Own, Keyed
<1>6. InCommand(p)'
  BY <1>1, <1>3 DEF InCommand, Holding
<1>7. Agree(p)'
  <2>1. Running(p)' /\ pc'[p] # "gone"
    BY <1>1 DEF Running
  <2>2. ASSUME NEW u \in Own(p), tt'[u].LOCK PROVE Has(p, LockOf[tt[u].work2.key])'
    <3>1. u # t /\ Has(p, LockOf[tt[u].work2.key]) /\ tt[u].work2.key \in RecordsOf[u]
      BY <1>1, <1>2, <1>3, <2>2 DEF Owned, Agree, Places
    <3>2. LockOf[tt[u].work2.key] \in Lock /\ LockOf[tt[u].work2.key] # LockOf[r]
      BY <1>3, <3>1, OwnEntries, Tables DEF TypeOK, Area, Own
    <3> QED BY <1>1, <1>4, <3>1, <3>2
  <2>3. ASSUME NEW l \in Lock, Has(p, l)'
        PROVE  \E u \in Own(p) : tt'[u].LOCK /\ l = LockOf[tt'[u].work2.key]
    BY <1>1, <1>2, <1>4, <2>3 DEF Owned, Agree
  <2> QED BY <2>1, <2>2, <2>3 DEF Agree, Own
<1>8. ASSUME Disciplined PROVE Careful(p)'
  <2>1. Changing(p)'
    BY <1>1 DEF Changing
  <2>2. Current(p)'
    BY <1>1, <1>2, <1>8 DEF Careful, Current, Own
  <2> QED BY <2>1, <2>2 DEF Careful
<1>9. StaysOut(p)
  BY <1>1, <1>3, <1>4 DEF StaysOut, Has
<1> QED BY <1>5, <1>6, <1>7, <1>8, <1>9 DEF Owned

(* _clputr() and _cldelr(): the record is changed.                          *)
LEMMA Writes ==
  ASSUME TypeOK, NEW p \in Process, Owned(p), Disciplined => Careful(p),
         Clputr(p) \/ Cldelr(p)
  PROVE  Owned(p)' /\ (Disciplined => Careful(p)') /\ StaysOut(p)
<1> DEFINE t == op[p].table
           w == op[p].work1
<1>1. /\ pc[p] \in {"clputr", "cldelr"} /\ locks' = locks /\ seq' = seq
      /\ \A q \in Process \ {p} : pc'[q] = pc[q] /\ op'[q] = op[q]
      /\ \/ pc'[p] = "idle" /\ pc[p] = "clputr"
         \/ pc'[p] = "ulckrec" /\ pc[p] = "clputr" /\ op' = op
         \/ pc'[p] = "delulck" /\ pc[p] = "cldelr" /\ op' = op
  BY Moves DEF Clputr, Cldelr, At, Stage
<1>2. pc[p] \in Busy /\ pc[p] \notin Holding /\ Running(p) /\ pc[p] \in Keyed
  BY <1>1 DEF Busy, Stage, Holding, Running, Keyed
<1>3. t \in Own(p) /\ t \in Table /\ w \in Area /\ w.key \in Record /\ w.key \in RecordsOf[t] /\ tt[t] \in Flags
  BY <1>2, InBusy
<1>4. /\ \A r \in Record \ {w.key} : stored'[r] = stored[r]
      /\ stored'[w.key] = IF pc[p] = "clputr" THEN w.val ELSE Absent
  BY <1>1, <1>3, TypeNames DEF Clputr, Cldelr, At
<1>5. /\ tt'[t].LOCK = tt[t].LOCK /\ tt'[t].work2.key = tt[t].work2.key
      /\ \A u \in Table \ {t} : tt'[u] = tt[u]
      /\ pc'[p] = "idle" /\ Recopied(p, t) => tt'[t].work2 = w
  <2>1. CASE tt' = [tt EXCEPT ![t].AVAIL = TRUE] /\ pc'[p] # "idle"
    BY <2>1, <1>3, EntryKept
  <2>2. CASE tt' = tt /\ pc'[p] # "idle"
    BY <2>2
  <2>3. CASE /\ pc'[p] = "idle"
             /\ tt' = [tt EXCEPT ![t].AVAIL = TRUE,
                                 ![t].work2 = IF Recopied(p, t) THEN w ELSE tt[t].work2]
    <3> DEFINE x == IF Recopied(p, t) THEN w ELSE tt[t].work2
    <3>1. x \in Area /\ x.key = tt[t].work2.key
      BY <1>3 DEF Recopied, Flags
    <3> HIDE DEF x
    <3>2. tt' = [tt EXCEPT ![t] = [tt[t] EXCEPT !.AVAIL = TRUE, !.work2 = x]]
      BY <2>3, <1>3, TypeNames DEF x
    <3>3. [tt[t] EXCEPT !.AVAIL = TRUE, !.work2 = x].LOCK = tt[t].LOCK
          /\ [tt[t] EXCEPT !.AVAIL = TRUE, !.work2 = x].work2 = x
      BY <1>3, <3>1 DEF Flags
    <3>4. tt'[t] = [tt[t] EXCEPT !.AVAIL = TRUE, !.work2 = x] /\ \A u \in Table \ {t} : tt'[u] = tt[u]
      BY <3>2, <1>3, EntryChanged
    <3>5. tt'[t].LOCK = tt[t].LOCK /\ tt'[t].work2 = x
      BY <3>3, <3>4
    <3> QED BY <3>1, <3>4, <3>5 DEF x
  <2>4. \/ Cldelr(p) /\ tt' = tt /\ pc'[p] = "delulck"
        \/ tt' = [tt EXCEPT ![t].AVAIL = TRUE] /\ pc'[p] = "ulckrec"
        \/ /\ pc'[p] = "idle"
           /\ tt' = [tt EXCEPT ![t].AVAIL = TRUE,
                               ![t].work2 = IF Recopied(p, t) THEN w ELSE tt[t].work2]
    BY <1>1, <1>3, Moves, TypeNames DEF Clputr, Cldelr, At, Stage
  <2> QED BY <2>1, <2>2, <2>3, <2>4
<1>6. \A u \in Own(p) : tt'[u].LOCK = tt[u].LOCK /\ tt'[u].work2.key = tt[u].work2.key
  BY <1>5 DEF Own
<1>7. Places(p)'
  BY <1>1, <1>3, <1>6 DEF Places, Owned, Own, Busy, Keyed
<1>8. InCommand(p)'
  BY <1>1 DEF InCommand, Holding, Without
<1>9. Agree(p)'
  <2>1. Running(p)' /\ pc'[p] # "gone"
    BY <1>1 DEF Running
  <2>2. ASSUME NEW u \in Own(p), tt'[u].LOCK PROVE Has(p, LockOf[tt[u].work2.key])'
    BY <1>1, <1>2, <1>6, <2>2 DEF Owned, Agree, Has
  <2>3. ASSUME NEW l \in Lock, Has(p, l)'
        PROVE  \E u \in Own(p) : tt'[u].LOCK /\ l = LockOf[tt'[u].work2.key]
    BY <1>1, <1>2, <1>6, <2>3 DEF Owned, Agree, Has
  <2> QED BY <2>1, <2>2, <2>3 DEF Agree, Own
<1>10. ASSUME Disciplined PROVE tt[t].LOCK /\ tt[t].work2.key = w.key /\ Has(p, LockOf[w.key])
  BY <1>1, <1>2, <1>3, <1>10 DEF Owned, Agree, Careful, Changing
<1>11. ASSUME Disciplined PROVE Careful(p)'
  <2>1. Changing(p)'
    BY <1>1 DEF Changing
  <2>2. ASSUME NEW u \in Own(p), tt'[u].LOCK, ~(pc'[p] = "ulckrec" /\ op'[p].table = u)
        PROVE  stored'[tt'[u].work2.key] \in {Absent, tt'[u].work2.val}
    <3>1. CASE u = t
      <4>1. CASE pc'[p] = "idle"
        BY <4>1, <3>1, <1>1, <1>4, <1>5, <1>10, <1>11 DEF Recopied
      <4>2. CASE pc'[p] = "delulck"
        BY SMTT(30), <4>2, <3>1, <1>1, <1>4, <1>5, <1>10, <1>11
      <4> QED BY <1>1, <2>2, <3>1, <4>1, <4>2
    <3>2. CASE u # t
      <4>1. tt'[u] = tt[u] /\ tt[u].work2.key \in Record /\ tt[u].work2.key \in RecordsOf[u]
        BY <1>5, <2>2, <3>2 DEF Owned, Places, Own, TypeOK, Area
      <4>2. LockOf[w.key] # LockOf[tt[u].work2.key]
        BY <1>3, <3>2, <4>1, OwnEntries
      <4>3. stored'[tt[u].work2.key] = stored[tt[u].work2.key]
        BY <1>4, <4>1, <4>2
      <4>4. stored[tt[u].work2.key] \in {Absent, tt[u].work2.val}
        BY <1>1, <1>2, <1>11, <2>2, <4>1 DEF Careful, Current
      <4> QED BY <4>1, <4>3, <4>4
    <3> QED BY <3>1, <3>2
  <2>3. Current(p)'
    BY <2>2 DEF Current, Own
  <2> QED BY <2>1, <2>3 DEF Careful
<1>12. StaysOut(p)
  <2>1. Disciplined => \A r \in Record : stored'[r] # stored[r] => Has(p, LockOf[r])
    BY <1>4, <1>10
  <2>2. \A u \in Table : Owner[u] # p => tt'[u] = tt[u]
    BY <1>3, <1>5 DEF Own
  <2> QED BY <1>1, <2>1, <2>2 DEF StaysOut
<1> QED BY <1>7, <1>8, <1>9, <1>11, <1>12 DEF Owned

(* ulockall() deletes the records of the program's own PID.                 *)
LEMMA End ==
  ASSUME TypeOK, NEW p \in Process, Owned(p), Ulock(p) \/ Release(p) \/ Kill(p)
  PROVE  Owned(p)' /\ (Disciplined => Careful(p)') /\ StaysOut(p)
<1>1. stored' = stored
  BY DEF Ulock, Release, Kill
<1>2. CASE Ulock(p)
  <2>1. /\ pc[p] = "close" /\ pc' = pc /\ op' = op /\ tt' = tt /\ seq' = seq
    BY <1>2 DEF Ulock, At
  <2>2. \A l \in Lock : locks'[l] # locks[l] => {locks[l], locks'[l]} = {p, NoProcess}
    BY <1>2, TypeNames DEF Ulock
  <2>3. Places(p)' /\ InCommand(p)'
    BY <2>1 DEF Owned, Places, InCommand, Without, Holding, Own, Busy, Keyed
  <2>4. Agree(p)' /\ Careful(p)'
    BY <2>1 DEF Agree, Running, Careful, Changing, Current
  <2> QED BY <1>1, <2>1, <2>2, <2>3, <2>4 DEF Owned, StaysOut
<1>3. CASE Release(p) \/ Kill(p)
  <2>1. /\ pc'[p] \in {"gone", "dead"} /\ \A q \in Process \ {p} : pc'[q] = pc[q]
        /\ Emptied(p) /\ locks' = locks
        /\ pc'[p] = "gone" => \A l \in Lock : ~Has(p, l)
    BY <1>3, Moves DEF Release, Kill, Stage, Has
  <2>2. /\ \A q \in Process \ {p} : op'[q] = op[q]
        /\ \A t \in Table : IF Owner[t] = p THEN tt'[t] = Unused /\ seq'[t] = NoSeq
                                            ELSE tt'[t] = tt[t] /\ seq'[t] = seq[t]
    BY <2>1, TypeNames DEF Emptied
  <2>3. Places(p)' /\ InCommand(p)'
    BY <2>1, <2>2, Constants DEF Places, InCommand, Without, Holding, Own, Busy, Keyed
  <2>4. Agree(p)' /\ Careful(p)'
    BY <2>1 DEF Agree, Running, Careful, Changing, Current, Has
  <2> QED BY <1>1, <2>1, <2>2, <2>3, <2>4 DEF Owned, StaysOut
<1> QED BY <1>2, <1>3

-----------------------------------------------------------------------------
(* The invariant.                                                          *)

LEMMA StepOwned ==
  ASSUME Inv, NEW p \in Process, Step(p)
  PROVE  (Owned(p)' /\ (Disciplined => Careful(p)') /\ StaysOut(p)) \/ UNCHANGED vars
<1>1. TypeOK /\ Owned(p) /\ (Disciplined => Careful(p))
  BY DEF Inv
<1>2. CASE \E t \in Table : Action(p, t)
  BY <1>1, <1>2, ActionStep
<1>3. CASE Going(p)
  BY <1>1, <1>3, GiveBack, Take, Keep, QuietSteps, Forget, Writes, End DEF Going
<1> QED BY <1>2, <1>3, StepCases

LEMMA InitInv == Init => Inv
<1> SUFFICES ASSUME Init PROVE Inv
  OBVIOUS
<1>1. TypeOK
  <2>1. stored \in [Record -> Value \cup {Absent}] /\ Calls \in 0 .. Calls
    BY Tables DEF Init
  <2> QED BY <2>1, Constants, TypeNames DEF Init, Stage
<1>2. ASSUME NEW p \in Process PROVE Owned(p) /\ Careful(p)
  <2>1. /\ pc[p] = "idle" /\ \A l \in Lock : ~Has(p, l)
        /\ \A t \in Table : ~tt[t].LOCK /\ seq[t].node = {}
    BY Constants, Distinct DEF Init, Has
  <2>2. Places(p) /\ InCommand(p) /\ Agree(p)
    BY <2>1 DEF Places, InCommand, Agree, Busy, Keyed, Without, Holding, Own
  <2>3. Careful(p)
    BY <2>1 DEF Careful, Changing, Current, Own
  <2> QED BY <2>2, <2>3 DEF Owned
<1> QED BY <1>1, <1>2 DEF Inv

LEMMA StepInv == Inv /\ [Next]_vars => Inv'
<1> SUFFICES ASSUME Inv, [Next]_vars PROVE Inv'
  OBVIOUS
<1>1. CASE UNCHANGED vars
  <2>1. TypeOK'
    BY <1>1 DEF vars, Inv, TypeOK
  <2>2. \A p \in Process : Owned(p)' /\ (Disciplined => Careful(p)')
    BY <1>1 DEF vars, Inv, Owned, Careful, Places, InCommand, Agree, Changing, Current, Running, Has, Own
  <2> QED BY <2>1, <2>2 DEF Inv
<1>2. ASSUME NEW p \in Process, Step(p), ~UNCHANGED vars PROVE Inv'
  <2>1. TypeOK'
    BY <1>2, StepCases, TypeAction, TypeGoing DEF Inv
  <2>2. Owned(p)' /\ (Disciplined => Careful(p)') /\ StaysOut(p)
    BY <1>2, StepOwned
  <2>3. \A q \in Process \ {p} : Owned(q)' /\ (Disciplined => Careful(q)')
    BY <2>2, OthersKept DEF Inv
  <2> QED BY <2>1, <2>2, <2>3 DEF Inv
<1> QED BY <1>1, <1>2 DEF Next, Over

THEOREM InvCorrect == Spec => []Inv
BY InitInv, StepInv, PTL DEF Spec

(* An entry that says LOCK has its lock in the locks table, as long as the   *)
(* program runs (rdrec.c, rdnxt.c, reprec.c, ulckrec.c).                    *)
THEOREM FlagCorrect == Spec => []FlagMeansLock
<1>1. Inv => FlagMeansLock
  <2>1. ASSUME Inv, NEW t \in Table, Running(Owner[t]), tt[t].LOCK
        PROVE  locks[LockOf[tt[t].work2.key]] = Owner[t]
    <3>1. Owner[t] \in Process /\ t \in Own(Owner[t])
      BY Tables DEF Own
    <3> QED BY <2>1, <3>1 DEF Inv, Owned, Agree, Has
  <2> QED BY <2>1 DEF FlagMeansLock
<1> QED BY <1>1, InvCorrect, PTL

(* No lock stays that no program will give back (rdnxt.c:75, ulock.c).      *)
THEOREM StrayCorrect == Spec => []NoStray
<1>1. Inv => NoStray
  BY DEF Inv, Owned, Agree, Has, NoStray, Running, Holding, Own
<1> QED BY <1>1, InvCorrect, PTL

(* The flag of an entry and the lock record agree, both ways (ulckrec.c).   *)
THEOREM FlagsCorrect == Spec => []FlagsRight
<1>1. FlagMeansLock /\ NoStray => FlagsRight
  BY DEF FlagsRight
<1> QED BY <1>1, FlagCorrect, StrayCorrect, PTL

(* A step of a program neither takes nor gives away another's lock: what    *)
(* _lockr(.., 0) never looks at, its callers know (ulockr.c, ulckrec.c).    *)
THEOREM LocksCorrect == Spec => OnlyOwnLocks
<1>1. Inv /\ [Next]_vars =>
        [\A p \in Process : Step(p) =>
           \A l \in Lock : locks'[l] # locks[l] => {locks[l], locks'[l]} = {p, NoProcess}]_vars
  BY StepOwned DEF StaysOut, vars
<1> QED BY <1>1, InvCorrect, PTL DEF Spec, OnlyOwnLocks

(* Programs that change only what they have locked lose no update: the copy  *)
(* in TDworkarea2 is the record as it is stored (rdrec.c:61, rdnxt.c:72).   *)
THEOREM CopyCorrect ==
  ASSUME Disciplined PROVE Spec => []CopyCurrent
<1>1. Inv => CopyCurrent
  <2>1. ASSUME Inv, NEW t \in Table, At(Owner[t], "idle"), tt[t].LOCK
        PROVE  stored[tt[t].work2.key] \in {Absent, tt[t].work2.val}
    <3>1. Owner[t] \in Process /\ t \in Own(Owner[t]) /\ pc[Owner[t]] = "idle"
      BY <2>1, Tables DEF Own, At
    <3> QED BY <2>1, <3>1 DEF Inv, Careful, Current, Running
  <2> QED BY <2>1 DEF CopyCurrent
<1> QED BY <1>1, InvCorrect, PTL

=============================================================================
