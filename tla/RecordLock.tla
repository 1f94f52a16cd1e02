----------------------------- MODULE RecordLock -----------------------------
(* Records reserved by the programs that run against one database: the      *)
(* locks table, the record commands of the interpreter (get, getnext, put,   *)
(* delete, unlock) and the flags a program keeps for every table it opened.  *)
(* One call of _update() or _getr() is one step: the B-tree below makes it   *)
(* atomic (module Balance), and between two of them any other process runs.  *)
EXTENDS Naturals, FiniteSets

CONSTANTS Process,      \* programs, each with a PID of its own
          Table,        \* the entries of ttab[], of all the programs
          Owner,        \* the program an entry belongs to
          Record,       \* keys, ordered
          RecordsOf,    \* the keys of the entry's table
          Lock, LockOf, \* keys of the locks table: 1 byte of table, 128 of key
          Value, Absent, NoProcess,
          First,        \* what the tables may hold at first
          GetModes, NextModes, \* lock attributes given to get and to getnext
          Disciplined,  \* programs put and delete only what they have locked
          Bounded,      \* whether a program ends after a number of commands,
          Calls,        \* bound: that number
          Signals,      \* whether a signal may end a program in a command
          Kills         \* bound: programs that are killed

ASSUME Tables == /\ Owner \in [Table -> Process]
                 /\ RecordsOf \in [Table -> SUBSET Record]
                 /\ LockOf \in [Record -> Lock]
                 /\ Record \subseteq Nat /\ Record # {} /\ Table # {}
                 /\ First \subseteq [Record -> Value \cup {Absent}]
                 /\ GetModes \cup NextModes \subseteq {"none", "lock", "lockr"}
                 /\ Disciplined \in BOOLEAN /\ Bounded \in BOOLEAN /\ Signals \in BOOLEAN
                 /\ Calls \in Nat \ {0} /\ Kills \in Nat
ASSUME Distinct == Absent \notin Value /\ NoProcess \notin Process

(* No program opens one table under two aliases that it both locks with      *)
(* (the compiler warns of it, clc.c:490), nor two tables whose numbers agree *)
(* in their low byte.                                                        *)
ASSUME NoAliases ==
  \A t, u \in Table : t # u /\ Owner[t] = Owner[u] =>
    \A r \in RecordsOf[t], s \in RecordsOf[u] : LockOf[r] # LockOf[s]

VARIABLES stored,  \* the records of the tables
          locks,   \* the locks table: who has put a record there
          tt,      \* ttab[]: flags LOCK and AVAIL, and TDworkarea2
          seq,     \* the cursor of getnext: the leaf it copied
          pc,      \* where a program is
          op,      \* its command, with TDworkarea1, that every command fills anew
          left     \* commands it may still run

vars == <<stored, locks, tt, seq, pc, op, left>>

Running(p) == pc[p] \notin {"close", "gone", "dead"}
Blank == [key |-> CHOOSE r \in Record : TRUE, val |-> Absent]
NoCommand == [table |-> CHOOSE t \in Table : TRUE, mode |-> "none", found |-> FALSE,
              keep |-> FALSE, work1 |-> Blank]

Unused == [LOCK |-> FALSE, AVAIL |-> FALSE, work2 |-> Blank]
NoSeq == [node |-> {}, loaded |-> FALSE, done |-> FALSE]

Area == [key : Record, val : Value \cup {Absent}]
Stage == {"idle", "rdrec", "getr", "lgetr", "reread", "rdnxt", "getnxt", "nxlgetr",
          "nxreread", "ulockr", "clputr", "ulckrec", "cldelr", "delulck",
          "close", "gone", "dead"}

Init ==
  /\ stored \in First
  /\ locks = [l \in Lock |-> NoProcess]
  /\ tt = [t \in Table |-> Unused]
  /\ seq = [t \in Table |-> NoSeq]
  /\ pc = [p \in Process |-> "idle"]
  /\ op = [p \in Process |-> NoCommand]
  /\ left = [p \in Process |-> Calls]

(***************************************************************************)
(* The locks table                                                         *)
(***************************************************************************)
(* _lockr(.., 2): the record is put unless another PID has it. *)
MayLock(p, r) == locks[LockOf[r]] \in {NoProcess, p}

Locked(p, r) == [locks EXCEPT ![LockOf[r]] = p]

(* _lockr(.., 0): the record is deleted, whoever put it. *)
Unlocked(r) == [locks EXCEPT ![LockOf[r]] = NoProcess]

(* Mutant: the flag is not looked at. *)
UlckrecAnyway(t) == locks' = Unlocked(tt[t].work2.key)

(* _ulckrec2(): the key locked is the one kept in TDworkarea2. *)
Ulckrec(t) == locks' = IF tt[t].LOCK THEN Unlocked(tt[t].work2.key) ELSE locks

(* TDworkarea2 is read under LOCK only: without it, it is as good as blank.  *)
WithoutLock(t) == [tt[t] EXCEPT !.LOCK = FALSE, !.work2 = Blank]

(***************************************************************************)
(* Commands: the interpreter calls reffile() with the fields the program    *)
(* has set.                                                                *)
(***************************************************************************)
Command(p, t, stage, command) ==
  /\ pc[p] = "idle" /\ Owner[t] = p /\ left[p] > 0
  /\ left' = [left EXCEPT ![p] = IF Bounded THEN @ - 1 ELSE @]
  /\ op' = [op EXCEPT ![p] = command]
  /\ pc' = [pc EXCEPT ![p] = stage]

Get(p, t) ==
  /\ \E r \in RecordsOf[t], m \in GetModes :
       Command(p, t, "rdrec", [NoCommand EXCEPT !.table = t, !.work1.key = r, !.mode = m])
  /\ UNCHANGED <<stored, locks, tt, seq>>

(* With select (or where, or all) _restrict() first forgets the cursor. *)
Getnext(p, t) ==
  /\ \E m \in NextModes :
       Command(p, t, "rdnxt", [NoCommand EXCEPT !.table = t, !.mode = m])
  /\ \/ seq' = [seq EXCEPT ![t] = NoSeq]
     \/ seq' = seq
  /\ UNCHANGED <<stored, locks, tt>>

MayChange(t, r) == Disciplined => tt[t].LOCK /\ tt[t].work2.key = r

(* reprec(): a locked and loaded record that was not changed is not put. *)
Put(p, t) ==
  /\ \E r \in RecordsOf[t], v \in Value, keep \in BOOLEAN :
       LET new == [key |-> r, val |-> v]
           same == tt[t].LOCK /\ tt[t].AVAIL /\ tt[t].work2 = new
       IN /\ MayChange(t, r)
          /\ \/ ~same /\ Command(p, t, "clputr", [NoCommand EXCEPT !.table = t, !.keep = keep, !.work1 = new])
             \/ same /\ keep /\ Command(p, t, "idle", NoCommand)
             \/ same /\ ~keep /\ Command(p, t, "ulckrec", [NoCommand EXCEPT !.table = t])
  /\ UNCHANGED <<stored, locks, tt, seq>>

Delete(p, t) ==
  /\ \E r \in RecordsOf[t] :
       /\ MayChange(t, r)
       /\ Command(p, t, "cldelr", [NoCommand EXCEPT !.table = t, !.work1.key = r])
  /\ UNCHANGED <<stored, locks, tt, seq>>

Unlock(p, t) ==
  /\ Command(p, t, "ulckrec", [NoCommand EXCEPT !.table = t])
  /\ UNCHANGED <<stored, locks, tt, seq>>

(***************************************************************************)
(* rdrec(): get                                                            *)
(***************************************************************************)
At(p, stage) == pc[p] = stage
GoTo(p, stage) == pc' = [pc EXCEPT ![p] = stage]
Continue(p, stage) == GoTo(p, stage) /\ op' = op
Return(p) == GoTo(p, "idle") /\ op' = [op EXCEPT ![p] = NoCommand]

RdrecUnlock(p) ==
  LET t == op[p].table IN
  /\ At(p, "rdrec") /\ Continue(p, "getr")
  /\ Ulckrec(t)
  /\ tt' = [tt EXCEPT ![t] = [WithoutLock(t) EXCEPT !.AVAIL = FALSE]]
  /\ UNCHANGED <<stored, seq, left>>

(* The record is read without a lock first, and this answer is the one      *)
(* that is returned (retCode).                                              *)
Getr(p) ==
  LET v == stored[op[p].work1.key] IN
  /\ At(p, "getr")
  /\ \/ /\ op[p].mode = "none"
        /\ Return(p) /\ tt' = [tt EXCEPT ![op[p].table].AVAIL = (v # Absent)]
     \/ /\ op[p].mode # "none"
        /\ GoTo(p, "lgetr") /\ tt' = tt
        /\ op' = [op EXCEPT ![p].found = (v # Absent), ![p].work1.val = v]
  /\ UNCHANGED <<stored, locks, seq, left>>

(* lgetr() locks, then reads; while the lock is another's it returns -10     *)
(* and rdrec() and rdnxt() sleep and try again, or give up with lockr.       *)
LgetrLocks(p, from, to) ==
  /\ At(p, from) /\ Continue(p, to)
  /\ MayLock(p, op[p].work1.key)
  /\ locks' = Locked(p, op[p].work1.key)
  /\ UNCHANGED <<stored, tt, seq, left>>

LgetrRefused(p, from, avail) ==
  /\ At(p, from) /\ Return(p)
  /\ op[p].mode = "lockr"
  /\ ~MayLock(p, op[p].work1.key)
  /\ tt' = [tt EXCEPT ![op[p].table].AVAIL = avail]
  /\ UNCHANGED <<stored, locks, seq, left>>

LgetrSleeps(p, from) ==
  /\ At(p, from) /\ op[p].mode = "lock"
  /\ ~MayLock(p, op[p].work1.key)
  /\ UNCHANGED vars

LockedCopy(avail, work) == [LOCK |-> TRUE, AVAIL |-> avail, work2 |-> work]

RdrecLock(p) == LgetrLocks(p, "lgetr", "reread")
RdrecRefused(p) == LgetrRefused(p, "lgetr", op[p].found)

(* The record found, or none: the lock is kept and TDworkarea2 is its copy. *)
RdrecReread(p) ==
  LET w == op[p].work1
      v == stored[w.key]
  IN /\ At(p, "reread") /\ Return(p)
     /\ tt' = [tt EXCEPT ![op[p].table] =
                 LockedCopy(op[p].found, [w EXCEPT !.val = IF v # Absent THEN v ELSE @])]
     /\ UNCHANGED <<stored, locks, seq, left>>

(***************************************************************************)
(* rdnxt(): getnext and join                                               *)
(***************************************************************************)
RdnxtUnlock(p) ==
  LET t == op[p].table IN
  /\ At(p, "rdnxt") /\ Continue(p, "getnxt")
  /\ Ulckrec(t)
  /\ tt' = [tt EXCEPT ![t] = [WithoutLock(t) EXCEPT !.AVAIL = FALSE]]
  /\ UNCHANGED <<stored, seq, left>>

(* The cursor gives the records of the leaf it holds a copy of; the tables   *)
(* of the model are one leaf each, so that at its end the data ends.         *)
Leaf(t) == {[key |-> r, val |-> stored[r]] : r \in {s \in RecordsOf[t] : stored[s] # Absent}}
Ahead(t) == IF seq[t].loaded THEN seq[t].node ELSE Leaf(t)

GetnxtFinds(p) ==
  LET t == op[p].table IN
  /\ At(p, "getnxt") /\ ~seq[t].done
  /\ \E first \in Ahead(t) :
       /\ \A other \in Ahead(t) : first.key <= other.key
       /\ seq' = [seq EXCEPT ![t].node = Ahead(t) \ {first}, ![t].loaded = TRUE]
       /\ \/ /\ op[p].mode = "none"
             /\ Return(p) /\ tt' = [tt EXCEPT ![t].AVAIL = TRUE]
          \/ /\ op[p].mode # "none"
             /\ GoTo(p, "nxlgetr") /\ tt' = tt
             /\ op' = [op EXCEPT ![p].work1 = first]
  /\ UNCHANGED <<stored, locks, left>>

GetnxtEnds(p) ==
  LET t == op[p].table IN
  /\ At(p, "getnxt") /\ Return(p)
  /\ seq[t].done \/ Ahead(t) = {}
  /\ seq' = [seq EXCEPT ![t] = [node |-> {}, loaded |-> FALSE, done |-> TRUE]]
  /\ UNCHANGED <<stored, locks, tt, left>>

RdnxtLock(p) == LgetrLocks(p, "nxlgetr", "nxreread")
RdnxtRefused(p) == LgetrRefused(p, "nxlgetr", TRUE)
(* Mutant: the copy is of the record in the cursor's leaf. *)
RdnxtStale(p) ==
  /\ At(p, "nxreread") /\ stored[op[p].work1.key] # Absent /\ Return(p)
  /\ tt' = [tt EXCEPT ![op[p].table] = LockedCopy(TRUE, op[p].work1)]
  /\ UNCHANGED <<stored, locks, seq, left>>
RdnxtReread(p) ==
  LET w == op[p].work1
      v == stored[w.key]
  IN /\ At(p, "nxreread") /\ v # Absent /\ Return(p)
     /\ tt' = [tt EXCEPT ![op[p].table] = LockedCopy(TRUE, [w EXCEPT !.val = v])]
     /\ UNCHANGED <<stored, locks, seq, left>>

(* The record disappeared: its lock is given back and the next one is tried. *)
RdnxtMissed(p) ==
  /\ At(p, "nxreread") /\ stored[op[p].work1.key] = Absent /\ Continue(p, "ulockr")
  /\ UNCHANGED <<stored, locks, tt, seq, left>>
(* Mutant: the lock of a record that disappeared is kept. *)
RdnxtForgets(p) ==
  /\ At(p, "ulockr") /\ Continue(p, "getnxt")
  /\ UNCHANGED <<stored, locks, tt, seq, left>>

RdnxtUlockr(p) ==
  /\ At(p, "ulockr") /\ Continue(p, "getnxt")
  /\ locks' = Unlocked(op[p].work1.key)
  /\ UNCHANGED <<stored, tt, seq, left>>

(***************************************************************************)
(* reprec(), delhier(), ulckrec(): put, delete and unlock                  *)
(***************************************************************************)

(* With lock the record stays locked, and TDworkarea2 is brought up to date  *)
(* only if the key is still the one that was locked.  The test of LOCK at    *)
(* reprec.c:35 ends in a semicolon and the code copies without LOCK too, but *)
(* TDworkarea2 is read with LOCK only (see WithoutLock).                     *)
Recopied(p, t) == tt[t].LOCK /\ tt[t].work2.key = op[p].work1.key

Clputr(p) ==
  LET t == op[p].table
      w == op[p].work1
  IN /\ At(p, "clputr")
     /\ stored' = [stored EXCEPT ![w.key] = w.val]
     /\ \/ /\ op[p].keep /\ Return(p)
           /\ tt' = [tt EXCEPT ![t].AVAIL = TRUE, ![t].work2 = IF Recopied(p, t) THEN w ELSE @]
        \/ /\ ~op[p].keep /\ Continue(p, "ulckrec")
           /\ tt' = [tt EXCEPT ![t].AVAIL = TRUE]
     /\ UNCHANGED <<locks, seq, left>>

Cldelr(p) ==
  /\ At(p, "cldelr") /\ Continue(p, "delulck")
  /\ stored' = [stored EXCEPT ![op[p].work1.key] = Absent]
  /\ UNCHANGED <<locks, tt, seq, left>>

UlckrecStep(p) ==
  LET t == op[p].table IN
  /\ pc[p] \in {"ulckrec", "delulck"} /\ Return(p)
  /\ Ulckrec(t)
  /\ tt' = [tt EXCEPT ![t] = [WithoutLock(t) EXCEPT !.AVAIL = @ /\ At(p, "ulckrec")]]
  /\ UNCHANGED <<stored, seq, left>>

(***************************************************************************)
(* The end of a program, by itself or by a signal: closedb() calls           *)
(* ulockall(), which deletes the records of its PID one after the other.     *)
(* A program that is killed leaves them.                                     *)
(***************************************************************************)
(* release() empties the entries of ttab[], and a killed program has none.   *)
Emptied(p) ==
  /\ tt' = [t \in Table |-> IF Owner[t] = p THEN Unused ELSE tt[t]]
  /\ seq' = [t \in Table |-> IF Owner[t] = p THEN NoSeq ELSE seq[t]]
  /\ op' = [op EXCEPT ![p] = NoCommand]

Leave(p) ==
  /\ Running(p) /\ Continue(p, "close")
  /\ Signals \/ At(p, "idle")
  /\ UNCHANGED <<stored, locks, tt, seq, left>>

Ulock(p) ==
  /\ At(p, "close")
  /\ \E l \in Lock : locks[l] = p /\ locks' = [locks EXCEPT ![l] = NoProcess]
  /\ UNCHANGED <<stored, tt, seq, pc, op, left>>

Release(p) ==
  /\ At(p, "close") /\ GoTo(p, "gone")
  /\ \A l \in Lock : locks[l] # p
  /\ Emptied(p)
  /\ UNCHANGED <<stored, locks, left>>

Kill(p) ==
  /\ pc[p] \notin {"gone", "dead"} /\ GoTo(p, "dead")
  /\ Cardinality({q \in Process : pc[q] = "dead"}) < Kills
  /\ Emptied(p)
  /\ UNCHANGED <<stored, locks, left>>

Rdrec(p) == RdrecUnlock(p) \/ Getr(p) \/ RdrecLock(p) \/ LgetrSleeps(p, "lgetr") \/ RdrecRefused(p) \/ RdrecReread(p)
Rdnxt(p) == \/ RdnxtUnlock(p) \/ GetnxtFinds(p) \/ GetnxtEnds(p)
            \/ RdnxtLock(p) \/ LgetrSleeps(p, "nxlgetr") \/ RdnxtRefused(p) \/ RdnxtReread(p) \/ RdnxtMissed(p) \/ RdnxtUlockr(p)
Change(p) == Clputr(p) \/ Cldelr(p) \/ UlckrecStep(p)
Ending(p) == Ulock(p) \/ Release(p)
Start(p) == \E t \in Table : Get(p, t) \/ Getnext(p, t) \/ Put(p, t) \/ Delete(p, t) \/ Unlock(p, t)
Step(p) == Start(p) \/ Rdrec(p) \/ Rdnxt(p) \/ Change(p) \/ Leave(p) \/ Ending(p) \/ Kill(p)

Over == (\A p \in Process : pc[p] \in {"gone", "dead"}) /\ UNCHANGED vars
Next == (\E p \in Process : Step(p)) \/ Over

Spec == Init /\ [][Next]_vars

(* A command that was started goes on, and a program that has run its last   *)
(* command ends.                                                             *)
Finish(p) == Rdrec(p) \/ Rdnxt(p) \/ Change(p) \/ Ending(p) \/ (left[p] = 0 /\ At(p, "idle") /\ Leave(p))
FairSpec == Spec /\ \A p \in Process : WF_vars(Finish(p)) /\ WF_vars(Start(p))

(***************************************************************************)
(* Properties                                                              *)
(***************************************************************************)
TypeOK ==
  /\ stored \in [Record -> Value \cup {Absent}]
  /\ locks \in [Lock -> Process \cup {NoProcess}]
  /\ tt \in [Table -> [LOCK : BOOLEAN, AVAIL : BOOLEAN, work2 : Area]]
  /\ seq \in [Table -> [node : SUBSET Area, loaded : BOOLEAN, done : BOOLEAN]]
  /\ pc \in [Process -> Stage]
  /\ op \in [Process -> [table : Table, mode : {"none", "lock", "lockr"}, found : BOOLEAN,
                         keep : BOOLEAN, work1 : Area]]
  /\ left \in [Process -> 0 .. Calls]

(* A program whose entry says LOCK has the lock of the record it copied:     *)
(* nobody else deleted it, and it was not lost with a key that was changed.  *)
FlagMeansLock ==
  \A t \in Table : Running(Owner[t]) /\ tt[t].LOCK => locks[LockOf[tt[t].work2.key]] = Owner[t]

(* Between two commands a program has no lock that it does not know of, and  *)
(* none at all after it has ended: every other lock would stay for ever.     *)
NoStray ==
  \A l \in Lock, p \in Process : locks[l] = p =>
    /\ pc[p] # "gone"
    /\ pc[p] = "idle" => \E t \in Table : Owner[t] = p /\ tt[t].LOCK /\ l = LockOf[tt[t].work2.key]

(* The flags and the lock records agree, both ways.                          *)
FlagsRight == FlagMeansLock /\ NoStray

(* No update is lost: what a program will write back is based on the record  *)
(* as it is stored as long as it keeps the lock, however it got it.          *)
CopyCurrent ==
  \A t \in Table : At(Owner[t], "idle") /\ tt[t].LOCK =>
    stored[tt[t].work2.key] \in {Absent, tt[t].work2.val}

(* A locked record is reported loaded if, and only if, it is stored.         *)
LoadedMeansStored ==
  \A t \in Table : At(Owner[t], "idle") /\ tt[t].LOCK =>
    (tt[t].AVAIL <=> stored[tt[t].work2.key] # Absent)

(* A step of one program neither takes nor gives away the lock of another.   *)
OnlyOwnLocks ==
  [][\A p \in Process : Step(p) =>
       \A l \in Lock : locks'[l] # locks[l] => {locks[l], locks'[l]} = {p, NoProcess}]_vars

(* A program that waits for a record gets it, or ends: no circle of waiting  *)
(* programs, since rdrec() and rdnxt() give back the entry's lock first.     *)
WaitEnds == \A p \in Process : pc[p] \in {"lgetr", "nxlgetr"} ~> pc[p] \notin {"lgetr", "nxlgetr"}
=============================================================================
