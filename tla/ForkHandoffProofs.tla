-------------------------- MODULE ForkHandoffProofs --------------------------
(***************************************************************************)
(* What TLAPS proves of the hand-off: as long as no signal strikes between   *)
(* the fork and the moment the child works, no page gets two owners, none is *)
(* lost, no lock is free in between, and the two never work together; for    *)
(* any databases, pages and locks, and whatever other programs do.           *)
(***************************************************************************)
EXTENDS ForkHandoff, TLAPS

P == pc["parent"]
C == pc["child"]

(* Who is where. The parent's file keeps the child waiting till the parent is  *)
(* gone: that is why flagcdb() and closedb() of the parent never meet an       *)
(* update of the child.                                                      *)
Turns ==
  /\ P \in {"run", "locked", "flag", "ulock", "close", "gone", "dead"}
  /\ C \in {"none", "wait", "clear", "run", "ulock", "close", "gone", "dead"}
  /\ C = "none" => P \notin {"flag", "dead"}
  /\ C # "none" => P \notin {"run", "locked"}
  /\ C \in {"clear", "run", "ulock", "close", "gone"} => P = "gone"
  /\ P = "locked" \/ (C # "none" /\ P \in {"flag", "ulock", "close", "dead"}) => file
  /\ now \cap todo = {}

(* A page is in one place at most, and unless a process was killed in one.    *)
Owned ==
  /\ free \cap used = {}
  /\ Claims("parent") \cap Claims("child") = {}
  /\ \A p \in Process : Claims(p) \cap (free \cup used) = {} /\ spare[p] \cap list1[p] = {}
  /\ C = "none" => spare["child"] = {} /\ list1["child"] = {}
  /\ ~killed => Page \subseteq free \cup used \cup Claims("parent") \cup Claims("child")

(* The locks of the databases flagcdb() is through with are the child's.      *)
Recorded ==
  /\ P \in {"run", "locked"} => \A l \in flag["parent"] : locks[l] = "parent"
  /\ P = "flag" => \A l \in Lock : LockDb[l] \notin todo \cup now => locks[l] # "parent"
  /\ C # "none" /\ P \in {"ulock", "close", "gone"} => \A l \in Lock : locks[l] # "parent"
  /\ C = "wait" => \A l \in flag["child"] : locks[l] \in Process
  /\ C \in {"clear", "run"} => \A l \in flag["child"] : locks[l] = "child"

Inv == TypeOK /\ (~struck => Turns /\ Owned /\ Recorded)

-----------------------------------------------------------------------------
(* Types. *)

LEMMA TypeInit == Init => TypeOK
<1> SUFFICES ASSUME Init PROVE TypeOK
  OBVIOUS
<1> USE Firsts DEF Init, Process, Stages
<1>1. pc \in [Process -> Stages]
  OBVIOUS
<1>2. /\ free \subseteq Page /\ used \subseteq Page
      /\ spare \in [Process -> SUBSET Page] /\ list1 \in [Process -> SUBSET Page]
  OBVIOUS
<1>3. /\ todo \subseteq Db /\ now \subseteq Db /\ open \in [Process -> SUBSET Db]
      /\ locks \in [Lock -> {"parent", "child", "other", Nobody}]
      /\ flag \in [Process -> SUBSET Lock]
  OBVIOUS
<1> QED BY <1>1, <1>2, <1>3 DEF TypeOK

LEMMA TypeHand ==
  ASSUME TypeOK, NEW p \in Process, Hand(p) PROVE TypeOK'
<1> USE DEF TypeOK, Process, Stages, pages, records, handing, past
<1>1. CASE Flagged
  BY <1>1 DEF Flagged
<1>2. ASSUME NEW d \in Db, Clfork(d) PROVE TypeOK'
  BY <1>2 DEF Clfork
<1>3. ASSUME NEW l \in Lock, Transfer(l) PROVE TypeOK'
  BY <1>3 DEF Transfer
<1>4. CASE Awake
  BY <1>4 DEF Awake
<1>5. CASE Clear
  BY <1>5 DEF Clear
<1>6. ASSUME NEW l \in Lock, Ulock(p, l) PROVE TypeOK'
  BY <1>6 DEF Ulock
<1>7. CASE Closedb(p)
  BY <1>7 DEF Closedb
<1>8. ASSUME NEW d \in Db, Cldbclose(p, d) PROVE TypeOK'
  BY <1>8 DEF Cldbclose
<1>9. CASE Clunlock(p)
  BY <1>9 DEF Clunlock
<1> QED BY <1>1, <1>2, <1>3, <1>4, <1>5, <1>6, <1>7, <1>8, <1>9 DEF Hand

LEMMA TypeRun ==
  ASSUME TypeOK, NEW p \in Process, Run(p) PROVE TypeOK'
<1> USE DEF TypeOK, Process, Stages, pages, records, handing, past
<1>1. ASSUME NEW g \in Page, Capture(p, g) PROVE TypeOK'
  BY <1>1 DEF Capture
<1>2. ASSUME NEW g \in Page, NEW old \in Page, Replace(p, g, old) PROVE TypeOK'
  BY <1>2 DEF Replace
<1>3. ASSUME NEW d \in Db, FreeList1(p, d) PROVE TypeOK'
  BY <1>3 DEF FreeList1
<1>4. ASSUME NEW l \in Lock, TakeLock(p, l) PROVE TypeOK'
  BY <1>4 DEF TakeLock
<1>5. ASSUME NEW l \in Lock, DropLock(p, l) PROVE TypeOK'
  BY <1>5 DEF DropLock
<1>6. CASE Exit(p)
  BY <1>6 DEF Exit
<1> QED BY <1>1, <1>2, <1>3, <1>4, <1>5, <1>6 DEF Run

LEMMA TypeOther ==
  ASSUME TypeOK, Other PROVE TypeOK'
<1> USE DEF TypeOK, Process, pages, records, handing, past
<1>1. ASSUME NEW g \in Page, OtherTakes(g) \/ OtherGives(g) PROVE TypeOK'
  BY <1>1 DEF OtherTakes, OtherGives
<1>2. ASSUME NEW l \in Lock, OtherLocks(l) \/ OtherDrops(l) PROVE TypeOK'
  BY <1>2 DEF OtherLocks, OtherDrops
<1> QED BY <1>1, <1>2 DEF Other

LEMMA TypeStep ==
  ASSUME TypeOK, [Next]_vars PROVE TypeOK'
<1> USE DEF TypeOK, Process, Stages, pages, records, handing, past
<1>1. CASE UNCHANGED vars
  BY <1>1 DEF vars
<1>2. CASE Cllock \/ ForkFails
  BY <1>2 DEF Cllock, ForkFails
<1>3. CASE Fork
  BY <1>3 DEF Fork
<1>4. ASSUME NEW p \in Process, Hand(p) \/ Run(p) PROVE TypeOK'
  BY <1>4, TypeHand, TypeRun
<1>5. ASSUME NEW p \in Process, Signal(p) PROVE TypeOK'
  BY <1>5 DEF Signal
<1>6. ASSUME NEW p \in Process, Kill(p) PROVE TypeOK'
  BY <1>6 DEF Kill
<1>7. CASE Other
  BY <1>7, TypeOther
<1> QED BY <1>1, <1>2, <1>3, <1>4, <1>5, <1>6, <1>7 DEF Next

-----------------------------------------------------------------------------
(* A signal that strikes in the hand-off leaves its mark for ever. *)

LEMMA Unstruck ==
  ASSUME Next, struck PROVE struck'
<1>1. ASSUME NEW p \in Process, Hand(p) PROVE struck'
  BY <1>1 DEF Hand, Flagged, Clfork, Transfer, Awake, Clear, Ulock, Closedb, Cldbclose, Clunlock, past
<1>2. ASSUME NEW p \in Process, Run(p) PROVE struck'
  BY <1>2 DEF Run, Capture, Replace, FreeList1, TakeLock, DropLock, Exit, past
<1>3. ASSUME NEW p \in Process, Signal(p) \/ Kill(p) PROVE struck'
  BY <1>3 DEF Signal, Kill
<1>4. CASE Cllock \/ ForkFails \/ Fork
  BY <1>4 DEF Cllock, ForkFails, Fork, past
<1>5. CASE Other
  BY <1>5 DEF Other, OtherTakes, OtherGives, OtherLocks, OtherDrops, past
<1> QED BY <1>1, <1>2, <1>3, <1>4, <1>5 DEF Next

-----------------------------------------------------------------------------
(* Who is where. *)

LEMMA TurnsStep ==
  ASSUME TypeOK, Turns, Next, ~struck' PROVE Turns'
<1> USE DEF TypeOK, Turns, P, C, Process, handing, past
<1>1. CASE UNCHANGED <<pc, todo, now, file>>
  BY <1>1
<1>2. CASE Cllock \/ ForkFails
  BY <1>2 DEF Cllock, ForkFails
<1>3. CASE Fork
  <2>1. pc' = [parent |-> "flag", child |-> "wait"] /\ now' = {} /\ file' = file /\ P = "locked"
    BY <1>3 DEF Fork
  <2>2. P' = "flag" /\ C' = "wait"
    BY <2>1
  <2> QED BY <2>1, <2>2
<1>4. ASSUME NEW p \in Process, Hand(p) PROVE Turns'
  <2>1. CASE p = "parent" /\ Flagged
    BY <2>1 DEF Flagged
  <2>2. ASSUME NEW d \in Db, Clfork(d) PROVE Turns'
    BY <2>2 DEF Clfork
  <2>3. CASE Awake
    BY <2>3 DEF Awake
  <2>4. CASE Clear
    BY <2>4 DEF Clear
  <2>5. CASE Closedb(p)
    BY <2>5 DEF Closedb
  <2>6. CASE Clunlock(p)
    BY <2>6 DEF Clunlock
  <2>7. CASE (\E l \in Lock : Transfer(l) \/ Ulock(p, l)) \/ \E d \in Db : Cldbclose(p, d)
    BY <2>7, <1>1 DEF Transfer, Ulock, Cldbclose
  <2> QED BY <1>4, <2>1, <2>2, <2>3, <2>4, <2>5, <2>6, <2>7 DEF Hand
<1>5. ASSUME NEW p \in Process, Run(p) PROVE Turns'
  <2>1. CASE Exit(p)
    BY <2>1 DEF Exit
  <2>2. CASE ~Exit(p)
    BY <1>5, <2>2, <1>1 DEF Run, Capture, Replace, FreeList1, TakeLock, DropLock
  <2> QED BY <2>1, <2>2
<1>6. ASSUME NEW p \in Process, Signal(p) PROVE Turns'
  BY <1>6 DEF Signal
<1>7. ASSUME NEW p \in Process, Kill(p) PROVE Turns'
  BY <1>7 DEF Kill
<1>8. CASE Other
  BY <1>8, <1>1 DEF Other, OtherTakes, OtherGives, OtherLocks, OtherDrops
<1> QED BY <1>2, <1>3, <1>4, <1>5, <1>6, <1>7, <1>8 DEF Next

-----------------------------------------------------------------------------
(* Pages. *)

(* A step that moves no page and changes no claim.                           *)
LEMMA OwnedQuiet ==
  ASSUME Owned, UNCHANGED pages, ~killed' => ~killed,
         Claims("parent")' = Claims("parent"), Claims("child")' = Claims("child"),
         C' = "none" => C = "none"
  PROVE  Owned'
BY DEF Owned, pages, Process

LEMMA OwnedHand ==
  ASSUME TypeOK, Turns, Owned, ~struck, NEW p \in Process, Hand(p) PROVE Owned'
<1> USE DEF TypeOK, Turns, P, C, Process
<1>1. CASE p = "parent" /\ Flagged
  BY <1>1, OwnedQuiet DEF Flagged, Claims, pages, records, past
<1>2. ASSUME p = "parent", NEW d \in Db, Clfork(d) PROVE Owned'
  <2>1. Claims("parent")' = Claims("parent")
    BY <1>2 DEF Clfork, Claims, PagesOf
  <2>2. Claims("child")' = Claims("child")
    BY <1>2 DEF Clfork, Claims
  <2> QED BY <1>2, <2>1, <2>2 DEF Clfork, Owned, PagesOf
<1>3. ASSUME NEW l \in Lock, Transfer(l) \/ Ulock(p, l) PROVE Owned'
  BY <1>3, OwnedQuiet DEF Transfer, Ulock, Claims, pages, handing, past
<1>4. CASE Awake
  BY <1>4, OwnedQuiet DEF Awake, Claims, pages, records, past
<1>5. CASE Clear
  <2>1. Claims("child")' = Claims("child") /\ Claims("parent")' = Claims("parent")
    BY <1>5 DEF Clear, Claims
  <2> QED BY <1>5, <2>1 DEF Clear, Owned, past
<1>6. CASE Closedb(p)
  BY <1>6, OwnedQuiet DEF Closedb, Claims, pages, past
<1>7. ASSUME NEW d \in Db, Cldbclose(p, d) PROVE Owned'
  <2>1. PICK q \in Process : q # p /\ Process = {p, q}
    OBVIOUS
  <2>2. Claims(p) = spare[p] \cup list1[p] /\ Claims(p)' = Claims(p) \ PagesOf(d)
    BY <1>7 DEF Cldbclose, Claims
  <2>3. Claims(q)' = Claims(q)
    BY <1>7, <2>1 DEF Cldbclose, Claims
  <2> QED BY <1>7, <2>1, <2>2, <2>3 DEF Cldbclose, Owned, past
<1>8. CASE Clunlock(p)
  BY <1>8, OwnedQuiet DEF Clunlock, Claims, pages, records, past
<1> QED BY <1>1, <1>2, <1>3, <1>4, <1>5, <1>6, <1>7, <1>8 DEF Hand

(* Where a process may update a database, what it holds of it is its own.      *)
LEMMA OwnedRun ==
  ASSUME TypeOK, Turns, Owned, ~struck, NEW p \in Process, Run(p) PROVE Owned'
<1> USE DEF TypeOK, Turns, P, C, Process
<1>0. PICK q \in Process : q # p /\ Process = {p, q}
  OBVIOUS
<1>1. ASSUME NEW g \in Page, Capture(p, g) PROVE Owned'
  <2>1. Claims(p)' = Claims(p) \cup {g} /\ list1[p] \subseteq Claims(p) /\ pc[p] # "none"
    BY <1>1 DEF Capture, Updating, Claims
  <2>2. Claims(q)' = Claims(q)
    BY <1>0, <1>1 DEF Capture, Claims
  <2> QED BY <1>0, <1>1, <2>1, <2>2 DEF Capture, Owned
<1>2. ASSUME NEW g \in Page, NEW old \in Page, Replace(p, g, old) PROVE Owned'
  <2>0. g \in Claims(p) /\ (old \in spare[p] => old \in Claims(p)) /\ list1[p] \subseteq Claims(p)
    BY <1>2 DEF Replace, Updating, Claims
  <2>1. Claims(p)' = (Claims(p) \ {g}) \cup {old}
    BY <1>2, <2>0 DEF Replace, Updating, Claims, Owned
  <2>2. Claims(q)' = Claims(q)
    BY <1>0, <1>2 DEF Replace, Claims
  <2>3. /\ used' = (used \ {old}) \cup {g} /\ free' = free /\ old \in used
        /\ spare' = [spare EXCEPT ![p] = @ \ {g}] /\ list1' = [list1 EXCEPT ![p] = @ \cup {old}]
        /\ pc' = pc /\ killed' = killed /\ pc[p] # "none"
    BY <1>2 DEF Replace, Updating
  <2>4. old \notin Claims(p) /\ old \notin Claims(q) /\ g \notin Claims(q) /\ g \notin free /\ g \notin used
    BY <1>0, <2>0, <2>3 DEF Owned
  <2>5. spare[p]' \cap list1[p]' = {} /\ spare[q]' \cap list1[q]' = {}
    BY <1>0, <2>0, <2>3, <2>4 DEF Owned
  <2>6. Claims("parent")' \cap Claims("child")' = {} /\ (free' \cap used') = {}
    BY <1>0, <2>1, <2>2, <2>3, <2>4 DEF Owned
  <2>7. \A r \in Process : Claims(r)' \cap (free' \cup used') = {}
    BY <1>0, <2>1, <2>2, <2>3, <2>4 DEF Owned
  <2>8. ~killed' => Page \subseteq free' \cup used' \cup Claims("parent")' \cup Claims("child")'
    BY <1>0, <2>1, <2>2, <2>3 DEF Owned
  <2> QED BY <1>0, <2>3, <2>5, <2>6, <2>7, <2>8 DEF Owned
<1>3. ASSUME NEW d \in Db, FreeList1(p, d) PROVE Owned'
  <2>1. Claims(p)' = Claims(p) \ (list1[p] \cap PagesOf(d)) /\ list1[p] \subseteq Claims(p)
    BY <1>3 DEF FreeList1, Updating, Claims, Owned
  <2>2. Claims(q)' = Claims(q)
    BY <1>0, <1>3 DEF FreeList1, Claims
  <2> QED BY <1>0, <1>3, <2>1, <2>2 DEF FreeList1, Owned
<1>4. ASSUME NEW l \in Lock, TakeLock(p, l) \/ DropLock(p, l) PROVE Owned'
  BY <1>4, OwnedQuiet DEF TakeLock, DropLock, Claims, pages, handing, past
<1>5. CASE Exit(p)
  BY <1>5, OwnedQuiet DEF Exit, Claims, pages, records, handing, past
<1> QED BY <1>1, <1>2, <1>3, <1>4, <1>5 DEF Run

LEMMA OwnedStep ==
  ASSUME TypeOK, Turns, Owned, Next, ~struck, ~struck' PROVE Owned'
<1> USE DEF TypeOK, Turns, P, C, Process
<1>1. CASE Cllock \/ ForkFails
  BY <1>1, OwnedQuiet DEF Cllock, ForkFails, Claims, pages, records, handing, past
<1>2. CASE Fork
  <2>1. Claims("parent") = spare["parent"] \cup list1["parent"] /\ Claims("child") = {}
    BY <1>2 DEF Fork, Claims, Owned
  <2>2. Claims("parent")' = list1["parent"] /\ Claims("child")' = spare["parent"]
    BY <1>2, Databases DEF Fork, Claims
  <2> QED BY <1>2, <2>1, <2>2 DEF Fork, Owned
<1>3. ASSUME NEW p \in Process, Hand(p) \/ Run(p) PROVE Owned'
  BY <1>3, OwnedHand, OwnedRun
<1>4. ASSUME NEW p \in Process, Signal(p) PROVE Owned'
  BY <1>4, OwnedQuiet DEF Signal, Claims, pages, records
<1>5. ASSUME NEW p \in Process, Kill(p) PROVE Owned'
  <2>1. PICK q \in Process : q # p /\ Process = {p, q}
    OBVIOUS
  <2>2. Claims(p)' = {} /\ Claims(q)' = Claims(q)
    BY <1>5, <2>1 DEF Kill, Claims, pages, handing
  <2> QED BY <1>5, <2>1, <2>2 DEF Kill, Owned, pages
<1>6. CASE Other
  <2>1. Claims("parent")' = Claims("parent") /\ Claims("child")' = Claims("child")
    BY <1>6 DEF Other, OtherTakes, OtherGives, OtherLocks, OtherDrops, Claims, handing, pages
  <2>2. ASSUME NEW g \in Page, OtherTakes(g) \/ OtherGives(g) PROVE Owned'
    BY <2>1, <2>2 DEF OtherTakes, OtherGives, Owned, handing, past
  <2>3. ASSUME NEW l \in Lock, OtherLocks(l) \/ OtherDrops(l) PROVE Owned'
    BY <2>1, <2>3, OwnedQuiet DEF OtherLocks, OtherDrops, handing, past, pages
  <2> QED BY <1>6, <2>2, <2>3 DEF Other
<1> QED BY <1>1, <1>2, <1>3, <1>4, <1>5, <1>6 DEF Next

-----------------------------------------------------------------------------
(* Locks. *)

LEMMA RecordedHand ==
  ASSUME TypeOK, Turns, Recorded, ~struck, NEW p \in Process, Hand(p) PROVE Recorded'
<1> USE DEF TypeOK, Turns, P, C, Process, Recorded
<1>1. CASE p = "parent" /\ Flagged
  BY <1>1 DEF Flagged, LocksOf, records
<1>2. ASSUME p = "parent", NEW d \in Db, Clfork(d) PROVE Recorded'
  BY <1>2, Databases DEF Clfork, LocksOf
<1>3. ASSUME p = "parent", NEW l \in Lock, Transfer(l) PROVE Recorded'
  BY <1>3 DEF Transfer, handing
<1>4. CASE Awake
  BY <1>4 DEF Awake, records
<1>5. CASE Clear
  BY <1>5 DEF Clear, records
<1>6. ASSUME NEW l \in Lock, Ulock(p, l) PROVE Recorded'
  BY <1>6, Outside DEF Ulock, handing
<1>7. CASE Closedb(p)
  BY <1>7 DEF Closedb
<1>8. ASSUME NEW d \in Db, Cldbclose(p, d) PROVE Recorded'
  BY <1>8 DEF Cldbclose, records
<1>9. CASE Clunlock(p)
  BY <1>9 DEF Clunlock, records
<1> QED BY <1>1, <1>2, <1>3, <1>4, <1>5, <1>6, <1>7, <1>8, <1>9 DEF Hand

LEMMA RecordedStep ==
  ASSUME TypeOK, Turns, Recorded, Next, ~struck, ~struck' PROVE Recorded'
<1> USE DEF TypeOK, Turns, P, C, Process, Recorded
<1>1. CASE Cllock \/ ForkFails
  BY <1>1 DEF Cllock, ForkFails, records, handing
<1>2. CASE Fork
  BY <1>2, Databases DEF Fork
<1>3. ASSUME NEW p \in Process, Hand(p) PROVE Recorded'
  BY <1>3, RecordedHand
<1>4. ASSUME NEW p \in Process, NEW l \in Lock, TakeLock(p, l) \/ DropLock(p, l) PROVE Recorded'
  BY <1>4, Outside DEF TakeLock, DropLock, handing
<1>5. ASSUME NEW p \in Process, Exit(p) PROVE Recorded'
  BY <1>5 DEF Exit, records, handing
<1>6. CASE UNCHANGED <<pc, todo, now, locks, flag>>
  BY <1>6
<1>7. ASSUME NEW p \in Process, Run(p) PROVE Recorded'
  BY <1>4, <1>5, <1>6, <1>7 DEF Run, Capture, Replace, FreeList1
<1>8. ASSUME NEW p \in Process, Signal(p) PROVE Recorded'
  BY <1>8 DEF Signal, records
<1>9. ASSUME NEW p \in Process, Kill(p) PROVE Recorded'
  BY <1>9 DEF Kill, records, handing
<1>10. ASSUME NEW l \in Lock, OtherLocks(l) \/ OtherDrops(l) PROVE Recorded'
  BY <1>10, Outside DEF OtherLocks, OtherDrops, handing
<1>11. CASE Other
  BY <1>6, <1>10, <1>11 DEF Other, OtherTakes, OtherGives, handing, records
<1> QED BY <1>1, <1>2, <1>3, <1>7, <1>8, <1>9, <1>11 DEF Next

-----------------------------------------------------------------------------
(* The theorems. *)

LEMMA InvInit == Init => Inv
BY TypeInit DEF Init, Inv, Turns, Owned, Recorded, P, C, Claims, Process

LEMMA InvStep == Inv /\ [Next]_vars => Inv'
<1> SUFFICES ASSUME Inv, [Next]_vars PROVE Inv'
  OBVIOUS
<1>1. TypeOK'
  BY TypeStep DEF Inv
<1>2. CASE UNCHANGED vars
  BY <1>1, <1>2 DEF vars, Inv, Turns, Owned, Recorded, P, C, Claims, Process
<1>3. ASSUME Next, ~struck' PROVE Turns' /\ Owned' /\ Recorded'
  BY <1>3, Unstruck, TurnsStep, OwnedStep, RecordedStep DEF Inv
<1> QED BY <1>1, <1>2, <1>3 DEF Inv

THEOREM InvCorrect == Spec => []Inv
BY InvInit, InvStep, PTL DEF Spec

(* The variables of the hand-off keep their types, whatever strikes.          *)
THEOREM TypeCorrect == Spec => []TypeOK
BY TypeInit, TypeStep, PTL DEF Spec

(* Across the fork a page has one owner (clfork.c:72-76, pfork.c:45-53).       *)
THEOREM ExclusiveCorrect == Spec => []Exclusive
<1>1. Inv => Exclusive
  BY DEF Inv, Owned, Exclusive
<1> QED BY <1>1, InvCorrect, PTL

(* Nothing is lost in the hand-off, no lock of the program is free for another *)
(* at any moment, and parent and child never both work (clfork.c:19-79,       *)
(* cllock.c:12-45, pfork.c:28-70).                                            *)
THEOREM HandedOverCorrect == Spec => []HandedOver
<1>1. Inv => Conserved
  <2>1. TypeOK => free \cup used \cup Claims("parent") \cup Claims("child") \subseteq Page
    BY DEF TypeOK, Claims, Process
  <2> QED BY <2>1 DEF Inv, Owned, Conserved
<1>2. Inv => LocksFollow
  BY DEF Inv, Turns, Recorded, LocksFollow, P, C
<1>3. Inv => OneAtATime
  BY DEF Inv, Turns, OneAtATime, P, C
<1>4. Inv => HandedOver
  BY <1>1, <1>2, <1>3 DEF HandedOver
<1> QED BY <1>4, InvCorrect, PTL
=============================================================================
