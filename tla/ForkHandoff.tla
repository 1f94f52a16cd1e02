---------------------------- MODULE ForkHandoff ----------------------------
(* `fork` without a command: the program goes on in its child (pfork.c). The  *)
(* parent gives the child its record locks and the pages of SpareList, keeps  *)
(* those of PageList1 for its own close, and ends; the child waits at the file*)
(* /tmp/clfl<PID> till the parent has closed its databases. Until then each  *)
(* has a copy of both lists of every database.                               *)
EXTENDS Naturals

CONSTANTS Page, Db, DbOf,   \* pages, the open databases, the database a page is in
          Lock, LockDb,     \* record locks that can be taken, the database of each
          First,            \* the pages the trees have at first
          Nobody,
          Signals           \* whether SIGHUP and SIGTERM may come in the hand-off

ASSUME Databases == DbOf \in [Page -> Db] /\ LockDb \in [Lock -> Db]
ASSUME Firsts == First \subseteq Page /\ Signals \in BOOLEAN
ASSUME Outside == Nobody \notin {"parent", "child", "other"}

Process == {"parent", "child"}

VARIABLES pc,     \* where each process is
          free,   \* pages whose bit in the bitmap is clear
          used,   \* pages in the tree of a table, or in a list of another program
          spare, list1, \* SpareList and PageList1, of all databases, in each process
          todo,   \* databases flagcdb() has not come to
          now,    \* the databases it is at: locks of it are being transferred
          open,   \* databases cldbclose() has still to close, in each process
          locks,  \* the locks tables: the PID in each record
          flag,   \* locks a process takes for its own (LOCK in ttab[])
          file,   \* whether the lock file is there
          struck, \* history: a signal came while the hand-off went on
          killed  \* history: a process was killed

vars == <<pc, free, used, spare, list1, todo, now, open, locks, flag, file, struck, killed>>
pages == <<free, used, spare, list1>>
records == <<locks, flag>>
handing == <<todo, now, open, file>>
past == <<struck, killed>>

PagesOf(d) == {g \in Page : DbOf[g] = d}
LocksOf(d) == {l \in Lock : LockDb[l] = d}

Init == /\ pc = [parent |-> "run", child |-> "none"]
        /\ used = First /\ free = Page \ First
        /\ spare = [p \in Process |-> {}] /\ list1 = [p \in Process |-> {}]
        /\ todo = {} /\ now = {} /\ open = [p \in Process |-> {}]
        /\ locks = [l \in Lock |-> Nobody] /\ flag = [p \in Process |-> {}]
        /\ file = FALSE /\ struck = FALSE /\ killed = FALSE
-----------------------------------------------------------------------------
(***************************************************************************)
(* What a program does while it runs; what it writes to the locks table in    *)
(* the hand-off and when it closes are updates as well.                      *)
(***************************************************************************)
Updating(p, d) == \/ pc[p] = "run"
                  \/ p = "parent" /\ pc[p] = "flag" /\ d \in now
                  \/ pc[p] = "ulock"

Capture(p, g) == /\ Updating(p, DbOf[g]) /\ g \in free
                 /\ free' = free \ {g} /\ spare' = [spare EXCEPT ![p] = @ \cup {g}]
                 /\ UNCHANGED <<pc, used, list1, todo, now, open, locks, flag, file, struck, killed>>

(* An update puts a page of SpareList into a tree; the one it replaces goes   *)
(* to PageList1.                                                             *)
Replace(p, g, old) ==
  /\ Updating(p, DbOf[g]) /\ g \in spare[p] /\ old \in used /\ DbOf[old] = DbOf[g]
  /\ used' = (used \ {old}) \cup {g}
  /\ spare' = [spare EXCEPT ![p] = @ \ {g}]
  /\ list1' = [list1 EXCEPT ![p] = @ \cup {old}]
  /\ UNCHANGED <<pc, free, todo, now, open, locks, flag, file, struck, killed>>

FreeList1(p, d) ==
  /\ Updating(p, d) /\ list1[p] \cap PagesOf(d) # {}
  /\ free' = free \cup (list1[p] \cap PagesOf(d))
  /\ list1' = [list1 EXCEPT ![p] = @ \ PagesOf(d)]
  /\ UNCHANGED <<pc, used, spare, todo, now, open, locks, flag, file, struck, killed>>

TakeLock(p, l) == /\ pc[p] = "run" /\ locks[l] = Nobody
                  /\ locks' = [locks EXCEPT ![l] = p] /\ flag' = [flag EXCEPT ![p] = @ \cup {l}]
                  /\ UNCHANGED <<pc, handing, past, pages>>

(* ulckrec() believes the flag; _ulockr() deletes the record it finds. *)
DropLock(p, l) == /\ pc[p] = "run" /\ l \in flag[p]
                  /\ locks' = [locks EXCEPT ![l] = Nobody] /\ flag' = [flag EXCEPT ![p] = @ \ {l}]
                  /\ UNCHANGED <<pc, handing, past, pages>>

(* Other programs share the volumes and the locks tables. *)
OtherTakes(g) == /\ g \in free /\ free' = free \ {g} /\ used' = used \cup {g}
                 /\ UNCHANGED <<pc, handing, records, past, spare, list1>>
OtherGives(g) == /\ g \in used /\ used' = used \ {g} /\ free' = free \cup {g}
                 /\ UNCHANGED <<pc, handing, records, past, spare, list1>>
OtherLocks(l) == /\ locks[l] = Nobody /\ locks' = [locks EXCEPT ![l] = "other"]
                 /\ UNCHANGED <<pc, handing, flag, past, pages>>
OtherDrops(l) == /\ locks[l] = "other" /\ locks' = [locks EXCEPT ![l] = Nobody]
                 /\ UNCHANGED <<pc, handing, flag, past, pages>>
-----------------------------------------------------------------------------
(***************************************************************************)
(* The hand-off, by the parent.                                             *)
(***************************************************************************)
(* cllock(getpid()): the file may be there from a fork that failed. *)
Cllock == /\ pc["parent"] = "run" /\ pc["child"] = "none"
          /\ file' = TRUE /\ pc' = [pc EXCEPT !["parent"] = "locked"]
          /\ UNCHANGED <<todo, now, open, records, past, pages>>

ForkFails == /\ pc["parent"] = "locked" /\ pc' = [pc EXCEPT !["parent"] = "run"]
             /\ UNCHANGED <<handing, records, past, pages>>

(* The child is a copy of the parent, its lists and flags too. *)
Fork == /\ pc["parent"] = "locked"
        /\ pc' = [parent |-> "flag", child |-> "wait"]
        /\ spare' = [p \in Process |-> spare["parent"]]
        /\ list1' = [p \in Process |-> list1["parent"]]
        /\ flag' = [p \in Process |-> flag["parent"]]
        /\ todo' = Db /\ now' = {}
        /\ UNCHANGED <<free, used, open, locks, file, struck, killed>>

(* mutant: the SpareList is left to both *)
ClforkKept(d) ==
  /\ pc["parent"] = "flag" /\ d \in todo
  /\ \A e \in now : \A l \in LocksOf(e) : locks[l] # "parent"
  /\ todo' = todo \ {d} /\ now' = {d} /\ UNCHANGED spare
  /\ UNCHANGED <<pc, free, used, list1, open, locks, flag, file, struck, killed>>

(* flagcdb(0, child) comes to a database when the locks of the one before are  *)
(* transferred; clfork() empties its SpareList.                              *)
Clfork(d) ==
  /\ pc["parent"] = "flag" /\ d \in todo
  /\ \A e \in now : \A l \in LocksOf(e) : locks[l] # "parent"
  /\ spare' = [spare EXCEPT !["parent"] = @ \ PagesOf(d)]
  /\ todo' = todo \ {d} /\ now' = {d}
  /\ UNCHANGED <<pc, free, used, list1, open, locks, flag, file, struck, killed>>

(* _ltransfer() puts the record again, with the PID of the child. *)
Transfer(l) ==
  /\ pc["parent"] = "flag" /\ LockDb[l] \in now /\ locks[l] = "parent"
  /\ locks' = [locks EXCEPT ![l] = "child"]
  /\ UNCHANGED <<pc, handing, flag, past, pages>>

(* mutant: the locks of the last database are left to the parent *)
FlaggedEarly == /\ pc["parent"] = "flag" /\ todo = {}
                /\ pc' = [pc EXCEPT !["parent"] = "ulock"] /\ now' = {}
                /\ UNCHANGED <<todo, open, file, records, past, pages>>

(* longjmp(sjbuf, 1) *)
Flagged == /\ pc["parent"] = "flag" /\ todo = {}
           /\ \A e \in now : \A l \in LocksOf(e) : locks[l] # "parent"
           /\ pc' = [pc EXCEPT !["parent"] = "ulock"] /\ now' = {}
           /\ UNCHANGED <<todo, open, file, records, past, pages>>

(***************************************************************************)
(* The child: cllock(0) makes the file as soon as it is gone, clunlock()      *)
(* removes it, flagcdb(1, 0) empties PageList1.                              *)
(***************************************************************************)
Awake == /\ pc["child"] = "wait" /\ ~file
         /\ file' = TRUE /\ pc' = [pc EXCEPT !["child"] = "clear"]
         /\ UNCHANGED <<todo, now, open, records, past, pages>>

Clear == /\ pc["child"] = "clear"
         /\ file' = FALSE /\ list1' = [list1 EXCEPT !["child"] = {}]
         /\ pc' = [pc EXCEPT !["child"] = "run"]
         /\ UNCHANGED <<free, used, spare, todo, now, open, records, past>>
-----------------------------------------------------------------------------
(***************************************************************************)
(* The end of a process: closedb(0), then clunlock().                        *)
(***************************************************************************)
Exit(p) == /\ pc[p] = "run" /\ pc' = [pc EXCEPT ![p] = "ulock"]
           /\ UNCHANGED <<handing, records, past, pages>>

(* A signal leaves whatever runs by longjmp; signals are ignored afterwards.  *)
(* Outside the hand-off it does what Exit does.                              *)
Signal(p) == /\ Signals /\ pc[p] \in {"locked", "flag", "wait", "clear"}
             /\ pc' = [pc EXCEPT ![p] = "ulock"]
             /\ struck' = (struck \/ pc[p] # "locked")
             /\ now' = IF p = "parent" THEN {} ELSE now
             /\ UNCHANGED <<todo, open, file, records, killed, pages>>

(* Kills at other times are in modules PageSpace and RecordLock. *)
Kill(p) == /\ Signals /\ ~struck /\ pc["child"] \in {"wait", "clear"}
           /\ pc[p] \notin {"gone", "dead"}
           /\ pc' = [pc EXCEPT ![p] = "dead"] /\ killed' = TRUE
           /\ UNCHANGED <<handing, records, struck, pages>>

(* ulockall() deletes the records with the PID of the process. *)
Ulock(p, l) == /\ pc[p] = "ulock" /\ locks[l] = p
               /\ locks' = [locks EXCEPT ![l] = Nobody]
               /\ UNCHANGED <<pc, handing, flag, past, pages>>

Closedb(p) == /\ pc[p] = "ulock" /\ \A l \in Lock : locks[l] # p
              /\ pc' = [pc EXCEPT ![p] = "close"] /\ open' = [open EXCEPT ![p] = Db]
              /\ flag' = [flag EXCEPT ![p] = {}]
              /\ UNCHANGED <<todo, now, file, locks, past, pages>>

(* cldbclose() frees what is in both lists. *)
Cldbclose(p, d) ==
  /\ pc[p] = "close" /\ d \in open[p]
  /\ free' = free \cup ((spare[p] \cup list1[p]) \cap PagesOf(d))
  /\ spare' = [spare EXCEPT ![p] = @ \ PagesOf(d)]
  /\ list1' = [list1 EXCEPT ![p] = @ \ PagesOf(d)]
  /\ open' = [open EXCEPT ![p] = @ \ {d}]
  /\ UNCHANGED <<pc, used, todo, now, records, file, past>>

(* mutant: the file is left *)
ClunlockNot(p) == /\ pc[p] = "close" /\ open[p] = {}
                  /\ pc' = [pc EXCEPT ![p] = "gone"]
                  /\ UNCHANGED <<todo, now, open, file, records, past, pages>>

(* clunlock() *)
Clunlock(p) == /\ pc[p] = "close" /\ open[p] = {}
               /\ pc' = [pc EXCEPT ![p] = "gone"] /\ file' = FALSE
               /\ UNCHANGED <<todo, now, open, records, past, pages>>
-----------------------------------------------------------------------------
Hand(p) == \/ p = "parent" /\ (Flagged \/ \E d \in Db : Clfork(d))
           \/ p = "parent" /\ \E l \in Lock : Transfer(l)
           \/ p = "child" /\ (Awake \/ Clear)
           \/ \E l \in Lock : Ulock(p, l)
           \/ Closedb(p)
           \/ \E d \in Db : Cldbclose(p, d)
           \/ Clunlock(p)

Run(p) == \/ \E g \in Page : Capture(p, g)
          \/ \E g, old \in Page : Replace(p, g, old)
          \/ \E d \in Db : FreeList1(p, d)
          \/ \E l \in Lock : TakeLock(p, l) \/ DropLock(p, l)
          \/ Exit(p)

Other == \/ \E g \in Page : OtherTakes(g) \/ OtherGives(g)
         \/ \E l \in Lock : OtherLocks(l) \/ OtherDrops(l)

Next == \/ Cllock \/ ForkFails \/ Fork
        \/ \E p \in Process : Hand(p) \/ Run(p) \/ Signal(p) \/ Kill(p)
        \/ Other

Spec == Init /\ [][Next]_vars

(* The machine runs both processes; which command a program runs next is its  *)
(* own affair, but one it has begun goes on.                                  *)
FairSpec == Spec /\ \A p \in Process : WF_vars(Hand(p))
-----------------------------------------------------------------------------
Stages == {"none", "run", "locked", "flag", "wait", "clear", "ulock", "close", "gone", "dead"}

TypeOK ==
  /\ pc \in [Process -> Stages]
  /\ free \subseteq Page /\ used \subseteq Page
  /\ spare \in [Process -> SUBSET Page] /\ list1 \in [Process -> SUBSET Page]
  /\ todo \subseteq Db /\ now \subseteq Db /\ open \in [Process -> SUBSET Db]
  /\ locks \in [Lock -> {"parent", "child", "other", Nobody}]
  /\ flag \in [Process -> SUBSET Lock]
  /\ file \in BOOLEAN /\ struck \in BOOLEAN /\ killed \in BOOLEAN

(* The pages a process would still use or free. What the parent has not yet    *)
(* taken out of its SpareList is the child's, and PageList1 is the parent's.   *)
Claims(p) ==
  CASE pc[p] = "dead" -> {}
    [] p = "parent" /\ pc[p] = "flag" ->
         {g \in spare[p] : DbOf[g] \notin todo} \cup list1[p]
    [] p = "child" /\ pc[p] \in {"wait", "clear"} -> spare[p]
    [] OTHER -> spare[p] \cup list1[p]

(* Across the fork, the closes of both processes and whatever other programs   *)
(* do, a page has one owner: it is free, or used, or in one list of one       *)
(* process (clfork.c:72-76, pfork.c:45-53). Freed twice, it would be cleared  *)
(* under the program that has captured it in between. A signal that ends the  *)
(* parent before flagcdb() is through, or the child before it is awake, has    *)
(* each close what the other has too.                                        *)
Exclusive ==
  ~struck => /\ free \cap used = {}
             /\ Claims("parent") \cap Claims("child") = {}
             /\ \A p \in Process : /\ Claims(p) \cap (free \cup used) = {}
                                   /\ pc[p] \notin {"wait", "clear"} => spare[p] \cap list1[p] = {}

(* No page is lost by the fork either, unless a process is killed. *)
Conserved ==
  ~struck /\ ~killed => Page = free \cup used \cup Claims("parent") \cup Claims("child")

(* The locks the program had at the fork are at no time free for another, and *)
(* the child starts with all of them: what its flags call its own has its PID  *)
(* in the locks table, and none of the parent's is left (clfork.c:46-50).      *)
LocksFollow ==
  ~struck =>
    /\ pc["child"] = "wait" => \A l \in flag["child"] : locks[l] \in Process
    /\ pc["child"] \in {"clear", "run"} =>
         /\ \A l \in flag["child"] : locks[l] = "child"
         /\ \A l \in Lock : locks[l] # "parent"

(* The two share one file offset per database: while the child works on the   *)
(* files the parent is through with them (cllock.c:22-33).                    *)
OneAtATime == ~struck /\ ~killed /\ pc["child"] \in {"clear", "run", "ulock", "close"}
                => pc["parent"] = "gone"

(* The hand-off as a whole: no page is lost, no lock is free in between, and   *)
(* the two processes never work on the files together (pfork.c:28-70).        *)
HandedOver == Conserved /\ LocksFollow /\ OneAtATime

(* The child comes to run, unless a signal ends one of the two before; a       *)
(* parent that is killed leaves it at the file for ever.                      *)
ChildRuns == (pc["child"] = "wait") ~> (pc["child"] # "wait" \/ killed)
=============================================================================
