----------------------------- MODULE PageSpace -----------------------------
(***************************************************************************)
(* Allocation of database pages (Ccl4src/captur.c, mkfree.c, repos.c,      *)
(* balanc.c, clrtab.c, dbclos.c).                                          *)
(*                                                                         *)
(* A volume is a file of DBmaxpages pages with one allocation bit for each *)
(* page.  Every process that has it open keeps, in its DBinfo, a SpareList *)
(* of pages whose bits it has set but that no tree uses yet, a PageList2   *)
(* of pages the running update has replaced, and a PageList1 of pages      *)
(* replaced by earlier updates: these stay allocated for a while, because  *)
(* readers take no lock.  The bitmap is read and rewritten slab by slab    *)
(* under a one-byte lockf lock; an update of a table runs under another.   *)
(*                                                                         *)
(* The order of the entries of a page list is abstracted: lists are sets.  *)
(* PageList3 is read only by undo(), which cannot run because _lockpg()    *)
(* always succeeds; `made' holds its pages and those of freshnode().       *)
(***************************************************************************)
EXTENDS Integers, FiniteSets

CONSTANTS
    Proc,        \* processes that open the volume
    Table,       \* its tables
    LockTable,   \* the table "locks" of record locks
    None,        \* no process, no table
    MaxPage,     \* DBmaxpages
    ByteBits,    \* bits of a bitmap byte: 8 in the code
    SlabBytes,   \* bytes of the bitmap handled at a time: 2048 in the code
    NSpare,      \* _nspare: pages getspare() asks for
    SpareCap,    \* pages SpareList holds: 32 in the code
    List1Cap,    \* pages PageList1 holds: 15 in the code
    List2Cap,    \* pages PageList2 holds: 13 in the code
    SystemPages, \* header, bitmap and table descriptions, never in a tree
    FirstTree,   \* the pages of each table when the volume is first opened
    FirstSpare,  \* SpareList of a volume newfdf() made, {} for a shared one
    Private,     \* TRUE for the volume of a temporary table
    Bracketed,   \* the program says `hangup = 2' before it updates
    MaxKills,    \* bound on the kills from outside
    MaxSignals   \* bound on the signals

-----------------------------------------------------------------------------
(* The geometry of the bitmap. *)

ExistingPages == 0 .. MaxPage - 1
BitMapBytes == (MaxPage + ByteBits - 1) \div ByteBits
BitPages == 0 .. ByteBits * BitMapBytes - 1
LastSlab == ((BitMapBytes + SlabBytes - 1) \div SlabBytes) - 1
SlabPages(c) == {n \in BitPages : n \div (ByteBits * SlabBytes) = c}

(* v14, the bits of the last byte that getspare() leaves alone. *)
Masked == {n \in BitPages :
             n >= ByteBits * BitMapBytes - (ByteBits - (MaxPage % ByteBits))}

(* The pages findspace() takes: the lowest k of those whose bit is clear. *)
Lowest(S, k) == {n \in S : Cardinality({m \in S : m < n}) < k}

Smaller(a, b) == IF a < b THEN a ELSE b

(* Pages have one owner to begin with, and the bits that getspare() masks   *)
(* are clear; the volume of a temporary table belongs to one process.      *)
ASSUME ConstantAssumption ==
    /\ None \notin Proc /\ None \notin Table
    /\ LockTable \in Table
    /\ MaxPage \in Nat \ {0} /\ ByteBits \in Nat \ {0} /\ SlabBytes \in Nat \ {0}
    /\ NSpare \in Nat \ {0} /\ SpareCap \in Nat \ {0}
    /\ List1Cap \in Nat /\ List2Cap \in Nat /\ List2Cap =< List1Cap
    /\ SystemPages \subseteq 0 .. MaxPage - 1
    /\ FirstTree \in [Table -> SUBSET (0 .. MaxPage - 1)]
    /\ FirstSpare \subseteq 0 .. MaxPage - 1
    /\ Cardinality(FirstSpare) =< SpareCap
    /\ FirstSpare \cap SystemPages = {}
    /\ \A t \in Table : FirstTree[t] \cap (SystemPages \cup FirstSpare) = {}
    /\ \A t, u \in Table : t # u => FirstTree[t] \cap FirstTree[u] = {}
    /\ (SystemPages \cup FirstSpare) \cap Masked = {}
    /\ \A t \in Table : FirstTree[t] \cap Masked = {}
    /\ Private \in BOOLEAN /\ Bracketed \in BOOLEAN
    /\ Private => \E p \in Proc : Proc = {p}
    /\ ~Private => FirstSpare = {}
    /\ MaxKills \in Nat /\ MaxSignals \in Nat

-----------------------------------------------------------------------------
VARIABLES
    bitmap,   \* pages whose bit is set, on disk
    mapLock,  \* holder of the lock on the bitmap
    tblLock,  \* holder of the lock emark() takes, for each table
    tree,     \* pages reachable from the header of each table, on disk
    spare,    \* SpareList of each process
    list1,    \* PageList1
    list2,    \* PageList2
    made,     \* pages written or about to be written by the running update
    cut,      \* pages of the old tree that the nodes in memory leave out
    freeing,  \* the list _mkfree() is working on, less the slabs done
    pending,  \* pages _sparetree() has still to visit
    pc,       \* what each process is doing
    ret,      \* where _mkfree() returns to
    back,     \* where _update() returns to
    cur,      \* the table being updated, None between updates
    slab,     \* the slab of the bitmap in the buffer
    buf,      \* the buffer of getspare() and _mkfree()
    hangup,   \* the program variable HANGUP, 1 or 2
    seen,     \* sigSeen: a signal that waits for HANGUP to become 1
    kills,    \* kills from outside so far (history, for the bound)
    signs,    \* signals so far (history, for the bound)
    lost      \* pages no list of a live process records (history)

disk    == <<bitmap, tree>>
locks   == <<mapLock, tblLock>>
lists   == <<spare, list1, list2, made, cut, freeing, pending>>
control == <<pc, ret, back, cur, slab, buf>>
signals == <<hangup, seen>>
ghosts  == <<kills, signs, lost>>
vars    == <<disk, locks, lists, control, signals, ghosts>>

Bitmapping == {"gsRead", "gsWrite", "gsDone", "mkRead", "mkWrite"}
Changing   == {"update", "capture", "gsRead", "gsWrite", "gsDone"}
States     == Bitmapping \cup Changing \cup
              {"closed", "idle", "putchange", "sparing", "unlocking", "closing"}

TypeOK ==
    /\ bitmap \subseteq ExistingPages
    /\ mapLock \in Proc \cup {None}
    /\ tblLock \in [Table -> Proc \cup {None}]
    /\ tree \in [Table -> SUBSET ExistingPages]
    /\ spare \in [Proc -> SUBSET ExistingPages]
    /\ list1 \in [Proc -> SUBSET ExistingPages]
    /\ list2 \in [Proc -> SUBSET ExistingPages]
    /\ made \in [Proc -> SUBSET ExistingPages]
    /\ cut \in [Proc -> SUBSET ExistingPages]
    /\ freeing \in [Proc -> SUBSET ExistingPages]
    /\ pending \in [Proc -> SUBSET ExistingPages]
    /\ pc \in [Proc -> States]
    /\ ret \in [Proc -> {"putchange", "closing", "sparing"}]
    /\ back \in [Proc -> {"idle", "unlocking"}]
    /\ cur \in [Proc -> Table \cup {None}]
    /\ slab \in [Proc -> Nat]
    /\ buf \in [Proc -> SUBSET ExistingPages]
    /\ hangup \in [Proc -> {1, 2}]
    /\ seen \in [Proc -> BOOLEAN]
    /\ kills \in 0 .. MaxKills
    /\ signs \in 0 .. MaxSignals
    /\ lost \subseteq ExistingPages

Init ==
    /\ bitmap = SystemPages \cup FirstSpare \cup UNION {FirstTree[t] : t \in Table}
    /\ mapLock = None
    /\ tblLock = [t \in Table |-> None]
    /\ tree = FirstTree
    /\ spare = [p \in Proc |-> FirstSpare]
    /\ list1 = [p \in Proc |-> {}]
    /\ list2 = [p \in Proc |-> {}]
    /\ made = [p \in Proc |-> {}]
    /\ cut = [p \in Proc |-> {}]
    /\ freeing = [p \in Proc |-> {}]
    /\ pending = [p \in Proc |-> {}]
    /\ pc = [p \in Proc |-> "idle"]
    /\ ret = [p \in Proc |-> "closing"]
    /\ back = [p \in Proc |-> "idle"]
    /\ cur = [p \in Proc |-> None]
    /\ slab = [p \in Proc |-> 0]
    /\ buf = [p \in Proc |-> {}]
    /\ hangup = [p \in Proc |-> 1]
    /\ seen = [p \in Proc |-> FALSE]
    /\ kills = 0
    /\ signs = 0
    /\ lost = {}

(* Mutant: the bitmap is not locked. *)
NoMapLock(p) == mapLock \in Proc \cup {None}

(* lockf() grants a byte its own process holds already. *)
MapFree(p) == mapLock \in {None, p}
TableFree(p, t) == tblLock[t] \in {None, p}

(* p is between the emark() and the ewake() of an update. *)
Updating(p) ==
    \/ pc[p] \in Changing \cup {"putchange"}
    \/ pc[p] \in {"mkRead", "mkWrite"} /\ ret[p] = "putchange"

Goto(p, l) == pc' = [pc EXCEPT ![p] = l]

-----------------------------------------------------------------------------
(* _capture() and getspare(). *)

(* The first half of getspare(): the lock is taken, the loop begins.  It   *)
(* is called when an update needs a page and SpareList is empty.           *)
Getspare(p) ==
    /\ pc[p] = "update" /\ spare[p] = {} /\ MapFree(p)
    /\ mapLock' = p
    /\ slab' = [slab EXCEPT ![p] = 0]
    /\ Goto(p, "gsRead")
    /\ UNCHANGED <<disk, tblLock, lists, ret, back, cur, buf, signals, ghosts>>

GetspareRead(p) ==
    /\ pc[p] = "gsRead"
    /\ buf' = [buf EXCEPT ![p] = bitmap \cap SlabPages(slab[p])]
    /\ Goto(p, "gsWrite")
    /\ UNCHANGED <<disk, locks, lists, ret, back, cur, slab, signals, ghosts>>

(* Mutant: the mask of the last byte is applied to every byte. *)
ClearInside(p) ==
    SlabPages(slab[p]) \ (buf[p] \cup {n \in BitPages :
                                          n % ByteBits >= MaxPage % ByteBits})

(* The bits findspace() finds clear in the buffer: those of the last byte  *)
(* that the mask covers look set.                                          *)
Clear(p) ==
    SlabPages(slab[p]) \ (buf[p] \cup IF slab[p] = LastSlab THEN Masked ELSE {})

Wanted(p) == Smaller(NSpare, SpareCap) - Cardinality(spare[p])

(* findspace() on the buffer, and the write of the buffer when it found    *)
(* some: the masked bits of the last byte are written as zero.             *)
GetspareWrite(p) ==
    LET found == Lowest(Clear(p), Wanted(p))
        after == (buf[p] \cup found)
                    \ (IF slab[p] = LastSlab THEN Masked ELSE {})
    IN  /\ pc[p] = "gsWrite"
        /\ bitmap' = IF found = {} THEN bitmap
                     ELSE (bitmap \ SlabPages(slab[p])) \cup after
        /\ spare' = [spare EXCEPT ![p] = @ \cup found]
        /\ buf' = [buf EXCEPT ![p] = {}]
        /\ IF slab[p] = LastSlab \/ Cardinality(found) = Wanted(p)
           THEN /\ Goto(p, "gsDone")
                /\ slab' = [slab EXCEPT ![p] = 0]
           ELSE /\ Goto(p, "gsRead")
                /\ slab' = [slab EXCEPT ![p] = @ + 1]
        /\ UNCHANGED <<tree, locks, list1, list2, made, cut, freeing, pending,
                       ret, back, cur, signals, ghosts>>

(* Mutant: the lock is kept. *)
GetspareKeepsLock(p) ==
    /\ pc[p] = "gsDone" /\ spare[p] # {}
    /\ Goto(p, "capture")
    /\ UNCHANGED <<disk, locks, lists, ret, back, cur, slab, buf, signals, ghosts>>

(* The lock is released; _capture() then takes the head of the list. *)
GetspareEnd(p) ==
    /\ pc[p] = "gsDone" /\ spare[p] # {}
    /\ mapLock' = None
    /\ Goto(p, "capture")
    /\ UNCHANGED <<disk, tblLock, lists, ret, back, cur, slab, buf, signals, ghosts>>

-----------------------------------------------------------------------------
(* A process that dies, by derror() or from outside, forgets its lists and *)
(* loses its lockf locks; bits and trees stay as they are on disk.         *)

(* What PageList2 has that is no longer in a tree: the pages of an update  *)
(* that has published its tree.                                            *)
Replaced(p) == IF pc[p] \in Changing THEN {} ELSE list2[p]

Held(p) == spare[p] \cup list1[p] \cup made[p] \cup freeing[p]
               \cup pending[p] \cup Replaced(p)

(* Control goes to l and the locals of the functions left are gone. *)
Leave(p, l) ==
    /\ Goto(p, l)
    /\ ret' = [ret EXCEPT ![p] = "closing"]
    /\ back' = [back EXCEPT ![p] = "idle"]
    /\ cur' = [cur EXCEPT ![p] = None]
    /\ slab' = [slab EXCEPT ![p] = 0]
    /\ buf' = [buf EXCEPT ![p] = {}]

(* The process is gone, and the pages of S with it. *)
Forget(p, S) ==
    /\ lost' = lost \cup S
    /\ spare' = [spare EXCEPT ![p] = {}]
    /\ list1' = [list1 EXCEPT ![p] = {}]
    /\ list2' = [list2 EXCEPT ![p] = {}]
    /\ made' = [made EXCEPT ![p] = {}]
    /\ cut' = [cut EXCEPT ![p] = {}]
    /\ freeing' = [freeing EXCEPT ![p] = {}]
    /\ pending' = [pending EXCEPT ![p] = {}]
    /\ mapLock' = IF mapLock = p THEN None ELSE mapLock
    /\ tblLock' = [t \in Table |-> IF tblLock[t] = p THEN None ELSE tblLock[t]]
    /\ hangup' = [hangup EXCEPT ![p] = 1]
    /\ seen' = [seen EXCEPT ![p] = FALSE]
    /\ Leave(p, "closed")
    /\ UNCHANGED disk

(* derror(42): getspare() found no page. *)
OutOfSpace(p) ==
    /\ pc[p] = "gsDone" /\ spare[p] = {}
    /\ Forget(p, Held(p))
    /\ UNCHANGED <<kills, signs>>

Kill(p) ==
    /\ pc[p] # "closed" /\ kills < MaxKills
    /\ Forget(p, Held(p))
    /\ kills' = kills + 1
    /\ UNCHANGED signs

-----------------------------------------------------------------------------
(* _update() and _balance(): pages of the table are replaced by copies and *)
(* by new pages until one write, of a page in place or of the header,      *)
(* makes the new tree the table.                                           *)

Begin(p, t) ==
    /\ \/ pc[p] = "idle" /\ (Bracketed => hangup[p] = 2)
       \/ pc[p] = "unlocking" /\ t = LockTable /\ ~Private
    /\ TableFree(p, t)
    /\ tblLock' = [tblLock EXCEPT ![t] = p]
    /\ cur' = [cur EXCEPT ![p] = t]
    /\ back' = [back EXCEPT ![p] = pc[p]]
    /\ Goto(p, "update")
    /\ UNCHANGED <<disk, mapLock, lists, ret, slab, buf, signals, ghosts>>

(* A record to delete is not there, or a record lock is refused. *)
NothingToDo(p) ==
    /\ pc[p] = "update" /\ made[p] = {} /\ cut[p] = {}
    /\ tblLock' = [tblLock EXCEPT ![cur[p]] = None]
    /\ Leave(p, back[p])
    /\ UNCHANGED <<disk, mapLock, lists, signals, ghosts>>

(* Mutant: the page stays in SpareList. *)
FreshnodeTwice(p) ==
    /\ pc[p] \in {"update", "capture"}
    /\ \E n \in spare[p] : made' = [made EXCEPT ![p] = @ \cup {n}]
    /\ Goto(p, "update")
    /\ UNCHANGED <<disk, locks, spare, list1, list2, cut, freeing, pending,
                   ret, back, cur, slab, buf, signals, ghosts>>

(* freshnode(), for a new leaf, a new sibling or a new root. *)
Freshnode(p) ==
    /\ pc[p] \in {"update", "capture"}
    /\ \E n \in spare[p] :
          /\ spare' = [spare EXCEPT ![p] = @ \ {n}]
          /\ made' = [made EXCEPT ![p] = @ \cup {n}]
    /\ Goto(p, "update")
    /\ UNCHANGED <<disk, locks, list1, list2, cut, freeing, pending,
                   ret, back, cur, slab, buf, signals, ghosts>>

(* _repos(): the node goes to a new page, its old page to PageList2. *)
Repos(p) ==
    /\ pc[p] \in {"update", "capture"} /\ Cardinality(list2[p]) < List2Cap
    /\ \E n \in spare[p], old \in tree[cur[p]] \ cut[p] :
          /\ spare' = [spare EXCEPT ![p] = @ \ {n}]
          /\ made' = [made EXCEPT ![p] = @ \cup {n}]
          /\ list2' = [list2 EXCEPT ![p] = @ \cup {old}]
          /\ cut' = [cut EXCEPT ![p] = @ \cup {old}]
    /\ Goto(p, "update")
    /\ UNCHANGED <<disk, locks, list1, freeing, pending,
                   ret, back, cur, slab, buf, signals, ghosts>>

(* A node merged into its sibling, or a root left without keys. *)
Retire(p) ==
    /\ pc[p] = "update" /\ Cardinality(list2[p]) < List2Cap
    /\ \E old \in tree[cur[p]] \ cut[p] :
          /\ list2' = [list2 EXCEPT ![p] = @ \cup {old}]
          /\ cut' = [cut EXCEPT ![p] = @ \cup {old}]
    /\ UNCHANGED <<disk, locks, spare, list1, made, freeing, pending,
                   control, signals, ghosts>>

(* The write that publishes the new tree. *)
Publish(p) ==
    /\ pc[p] = "update"
    /\ tree' = [tree EXCEPT ![cur[p]] = (@ \ cut[p]) \cup made[p]]
    /\ made' = [made EXCEPT ![p] = {}]
    /\ cut' = [cut EXCEPT ![p] = {}]
    /\ Goto(p, "putchange")
    /\ UNCHANGED <<bitmap, locks, spare, list1, list2, freeing, pending,
                   ret, back, cur, slab, buf, signals, ghosts>>

(* _mkfree() is called on a list and will return to l. *)
StartMkfree(p, S, l) ==
    /\ MapFree(p)
    /\ mapLock' = p
    /\ freeing' = [freeing EXCEPT ![p] = S]
    /\ ret' = [ret EXCEPT ![p] = l]
    /\ slab' = [slab EXCEPT ![p] = 0]
    /\ Goto(p, "mkRead")

(* putchange() when PageList1 has no room: its pages are freed first. *)
PutchangeFull(p) ==
    /\ pc[p] = "putchange"
    /\ Cardinality(list1[p]) + Cardinality(list2[p]) > List1Cap
    /\ StartMkfree(p, list1[p], "putchange")
    /\ list1' = [list1 EXCEPT ![p] = {}]
    /\ UNCHANGED <<disk, tblLock, spare, list2, made, cut, pending,
                   back, cur, buf, signals, ghosts>>

(* Mutant: one page too many is let in. *)
PutchangeLate(p) ==
    /\ pc[p] = "putchange"
    /\ Cardinality(list1[p]) + Cardinality(list2[p]) =< List1Cap + 1
    /\ list1' = [list1 EXCEPT ![p] = @ \cup list2[p]]
    /\ list2' = [list2 EXCEPT ![p] = {}]
    /\ tblLock' = [tblLock EXCEPT ![cur[p]] = None]
    /\ Leave(p, back[p])
    /\ UNCHANGED <<disk, mapLock, spare, made, cut, freeing, pending,
                   signals, ghosts>>

(* Mutant: PageList2 is copied over PageList1. *)
PutchangeOver(p) ==
    /\ pc[p] = "putchange"
    /\ Cardinality(list1[p]) + Cardinality(list2[p]) =< List1Cap
    /\ list1' = [list1 EXCEPT ![p] = list2[p]]
    /\ list2' = [list2 EXCEPT ![p] = {}]
    /\ tblLock' = [tblLock EXCEPT ![cur[p]] = None]
    /\ Leave(p, back[p])
    /\ UNCHANGED <<disk, mapLock, spare, made, cut, freeing, pending,
                   signals, ghosts>>

(* putchange() when it has, and the ewake() that ends the update. *)
Putchange(p) ==
    /\ pc[p] = "putchange"
    /\ Cardinality(list1[p]) + Cardinality(list2[p]) =< List1Cap
    /\ list1' = [list1 EXCEPT ![p] = @ \cup list2[p]]
    /\ list2' = [list2 EXCEPT ![p] = {}]
    /\ tblLock' = [tblLock EXCEPT ![cur[p]] = None]
    /\ Leave(p, back[p])
    /\ UNCHANGED <<disk, mapLock, spare, made, cut, freeing, pending,
                   signals, ghosts>>

-----------------------------------------------------------------------------
(* _mkfree(): slab after slab is read, cleared and written. *)

MkfreeRead(p) ==
    /\ pc[p] = "mkRead"
    /\ buf' = [buf EXCEPT ![p] = bitmap \cap SlabPages(slab[p])]
    /\ Goto(p, "mkWrite")
    /\ UNCHANGED <<disk, locks, lists, ret, back, cur, slab, signals, ghosts>>

MkfreeWrite(p) ==
    LET here == freeing[p] \cap SlabPages(slab[p])
    IN  /\ pc[p] = "mkWrite"
        /\ bitmap' = IF here = {} THEN bitmap
                     ELSE (bitmap \ SlabPages(slab[p])) \cup (buf[p] \ here)
        /\ freeing' = [freeing EXCEPT ![p] = @ \ here]
        /\ buf' = [buf EXCEPT ![p] = {}]
        /\ IF slab[p] = LastSlab
           THEN /\ mapLock' = None
                /\ Goto(p, ret[p])
                /\ slab' = [slab EXCEPT ![p] = 0]
           ELSE /\ Goto(p, "mkRead")
                /\ slab' = [slab EXCEPT ![p] = @ + 1]
                /\ mapLock' = mapLock
        /\ UNCHANGED <<tree, tblLock, spare, list1, list2, made, cut, pending,
                       ret, back, cur, signals, ghosts>>

-----------------------------------------------------------------------------
(* _sparetree(): the pages of a tree the header no longer names go to      *)
(* SpareList one at a time; a full list is freed first.  Only the tables   *)
(* of temporary volumes are given back this way.                           *)

Sparetree(p, t) ==
    /\ Private /\ pc[p] = "idle" /\ (Bracketed => hangup[p] = 2)
    /\ tree' = [tree EXCEPT ![t] = {}]
    /\ pending' = [pending EXCEPT ![p] = tree[t]]
    /\ Goto(p, "sparing")
    /\ UNCHANGED <<bitmap, locks, spare, list1, list2, made, cut, freeing,
                   ret, back, cur, slab, buf, signals, ghosts>>

(* Mutant: the full list is freed and kept. *)
SpareKept(p) ==
    /\ pc[p] = "sparing" /\ pending[p] # {} /\ Cardinality(spare[p]) >= SpareCap
    /\ StartMkfree(p, spare[p], "sparing")
    /\ UNCHANGED <<disk, tblLock, spare, list1, list2, made, cut, pending,
                   back, cur, buf, signals, ghosts>>

SpareFull(p) ==
    /\ pc[p] = "sparing" /\ pending[p] # {} /\ Cardinality(spare[p]) >= SpareCap
    /\ StartMkfree(p, spare[p], "sparing")
    /\ spare' = [spare EXCEPT ![p] = {}]
    /\ UNCHANGED <<disk, tblLock, list1, list2, made, cut, pending,
                   back, cur, buf, signals, ghosts>>

SparePage(p) ==
    /\ pc[p] = "sparing" /\ Cardinality(spare[p]) < SpareCap
    /\ \E n \in pending[p] :
          /\ spare' = [spare EXCEPT ![p] = @ \cup {n}]
          /\ pending' = [pending EXCEPT ![p] = @ \ {n}]
    /\ UNCHANGED <<disk, locks, list1, list2, made, cut, freeing,
                   control, signals, ghosts>>

SpareEnd(p) ==
    /\ pc[p] = "sparing" /\ pending[p] = {}
    /\ Goto(p, "idle")
    /\ UNCHANGED <<disk, locks, lists, ret, back, cur, slab, buf, signals, ghosts>>

-----------------------------------------------------------------------------
(* Signals and the end of a program. *)

(* longjmp(sjbuf) from wherever the process is: main() goes on with        *)
(* closedb().  Nodes in memory are forgotten, the lists and the locks are  *)
(* not; SIGHUP and SIGTERM are ignored from here on.                       *)
Jump(p) ==
    /\ made' = [made EXCEPT ![p] = {}]
    /\ cut' = [cut EXCEPT ![p] = {}]
    /\ freeing' = [freeing EXCEPT ![p] = {}]
    /\ pending' = [pending EXCEPT ![p] = {}]
    /\ lost' = lost \cup made[p] \cup freeing[p] \cup pending[p]
    /\ Leave(p, "unlocking")
    /\ UNCHANGED <<disk, locks, spare, list1, list2, kills>>

(* main() ignores signals once the program is over. *)
Ending(p) ==
    \/ pc[p] \in {"closed", "unlocking", "closing"}
    \/ pc[p] \in {"mkRead", "mkWrite"} /\ ret[p] = "closing"
    \/ Updating(p) /\ back[p] = "unlocking"

(* clh_intr() on SIGHUP or SIGTERM: jump when HANGUP is 1, else remember. *)
Hangup(p) ==
    /\ ~Ending(p) /\ ~seen[p] /\ signs < MaxSignals
    /\ signs' = signs + 1
    /\ \/ hangup[p] = 1 /\ Jump(p) /\ UNCHANGED signals
       \/ /\ hangup[p] = 2
          /\ seen' = [seen EXCEPT ![p] = TRUE]
          /\ UNCHANGED <<disk, locks, lists, control, hangup, kills, lost>>

(* The statement `hangup = h': a signal that was put off strikes now. *)
SetHangup(p, h) ==
    /\ Bracketed /\ pc[p] = "idle" /\ hangup[p] # h
    /\ hangup' = [hangup EXCEPT ![p] = h]
    /\ IF h = 1 /\ seen[p]
       THEN Jump(p) /\ seen' = [seen EXCEPT ![p] = FALSE] /\ UNCHANGED signs
       ELSE UNCHANGED <<disk, locks, lists, control, seen, ghosts>>

(* The program ends: ulockall() deletes record locks, an update each. *)
Exit(p) ==
    /\ ~Private /\ pc[p] = "idle"
    /\ Goto(p, "unlocking")
    /\ UNCHANGED <<disk, locks, lists, ret, back, cur, slab, buf, signals, ghosts>>

Unlocked(p) ==
    /\ pc[p] = "unlocking"
    /\ Goto(p, "closing")
    /\ UNCHANGED <<disk, locks, lists, ret, back, cur, slab, buf, signals, ghosts>>

(* _cldbclose(): PageList1 and then SpareList are given back. *)
CloseList1(p) ==
    /\ pc[p] = "closing" /\ ~Private /\ list1[p] # {}
    /\ StartMkfree(p, list1[p], "closing")
    /\ list1' = [list1 EXCEPT ![p] = {}]
    /\ UNCHANGED <<disk, tblLock, spare, list2, made, cut, pending,
                   back, cur, buf, signals, ghosts>>

CloseSpare(p) ==
    /\ pc[p] = "closing" /\ ~Private /\ list1[p] = {} /\ spare[p] # {}
    /\ StartMkfree(p, spare[p], "closing")
    /\ spare' = [spare EXCEPT ![p] = {}]
    /\ UNCHANGED <<disk, tblLock, list1, list2, made, cut, pending,
                   back, cur, buf, signals, ghosts>>

(* close() drops every lockf lock of the process; a temporary volume is    *)
(* closed as it is, its file is gone with it.                              *)
Close(p) ==
    /\ pc[p] = "closing" /\ (Private \/ (list1[p] = {} /\ spare[p] = {}))
    /\ Forget(p, IF Private THEN Held(p) ELSE {})
    /\ UNCHANGED <<kills, signs>>

(* cldbopen(): a new process with empty lists. *)
Open(p) ==
    /\ pc[p] = "closed" /\ ~Private
    /\ Goto(p, "idle")
    /\ UNCHANGED <<disk, locks, lists, ret, back, cur, slab, buf, signals, ghosts>>

-----------------------------------------------------------------------------
Allocate(p) ==
    Getspare(p) \/ GetspareRead(p) \/ GetspareWrite(p) \/ GetspareEnd(p)
Release(p) == MkfreeRead(p) \/ MkfreeWrite(p)
Update(p) ==
    \/ NothingToDo(p) \/ Freshnode(p) \/ Repos(p) \/ Retire(p)
    \/ Publish(p) \/ PutchangeFull(p) \/ Putchange(p)
Spare(p) == SpareFull(p) \/ SparePage(p) \/ SpareEnd(p)
Shut(p) == Unlocked(p) \/ CloseList1(p) \/ CloseSpare(p) \/ Close(p)

Next ==
    \E p \in Proc :
        \/ Allocate(p) \/ Release(p) \/ Update(p) \/ Spare(p) \/ Shut(p)
        \/ OutOfSpace(p) \/ Kill(p) \/ Hangup(p) \/ Exit(p) \/ Open(p)
        \/ \E t \in Table : Begin(p, t) \/ Sparetree(p, t)
        \/ \E h \in {1, 2} : SetHangup(p, h)

Spec == Init /\ [][Next]_vars

(* lockf() queues those who wait for a byte, so a lock asked for again and *)
(* again is granted; a process that can go on with its own work does.      *)
Work(p) ==
    Allocate(p) \/ Release(p) \/ Update(p) \/ Spare(p) \/ Shut(p) \/ OutOfSpace(p)

FairSpec ==
    /\ Spec
    /\ \A p \in Proc :
          /\ WF_vars(Work(p))
          /\ SF_vars(Getspare(p)) /\ SF_vars(PutchangeFull(p))
          /\ SF_vars(CloseList1(p) \/ CloseSpare(p))

-----------------------------------------------------------------------------
(* Correctness. *)

Disjoint(S, T) == S \cap T = {}

(* Every page number is recorded in one place at most: in the tree of one  *)
(* table or in one list of one process.  Two lists that share a page hand  *)
(* the same page to two nodes; a list that shares a page with a tree gives *)
(* a page of live data away.                                               *)
OwnLists ==
    \A p \in Proc :
        /\ Disjoint(spare[p], list1[p] \cup made[p] \cup freeing[p]
                                  \cup pending[p] \cup Replaced(p))
        /\ Disjoint(list1[p], made[p] \cup freeing[p] \cup pending[p] \cup Replaced(p))
        /\ Disjoint(made[p], freeing[p] \cup pending[p] \cup Replaced(p))
        /\ Disjoint(freeing[p], pending[p] \cup Replaced(p))
        /\ Disjoint(pending[p], Replaced(p))
OwnProcess == \A p, q \in Proc : p # q => Disjoint(Held(p), Held(q))
OwnTree ==
    /\ \A p \in Proc, t \in Table : Disjoint(Held(p), tree[t])
    /\ \A t, u \in Table : t # u => Disjoint(tree[t], tree[u])
OwnSystem ==
    /\ \A p \in Proc : Disjoint(Held(p), SystemPages \cup lost)
    /\ \A t \in Table : Disjoint(tree[t], SystemPages \cup lost)
    /\ Disjoint(lost, SystemPages)
Exclusive == OwnLists /\ OwnProcess /\ OwnTree /\ OwnSystem

(* A page somebody uses has its bit set: getspare() of another process     *)
(* cannot find it.                                                         *)
Marked ==
    /\ SystemPages \cup lost \subseteq bitmap
    /\ \A t \in Table : tree[t] \subseteq bitmap
    /\ \A p \in Proc : Held(p) \subseteq bitmap

(* And a bit that is set stands for a page that somebody uses: space is    *)
(* lost by a kill, a derror() or a signal in mid-update, never otherwise.  *)
Conserved ==
    \A n \in bitmap : \/ n \in SystemPages \cup lost
                      \/ \E t \in Table : n \in tree[t]
                      \/ \E p \in Proc : n \in Held(p)

(* No process writes more page numbers into SpareList or PageList1 than    *)
(* the arrays of DBinfo have room for (structures.h).                      *)
ListsFit ==
    \A p \in Proc :
        /\ Cardinality(spare[p]) =< SpareCap
        /\ Cardinality(list1[p]) =< List1Cap

(* A page that _mkfree() gives back is in no tree (dbclos.c: "mark any     *)
(* spare/ unused allocated pages as free in the bitmap").                  *)
FreesOnlyUnused ==
    \A p \in Proc, t \in Table : Disjoint(freeing[p], tree[t])

(* The volume is reported full (error 42) only when every existing page    *)
(* has its bit set: the mask of getspare() hides pages that do not exist   *)
(* and no other (captur.c: "Last byte may have non-existant pages, mask    *)
(* them out").                                                             *)
FullMeansFull ==
    \A p \in Proc :
        pc[p] = "gsDone" /\ spare[p] = {} => ExistingPages \subseteq bitmap

(* A page of a tree survives every step of every process: it is still      *)
(* allocated when the step is over, so that a reader without a lock that   *)
(* has just followed a pointer to it reads that page.                      *)
NeverFreedAtOnce ==
    [][\A t \in Table : tree[t] \subseteq bitmap']_vars

(* Every update that began ends, whoever else holds the lock of the bitmap *)
(* meanwhile, and a process that closes the volume does close it.          *)
UpdatesEnd == \A p \in Proc : Updating(p) ~> ~Updating(p)
ClosesEnd == \A p \in Proc : pc[p] = "closing" ~> pc[p] = "closed"

(* What the volume promises, with the lists and the bitmap hidden.         *)
Volume == INSTANCE PageVolume WITH
    Pages <- ExistingPages,
    free  <- ExistingPages \ bitmap,
    live  <- tree,
    held  <- [p \in Proc |-> Held(p)],
    gone  <- lost
VolumeSpec == Volume!Spec
=============================================================================
