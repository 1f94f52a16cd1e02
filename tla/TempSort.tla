------------------------------ MODULE TempSort ------------------------------
(* The records of a temporary table: `create` sorts them while it loads them  *)
(* (loadr.c: a heap, and a second one for what is too small for the open run), *)
(* merges the runs six at a time (merge.c), and either publishes one run as   *)
(* the table (`create unique`: compose(), commit.c) or leaves up to six runs  *)
(* that reads merge as they go (reorder(), picknx.c, pickpr.c). A record is a *)
(* key and what tells it from others with that key. A run is its number and   *)
(* its leaves, left to right, under at most one index page.                   *)
EXTENDS Integers, Sequences, FiniteSets, SequencesExt

CONSTANTS Keys,     \* keys of records, numbers
          Slots,    \* values of MaxRecs1: records the two heaps have room for
          Room,     \* records the buffer has room for, those of the open leaf included
          Fan,      \* 6: runs that are merged together, and runs of a level
          LeafMax,  \* records of a leaf
          MaxLoads, \* bound: records that are loaded
          MaxReads  \* bound: records that are read

Sizes == /\ Keys \subseteq Nat /\ Slots \cup {LeafMax} \subseteq Nat \ {0}
         /\ Room \in Nat /\ Room > LeafMax
         /\ Fan \in Nat /\ Fan > 1 /\ {MaxLoads, MaxReads} \subseteq Nat

VARIABLES phase,  \* loading, picking (RLARR), table (a tree of its own), released
          unique, \* tdp_UNIQUE, else tdp_REORDER
          sa,     \* SALLOCBUF: heaps, leaves of the open run, RL_Head; what became of runs
          table,  \* the run the header of the table points to
          rl,     \* the list of RLARR: run, its next record, its DPOS
          fresh,  \* flag 0x1000: the RLARR are to be placed before the next read
          loaded, \* history: the records that were loaded
          got,    \* history: the records this pass has given
          way,    \* history: how this pass goes: none, next, prev or mixed
          done    \* history: it came to its end

vars == <<phase, unique, sa, table, rl, fresh, loaded, got, way, done>>

None == <<>>
KeyOf(r) == r[1]

(***************************************************************************)
(* The heap in an array (sift.c, mvheap.c).                                 *)
(***************************************************************************)
Swapref(h, i, j) == [h EXCEPT ![i] = h[j], ![j] = h[i]]

RECURSIVE Siftdown(_, _), Siftup(_, _)
Siftdown(h, i) ==
  LET c == IF 2 * i + 1 <= Len(h) /\ KeyOf(h[2 * i + 1]) < KeyOf(h[2 * i])
           THEN 2 * i + 1 ELSE 2 * i
  IN IF c > Len(h) \/ KeyOf(h[i]) <= KeyOf(h[c]) THEN h
     ELSE Siftdown(Swapref(h, i, c), c)

Siftup(h, i) ==
  IF i = 1 \/ KeyOf(h[i]) >= KeyOf(h[i \div 2]) THEN Siftdown(h, i)
  ELSE Siftup(Swapref(h, i, i \div 2), i \div 2)

Heapify(h) ==
  LET down[n \in 0..Len(h)] == IF n = Len(h) THEN h ELSE Siftdown(down[n + 1], n + 1)
  IN IF h = <<>> THEN h ELSE down[0]

(* The last record takes the place of the root and sinks. *)
Pop(h) == IF Len(h) = 1 THEN <<>> ELSE Siftdown(<<Last(h)>> \o SubSeq(h, 2, Len(h) - 1), 1)

(* The second heap lies at the end of the array; as much of it as fits in     *)
(* front of it is moved there, from its last record on.                      *)
(* mutant: only what is moved counts *)
MvheapMoved(h2, slots) ==
  LET moved == IF slots < 2 * Len(h2) THEN slots - Len(h2) ELSE Len(h2)
  IN Reverse(SubSeq(h2, Len(h2) - moved + 1, Len(h2)))

Mvheap(h2, slots) ==
  LET free == slots - Len(h2)
      moved == IF free < Len(h2) THEN free ELSE Len(h2)
  IN Reverse(SubSeq(h2, Len(h2) - moved + 1, Len(h2))) \o SubSeq(h2, 1, Len(h2) - moved)

(***************************************************************************)
(* Runs: a leaf after the other (append.c), ended by pflush.c.              *)
(***************************************************************************)
(* A record with the key of the last one is left out of a unique table. *)
Appended(leaves, r, u) ==
  IF leaves = <<>> THEN <<<<r>>>>
  ELSE IF u /\ KeyOf(r) = KeyOf(Last(Last(leaves))) THEN leaves
  ELSE IF Len(Last(leaves)) = LeafMax THEN Append(leaves, <<r>>)
  ELSE Front(leaves) \o <<Append(Last(leaves), r)>>

Pflush(st, leaves) == [st EXCEPT !.runs = @ + 1, !.run = [n |-> st.runs + 1, leaves |-> leaves]]

Spared(st, runs) == [st EXCEPT !.spared = @ \o [i \in DOMAIN runs |-> runs[i].n]]

Emit(st, u) == [st EXCEPT !.open = Appended(@, st.heap[1], u), !.heap = Pop(@)]

RECURSIVE Hflush(_, _)
Hflush(st, u) ==
  IF st.heap = <<>> THEN [Pflush(st, st.open) EXCEPT !.open = <<>>]
  ELSE Hflush(Emit(st, u), u)

(***************************************************************************)
(* Reading a run. A DPOS has the leaf it is in (0: none), the place in it, and *)
(* the place of the leaf that comes next under the index page, if any.        *)
(***************************************************************************)
Ipos(leaves) ==
  IF Len(leaves) < 2 THEN [leaf |-> Len(leaves), i |-> 0, c |-> 0, more |-> FALSE]
  ELSE [leaf |-> 1, i |-> 0, c |-> 1, more |-> TRUE]

Dpos(leaves) ==
  IF Len(leaves) < 2 THEN Ipos(leaves)
  ELSE [leaf |-> Len(leaves), i |-> 0, c |-> Len(leaves) - 1, more |-> TRUE]

(* The next leaf is found only when the DPOS is in none. *)
Forth(leaves, p) ==
  IF p.leaf # 0 \/ ~p.more THEN p
  ELSE IF p.c + 1 = Len(leaves) THEN [p EXCEPT !.leaf = p.c + 1, !.c = 0, !.more = FALSE]
  ELSE [p EXCEPT !.leaf = p.c + 1, !.c = p.c + 1]

Back(leaves, p) ==
  IF p.leaf # 0 \/ ~p.more THEN p
  ELSE LET c == (IF p.c = 0 THEN Len(leaves) ELSE p.c) - 1
       IN [p EXCEPT !.leaf = c + 1, !.c = c, !.more = c # 0]

(* The place is moved on before the record is read, so that the record at    *)
(* place 0 is never read, and one past the last, which is empty, is.         *)
Ifetch(run, p) ==
  LET q == Forth(run.leaves, p)
      leaf == run.leaves[q.leaf]
      i == q.i + 1
  IN IF q.leaf = 0 THEN [rec |-> None, pos |-> q]
     ELSE [rec |-> IF i < Len(leaf) THEN leaf[i + 1] ELSE None,
           pos |-> IF Len(leaf) <= i THEN [q EXCEPT !.leaf = 0, !.i = 0] ELSE [q EXCEPT !.i = i]]

Dfetch(run, p) ==
  LET q == Back(run.leaves, p)
      leaf == run.leaves[q.leaf]
      i == (IF q.i = 0 THEN Len(leaf) ELSE q.i) - 1
  IN IF q.leaf = 0 THEN [rec |-> None, pos |-> q]
     ELSE [rec |-> leaf[i + 1],
           pos |-> IF i = 0 THEN [q EXCEPT !.leaf = 0, !.i = 0] ELSE [q EXCEPT !.i = i]]

Fetch(d, run, p) == IF d = "next" THEN Ifetch(run, p) ELSE Dfetch(run, p)

(* Of the records at hand the first one that no other goes before. *)
Choice(d, recs) ==
  LET have == {i \in DOMAIN recs : recs[i] # None}
      goes(i, j) == \/ (d = "next" /\ KeyOf(recs[i]) < KeyOf(recs[j]))
                    \/ (d = "prev" /\ KeyOf(recs[i]) > KeyOf(recs[j]))
                    \/ (KeyOf(recs[i]) = KeyOf(recs[j]) /\ i <= j)
  IN IF have = {} THEN 0 ELSE CHOOSE i \in have : \A j \in have : goes(i, j)

(***************************************************************************)
(* Merging. at[i] is what was fetched of runs[i] and where it is now.         *)
(***************************************************************************)
RECURSIVE Drained(_, _, _, _)
Drained(runs, at, leaves, u) ==
  LET c == Choice("next", [i \in DOMAIN at |-> at[i].rec])
  IN IF c = 0 THEN leaves
     ELSE Drained(runs, [at EXCEPT ![c] = Ifetch(runs[c], @.pos)],
                  Appended(leaves, at[c].rec, u), u)

(* Each run is given back when it is read to its end. *)
Merge(st, runs, u) ==
  LET start == [i \in DOMAIN runs |-> Ifetch(runs[i], Ipos(runs[i].leaves))]
  IN [Spared(Pflush(st, Drained(runs, start, <<>>, u)), runs)
      EXCEPT !.merged = TRUE, !.widest = IF Len(runs) > @ THEN Len(runs) ELSE @]

(* The runs of a level are merged into one of the level above. *)
RECURSIVE Addrun(_, _, _)
Addrun(st, k, u) ==
  IF k > Len(st.levels) THEN [st EXCEPT !.levels = Append(@, <<st.run>>)]
  ELSE IF Len(st.levels[k]) < Fan THEN [st EXCEPT !.levels[k] = Append(@, st.run)]
  ELSE LET run == st.run
           up == Addrun(Merge(st, st.levels[k], u), k + 1, u)
       IN [up EXCEPT !.levels[k] = <<run>>]

RECURSIVE Extract(_, _)
Extract(levels, n) ==
  IF n = 0 THEN [taken |-> <<>>, levels |-> levels]
  ELSE LET top == Head(levels)
           rest == IF Len(top) = 1 THEN Tail(levels) ELSE <<Front(top)>> \o Tail(levels)
           more == Extract(rest, n - 1)
       IN [taken |-> <<Last(top)>> \o more.taken, levels |-> more.levels]

Count(levels) == Len(FlattenSeq(levels))

(***************************************************************************)
(* Loading a record.                                                        *)
(***************************************************************************)
Full(st) ==
  \/ Len(st.heap) + Len(st.second) = st.slots
  \/ Len(st.heap) + Len(st.second) + (IF st.open = <<>> THEN 0 ELSE Len(Last(st.open))) >= Room

Turn(st) == [st EXCEPT !.heap = Heapify(Mvheap(st.second, st.slots)), !.second = <<>>]

RECURSIVE MakeRoom(_, _)
MakeRoom(st, u) ==
  IF ~Full(st) THEN st
  ELSE LET e == Emit(st, u)
       IN IF e.heap # <<>> THEN MakeRoom(e, u)
          ELSE MakeRoom(Addrun(Turn([Pflush(e, e.open) EXCEPT !.open = <<>>]), 1, u), u)

InHeap(st, r) == [st EXCEPT !.heap = Siftup(Append(@, r), Len(@) + 1)]

TooSmall(st, r) == st.open # <<>> /\ KeyOf(r) < KeyOf(st.heap[1])

Loadr(st, r, u) ==
  LET s == MakeRoom(st, u)
  IN IF ~TooSmall(s, r) THEN InHeap(s, r)
     ELSE IF s.levels # <<>> /\ Len(s.levels[1]) = Fan
     THEN [Addrun(Hflush(s, u), 1, u) EXCEPT !.heap = <<r>>]
     ELSE [s EXCEPT !.second = <<r>> \o @]

(***************************************************************************)
(* The end of loading: what is in the heaps becomes runs, and the runs are    *)
(* merged till no level is left and there are at most max.                   *)
(***************************************************************************)

FirstMerge(all) == IF all <= Fan THEN all
                   ELSE IF (all - 1) % (Fan - 1) = 0 THEN Fan
                   ELSE 1 + ((all - 1) % (Fan - 1))

RECURSIVE MergeDown(_, _, _, _)
MergeDown(st, runs, max, u) ==
  IF st.levels = <<>> /\ Len(runs) <= max THEN [st EXCEPT !.result = runs]
  ELSE LET m == Merge(st, runs, u)
           x == Extract(m.levels, IF m.levels = <<>> THEN 0 ELSE Fan - 1)
       IN MergeDown([m EXCEPT !.levels = x.levels], <<m.run>> \o x.taken, max, u)

Sflush(st, max, u) ==
  LET a == IF st.heap = <<>> THEN st ELSE Hflush(st, u)
      first == IF st.heap = <<>> THEN <<>> ELSE <<a.run>>
      b == Turn(a)
      c == IF b.heap = <<>> THEN b ELSE Hflush(b, u)
      held == first \o (IF b.heap = <<>> THEN <<>> ELSE <<c.run>>)
      x == Extract(c.levels, FirstMerge(Len(held) + Count(c.levels)) - Len(held))
  IN MergeDown([c EXCEPT !.levels = x.levels], held \o x.taken, max, u)
-----------------------------------------------------------------------------
NoRun == [n |-> 0, leaves |-> <<>>]

(* _salloc() *)
Salloc(slots) ==
          [slots |-> slots, heap |-> <<>>, second |-> <<>>, open |-> <<>>, levels |-> <<>>,
           run |-> NoRun, runs |-> 0, spared |-> <<>>, result |-> <<>>,
           merged |-> FALSE, widest |-> 0]

Init == /\ phase = "loading" /\ unique \in BOOLEAN
        /\ \E n \in Slots : sa = Salloc(n)
        /\ table = NoRun /\ rl = <<>> /\ fresh = FALSE
        /\ loaded = <<>> /\ got = <<>> /\ way = "none" /\ done = FALSE

(* join() gives the records of a query one by one. *)
Load(k) == /\ phase = "loading" /\ Len(loaded) < MaxLoads
           /\ LET r == <<k, Len(loaded) + 1>>
              IN /\ sa' = Loadr(sa, r, unique)
                 /\ loaded' = Append(loaded, r)
           /\ UNCHANGED <<phase, unique, table, rl, fresh, got, way, done>>

(* The header takes the run, and the tree it pointed to is given back. *)
Commit == /\ phase = "loading" /\ unique
          /\ LET st == Sflush(sa, 1, TRUE)
             IN IF st.result = <<>> THEN /\ sa' = st /\ UNCHANGED table
                ELSE /\ table' = st.result[1]
                     /\ sa' = [Spared(st, IF table = NoRun THEN <<>> ELSE <<table>>)
                               EXCEPT !.result = <<>>]
          /\ phase' = "table"
          /\ UNCHANGED <<unique, rl, fresh, loaded, got, way, done>>

(* _rlist() puts each run in front of the list. *)
Rlist(runs) == [i \in DOMAIN runs |->
                 [run |-> Reverse(runs)[i], rec |-> None, pos |-> Ipos(<<>>)]]

Reorder == /\ phase = "loading" /\ ~unique
           /\ LET st == Sflush(sa, Fan, FALSE)
              IN /\ sa' = [st EXCEPT !.result = <<>>]
                 /\ rl' = Rlist(st.result)
                 /\ fresh' = (st.result # <<>>)
                 /\ phase' = IF st.result = <<>> THEN "table" ELSE "picking"
           /\ UNCHANGED <<unique, table, loaded, got, way, done>>

(* _imerge(), _dmerge() *)
Placed(d) == [i \in DOMAIN rl |->
  LET run == rl[i].run
      f == Fetch(d, run, IF d = "next" THEN Ipos(run.leaves) ELSE Dpos(run.leaves))
  IN [run |-> run, rec |-> f.rec, pos |-> f.pos]]

(* _picknxt(), _pickprev(): the record at hand is given and the next one of    *)
(* that run is fetched.                                                      *)
Pick(d) ==
  /\ phase = "picking" /\ Len(got) < MaxReads /\ ~done
  /\ LET at == IF fresh THEN Placed(d) ELSE rl
         c == Choice(d, [i \in DOMAIN at |-> at[i].rec])
     IN IF c = 0 THEN rl' = at /\ done' = TRUE /\ UNCHANGED got
        ELSE LET f == Fetch(d, at[c].run, at[c].pos)
             IN /\ rl' = [at EXCEPT ![c].rec = f.rec, ![c].pos = f.pos]
                /\ got' = Append(got, at[c].rec) /\ UNCHANGED done
  /\ way' = IF way \in {d, "none"} THEN d ELSE "mixed"
  /\ fresh' = FALSE
  /\ UNCHANGED <<phase, unique, sa, table, loaded>>

(* _restrict(): the next read starts again. *)
Again ==    /\ phase = "picking" /\ ~fresh
            /\ fresh' = TRUE /\ got' = <<>> /\ way' = "none" /\ done' = FALSE
            /\ UNCHANGED <<phase, unique, sa, table, rl, loaded>>

(* release(): sfree() the runs of the RLARR, mfree() those of RL_Head. What a  *)
(* signal leaves in the open run is lost with the private volume.            *)
Release == /\ phase # "released" /\ phase' = "released"
           /\ sa' = IF phase = "picking" THEN Spared(sa, [i \in DOMAIN rl |-> rl[i].run])
                    ELSE [Spared(sa, FlattenSeq(sa.levels)) EXCEPT !.levels = <<>>]
           /\ rl' = <<>> /\ fresh' = FALSE
           /\ UNCHANGED <<unique, table, loaded, got, way, done>>

Next == \/ \E k \in Keys : Load(k)
        \/ Commit \/ Reorder \/ Again \/ Release
        \/ \E d \in {"next", "prev"} : Pick(d)

Spec == Init /\ [][Next]_vars
-----------------------------------------------------------------------------
Held == FlattenSeq(sa.levels) \o [i \in DOMAIN rl |-> rl[i].run]
        \o (IF table = NoRun THEN <<>> ELSE <<table>>)

RunRecs(run) == FlattenSeq(run.leaves)
RecsHeld == ToSet(sa.heap) \cup ToSet(sa.second) \cup ToSet(FlattenSeq(sa.open))
            \cup UNION {ToSet(RunRecs(Held[i])) : i \in DOMAIN Held}

(* Every run is sorted, duplicates included or not, whatever order records    *)
(* come in: what is smaller than the record written last waits in the second  *)
(* heap, and both heaps are heaps when they are read (sift.c, loadr.c:104).   *)
RunsSorted ==
  \A i \in DOMAIN Held : LET s == RunRecs(Held[i]) IN
    \A j \in 1..(Len(s) - 1) : KeyOf(s[j]) < KeyOf(s[j + 1]) \/ (~unique /\ KeyOf(s[j]) = KeyOf(s[j + 1]))

(* Until runs are merged every record loaded is somewhere, or, in a unique     *)
(* table, one with its key: the turn from one heap to the other (mvheap.c) and *)
(* the flush of both (sflush.c) lose none.                                    *)
NoneLost ==
  phase # "released" /\ ~sa.merged =>
    \A i \in DOMAIN loaded :
      \/ loaded[i] \in RecsHeld
      \/ unique /\ \E r \in RecsHeld : KeyOf(r) = KeyOf(loaded[i])

(* A run that was made is in one place: a level of RL_Head, the RLARR, the     *)
(* header, or given back, once (merge.c:70, commit.c:38, releas.c). Given back  *)
(* twice, its pages would have two owners.                                    *)
RunsOnce ==
  LET places == [i \in DOMAIN Held |-> Held[i].n] \o sa.spared
  IN IsInjective(places) /\ ToSet(places) = 1..sa.runs

(* Six runs are merged at most, what the arrays of merge.c:23-25 and          *)
(* sflush.c:57 have room for, and no record is put beyond the heaps.          *)
ArraysFit ==
  /\ sa.widest <= Fan /\ Len(rl) <= Fan
  /\ \A k \in DOMAIN sa.levels : Len(sa.levels[k]) \in 1..Fan
  /\ Len(sa.heap) + Len(sa.second) <= sa.slots

(* A pass backwards over runs that were not merged gives the records in       *)
(* descending order, and at its end it has given them all (dfetch.c).         *)
BackwardsAll ==
  way = "prev" =>
    /\ \A i \in 2..Len(got) : KeyOf(got[i - 1]) >= KeyOf(got[i])
    /\ done /\ ~sa.merged => ToSet(got) = ToSet(loaded) /\ Len(got) = Len(loaded)
=============================================================================
