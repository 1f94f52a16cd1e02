------------------------------ MODULE KeyTables ------------------------------
(* A table with a key table and a table of sub-records: what put and delete  *)
(* do to the three of them.  put (repkey.c) replaces the entry of the key     *)
(* table, then the record; delete (delhier.c) takes the entry, the            *)
(* sub-records and the record.  Each read and write of a table is one step;   *)
(* several programs run at a time, and any of them may be ended by a signal.  *)
EXTENDS Naturals, FiniteSets

CONSTANTS Prog, Key,
          Value, Zero,    \* what a field may hold; Zero: nothing
          Sub,            \* the numbers of sub-records
          Absent, None, Nobody

Constants ==
  /\ Zero \in Value /\ Absent \notin Value /\ None \notin Value \cup Key /\ Nobody \notin Prog

VARIABLES stored,   \* the table: a record of two fields for a key, or Absent
          entries,  \* the key table: keyed by a field and the key, holds the other
          subs,     \* the sub-records: keyed by the key and a number
          holder,   \* who has locked a record; entries are not locked by others
          t, kt,    \* each program's entries of ttab[] for the table and the key table
          pc, keep, \* where its command is; whether put keeps the lock
          hurt      \* keys on which a command was cut off

vars == <<stored, entries, subs, holder, t, kt, pc, keep, hurt>>
tables == <<stored, entries, subs>>

Data == {"a", "c"}
Fields == Data \cup {"k"}
Rows == [Data -> Value]
Records == [k : Key, a : Value, c : Value]
Entry(r) == <<r.a, r.k>>
EntryKeys == Value \X Key
With(k, row) == [k |-> k, a |-> row.a, c |-> row.c]
Row(r) == [f \in Data |-> r[f]]

(* The work areas, LOCK, AVAIL, REC_LOADED, and the fields that have a value *)
(* of their own (DATA_AVAIL); the copy is read under LOCK only.              *)
NoTable == [set |-> [f \in Fields |-> None], wa |-> None, loaded |-> FALSE, avail |-> FALSE, lock |-> FALSE, copy |-> None]
NoEntry == [wa |-> None, avail |-> FALSE, lock |-> FALSE, copy |-> None]

Init ==
  /\ stored = [k \in Key |-> Absent] /\ subs = {}
  /\ entries = [e \in EntryKeys |-> Absent]
  /\ holder = [k \in Key |-> Nobody]
  /\ t = [p \in Prog |-> NoTable] /\ kt = [p \in Prog |-> NoEntry]
  /\ pc = [p \in Prog |-> "idle"] /\ keep = [p \in Prog |-> FALSE] /\ hurt = {}

(***************************************************************************)
(* Fields and work areas                                                   *)
(***************************************************************************)
(* rectott(): a field that was not assigned to is what the work area holds, *)
(* if a record was read, or nothing.                                        *)
Val(p, f) == IF t[p].set[f] # None THEN t[p].set[f] ELSE IF t[p].loaded THEN t[p].wa[f] ELSE Zero
Eff(p) == [f \in Fields |-> Val(p, f)]
HasKey(p) == t[p].set["k"] # None \/ t[p].loaded

(* ulckrec(): the lock record of the copy is deleted, whoever put it there. *)
Freed(h, on, key) == IF on THEN [h EXCEPT ![key] = Nobody] ELSE h
Unlocked(p) == Freed(holder, t[p].lock, t[p].copy.k)
Go(p, where) == pc' = [pc EXCEPT ![p] = where]
At(p, where) == pc[p] = where

(* The program has reserved the record that its fields name. *)
Reserved(p) == t[p].lock /\ HasKey(p) /\ t[p].copy.k = Val(p, "k")

(***************************************************************************)
(* The commands of a program between two of these                           *)
(***************************************************************************)
(* rdrec() with lock: what is read is loaded even if another has it locked. *)
Get(p, k) ==
  /\ At(p, "idle")
  /\ LET free == Unlocked(p)[k] \in {Nobody, p}
         there == stored[k] # Absent
         wa == IF there THEN With(k, stored[k]) ELSE [k |-> k, a |-> Zero, c |-> Zero]
     IN /\ t' = [t EXCEPT ![p] = [set |-> IF there THEN NoTable.set ELSE [NoTable.set EXCEPT !["k"] = k],
                                  wa |-> wa, loaded |-> there, avail |-> there, lock |-> free, copy |-> IF free THEN wa ELSE None]]
        /\ holder' = IF free THEN [Unlocked(p) EXCEPT ![k] = p] ELSE Unlocked(p)
  /\ UNCHANGED <<tables, kt, pc, keep, hurt>>

(* calculate().  Programs assign to a record they reserved, keep its key,  *)
(* and delete it as it was read: nothing here would see that they do not.  *)
Assign(p, f, v) ==
  /\ At(p, "idle") /\ Reserved(p)
  /\ t' = [t EXCEPT ![p].set[f] = v]
  /\ UNCHANGED <<tables, holder, kt, pc, keep, hurt>>

Unlock(p) ==
  /\ At(p, "idle") /\ t[p].lock
  /\ holder' = Unlocked(p) /\ t' = [t EXCEPT ![p].lock = FALSE, ![p].copy = None]
  /\ UNCHANGED <<tables, kt, pc, keep, hurt>>

(* put, of a table entry of its own, for sub-records of a record it has. *)
AddSub(p, n) ==
  /\ At(p, "idle") /\ Reserved(p) /\ stored[Val(p, "k")] # Absent
  /\ subs' = subs \cup {<<Val(p, "k"), n>>}
  /\ UNCHANGED <<stored, entries, holder, t, kt, pc, keep, hurt>>

(***************************************************************************)
(* put                                                                     *)
(***************************************************************************)
(* repkey(): the fields of a record that was read are all fetched first. *)
Put(p) ==
  /\ At(p, "idle") /\ Reserved(p)
  /\ \E stays \in BOOLEAN : keep' = [keep EXCEPT ![p] = stays]
  /\ t' = IF t[p].avail THEN [t EXCEPT ![p].set = Eff(p)] ELSE t
  /\ Go(p, "rdkey")
  /\ UNCHANGED <<tables, holder, kt, hurt>>

(* rdkey(): the record as it was before, from the work area, or, if the     *)
(* fields name another one or none was read, from the table.                *)
Differs(p) == ~t[p].avail \/ t[p].wa.k # Val(p, "k")
Rdkey(p) ==
  /\ At(p, "rdkey")
  /\ LET k == Val(p, "k")
         there == stored[k] # Absent
     IN IF Differs(p)
        THEN /\ t' = [t EXCEPT ![p].set = [@ EXCEPT !["k"] = k], ![p].loaded = FALSE, ![p].avail = there,
                               ![p].wa = IF there THEN With(k, stored[k]) ELSE [k |-> k, a |-> Zero, c |-> Zero]]
             /\ Go(p, "rdentry_free")
        ELSE t' = t /\ Go(p, "rdentry")
  /\ UNCHANGED <<tables, holder, kt, keep, hurt>>

(* ... and its entry.  LOCK is set as if it had been locked.  A record that *)
(* was read for this alone is forgotten again.                              *)
Rdentry(p) ==
  /\ pc[p] \in {"rdentry", "rdentry_free"}
  /\ LET e == Entry(t[p].wa)
         old == [k |-> t[p].wa.k, a |-> t[p].wa.a, c |-> entries[e]]
     IN kt' = IF t[p].avail /\ entries[e] # Absent
              THEN [kt EXCEPT ![p] = [wa |-> old, avail |-> TRUE, lock |-> TRUE, copy |-> old]]
              ELSE [kt EXCEPT ![p].avail = FALSE, ![p].wa = None]
  /\ t' = IF At(p, "rdentry_free") THEN [t EXCEPT ![p].avail = FALSE, ![p].wa = None] ELSE t
  /\ Go(p, "repkey")
  /\ UNCHANGED <<tables, holder, keep, hurt>>

(* repkey() and cmprec(): an entry whose key is another now is deleted. *)
Repkey(p) ==
  /\ At(p, "repkey")
  /\ LET old == kt[p].wa
         moved == kt[p].avail /\ Entry(old) # Entry(Eff(p))
     IN /\ entries' = IF moved THEN [entries EXCEPT ![Entry(old)] = Absent] ELSE entries
        /\ kt' = IF moved THEN [kt EXCEPT ![p] = NoEntry] ELSE kt
        /\ Go(p, IF kt[p].avail /\ old = Eff(p) THEN "put" ELSE "putkey")
  /\ UNCHANGED <<stored, subs, holder, t, keep, hurt>>

(* reprec(): what is put, if it is not what is there under the own lock. *)
Copied(x, r, same) == [x EXCEPT !.avail = TRUE, !.copy = IF same THEN r ELSE @]
Unchanged(x, r) == x.lock /\ x.avail /\ x.copy = r

Putkey(p) ==
  /\ At(p, "putkey")
  /\ LET r == Eff(p)
         same == kt[p].copy # None /\ Entry(kt[p].copy) = Entry(r)
     IN /\ entries' = IF Unchanged(kt[p], r) THEN entries ELSE [entries EXCEPT ![Entry(r)] = r.c]
        /\ kt' = [kt EXCEPT ![p] = Copied(@, r, same)]
  /\ Go(p, "put")
  /\ UNCHANGED <<stored, subs, holder, t, keep, hurt>>

Reprec(p) ==
  /\ At(p, "put")
  /\ LET r == Eff(p)
         after == [Copied(t[p], r, t[p].copy # None /\ t[p].copy.k = r.k) EXCEPT !.wa = r, !.loaded = TRUE, !.set = NoTable.set]
     IN /\ stored' = IF Unchanged(t[p], r) THEN stored ELSE [stored EXCEPT ![r.k] = Row(r)]
        /\ IF keep[p] THEN t' = [t EXCEPT ![p] = after] /\ holder' = holder
           ELSE t' = [t EXCEPT ![p] = [after EXCEPT !.lock = FALSE, !.copy = None]] /\ holder' = Unlocked(p)
  /\ kt' = [kt EXCEPT ![p].wa = None] /\ keep' = [keep EXCEPT ![p] = FALSE]
  /\ Go(p, "idle")
  /\ UNCHANGED <<entries, subs, hurt>>

(***************************************************************************)
(* delete                                                                  *)
(***************************************************************************)

(* reffile(): a record that is not the one read under the lock is read      *)
(* again, without it.                                                       *)
AsRead(p) == t[p].lock /\ t[p].avail /\ t[p].wa = t[p].copy
Delete(p) ==
  /\ At(p, "idle") /\ Reserved(p)
  /\ \A f \in Data : t[p].set[f] = None \/ (t[p].loaded /\ t[p].set[f] = t[p].wa[f])
  /\ IF AsRead(p) THEN UNCHANGED <<holder, t>> /\ Go(p, "delkey")
     ELSE /\ holder' = Unlocked(p)
          /\ LET k == Val(p, "k") IN
             IF stored[k] # Absent
             THEN t' = [t EXCEPT ![p] = [NoTable EXCEPT !.wa = With(k, stored[k]), !.loaded = TRUE, !.avail = TRUE]] /\ Go(p, "delkey")
             ELSE t' = [t EXCEPT ![p] = NoTable] /\ UNCHANGED pc
  /\ UNCHANGED <<tables, kt, keep, hurt>>

(* delset(): the entry of the fields; rdnxt() gives the lock of the key      *)
(* table's entry of ttab[] back first.                                       *)
Delkey(p) ==
  /\ At(p, "delkey")
  /\ entries' = [entries EXCEPT ![Entry(Eff(p))] = Absent]
  /\ kt' = [kt EXCEPT ![p] = NoEntry]
  /\ Go(p, "delsub")
  /\ UNCHANGED <<stored, subs, holder, t, keep, hurt>>

(* Mutant: only the first of the sub-records is deleted. *)
DelsubOne(p) ==
  /\ At(p, "delsub") /\ Go(p, "del")
  /\ subs' = subs \ {CHOOSE x \in subs \cup {None} : (\E y \in subs : y[1] = Val(p, "k")) => x # None /\ x[1] = Val(p, "k")}
  /\ UNCHANGED <<stored, entries, holder, t, kt, keep, hurt>>

(* delset() again: one sub-record after the other. *)
Below(p) == {n \in Sub : <<Val(p, "k"), n>> \in subs}
Delsub(p) ==
  /\ At(p, "delsub")
  /\ IF Below(p) = {} THEN Go(p, "del") /\ UNCHANGED subs
     ELSE subs' = subs \ {<<Val(p, "k"), CHOOSE n \in Below(p) : \A m \in Below(p) : n <= m>>} /\ UNCHANGED pc
  /\ UNCHANGED <<stored, entries, holder, t, kt, keep, hurt>>

(* delhier(): the record, the lock and the fields. *)
Delhier(p) ==
  /\ At(p, "del")
  /\ stored' = [stored EXCEPT ![Val(p, "k")] = Absent]
  /\ holder' = Unlocked(p)
  /\ t' = [t EXCEPT ![p] = NoTable]
  /\ Go(p, "idle")
  /\ UNCHANGED <<entries, subs, kt, keep, hurt>>

(* A signal: closedb() deletes the locks; the command stops where it is. *)
Signal(p) ==
  /\ hurt' = IF At(p, "idle") THEN hurt ELSE hurt \cup {Val(p, "k")}
  /\ holder' = [k \in Key |-> IF holder[k] = p THEN Nobody ELSE holder[k]]
  /\ t' = [t EXCEPT ![p] = NoTable] /\ kt' = [kt EXCEPT ![p] = NoEntry]
  /\ Go(p, "idle") /\ UNCHANGED <<tables, keep>>

Command(p) ==
  \/ \E k \in Key : Get(p, k)
  \/ \E f \in Data, v \in Value : Assign(p, f, v)
  \/ \E n \in Sub : AddSub(p, n)
  \/ Unlock(p) \/ Put(p) \/ Delete(p)
Inside(p) == Rdkey(p) \/ Rdentry(p) \/ Repkey(p) \/ Putkey(p) \/ Reprec(p) \/ Delkey(p) \/ Delsub(p) \/ Delhier(p)
Next == \E p \in Prog : Command(p) \/ Inside(p) \/ Signal(p)
Spec == Init /\ [][Next]_vars

(***************************************************************************)
(* Properties                                                              *)
(***************************************************************************)
TypeOK ==
  /\ stored \in [Key -> Rows \cup {Absent}] /\ entries \in [EntryKeys -> Value \cup {Absent}]
  /\ subs \subseteq Key \X Sub /\ hurt \subseteq Key
  /\ holder \in [Key -> Prog \cup {Nobody}]
  /\ t \in [Prog -> [set : {s \in [Fields -> Value \cup Key \cup {None}] : s["k"] \in Key \cup {None} /\ \A f \in Data : s[f] \in Value \cup {None}},
                     wa : Records \cup {None}, loaded : BOOLEAN, avail : BOOLEAN, lock : BOOLEAN, copy : Records \cup {None}]]
  /\ kt \in [Prog -> [wa : Records \cup {None}, avail : BOOLEAN, lock : BOOLEAN, copy : Records \cup {None}]]

Touches(p, k) == ~At(p, "idle") /\ Val(p, "k") = k
Quiet(k) == k \notin hurt /\ \A p \in Prog : ~Touches(p, k)

(* Between commands the key table has one entry for each record, with the   *)
(* values of the record, and no other, whatever programs did at a time, if  *)
(* they reserved what they changed.                                         *)
IndexFits == \A k \in Key : Quiet(k) => \A v \in Value :
  entries[<<v, k>>] = IF stored[k] # Absent /\ stored[k].a = v THEN stored[k].c ELSE Absent

(* No sub-record outlives its record. *)
NoOrphans == \A k \in Key, n \in Sub : Quiet(k) /\ <<k, n>> \in subs => stored[k] # Absent

(* What a program changes is reserved for it all the time.                  *)
ChangesHeld == [][\A k \in Key : stored'[k] # stored[k] => \E p \in Prog : holder[k] = p /\ Touches(p, k)]_vars
=============================================================================
