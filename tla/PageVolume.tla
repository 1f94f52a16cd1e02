----------------------------- MODULE PageVolume -----------------------------
(***************************************************************************)
(* What page allocation promises to the rest of the engine: pages move     *)
(* between the free space, the private hands of one process and the tree   *)
(* of one table, each move in one step.  PageSpace implements it with a    *)
(* bitmap on disk, a lock and the page lists of each process.              *)
(***************************************************************************)
CONSTANTS Proc, Table, Pages, SystemPages, FirstTree, FirstSpare

VARIABLES
    free,  \* pages nobody has
    held,  \* pages in the hands of each process
    live,  \* pages of the tree of each table
    gone   \* pages left allocated by a process that died

vars == <<free, held, live, gone>>

Init ==
    /\ live = FirstTree
    /\ held = [p \in Proc |-> FirstSpare]
    /\ gone = {}
    /\ free = Pages \ (SystemPages \cup FirstSpare
                         \cup UNION {FirstTree[t] : t \in Table})

(* A process takes free pages. *)
Take(p) ==
    \E S \in SUBSET free :
        /\ S # {}
        /\ free' = free \ S
        /\ held' = [held EXCEPT ![p] = @ \cup S]
        /\ UNCHANGED <<live, gone>>

(* It gives pages back. *)
Give(p) ==
    \E S \in SUBSET held[p] :
        /\ S # {}
        /\ free' = free \cup S
        /\ held' = [held EXCEPT ![p] = @ \ S]
        /\ UNCHANGED <<live, gone>>

(* It puts pages of its own into a tree for pages of the tree. *)
Exchange(p, t) ==
    \E N \in SUBSET held[p], O \in SUBSET live[t] :
        /\ live' = [live EXCEPT ![t] = (@ \ O) \cup N]
        /\ held' = [held EXCEPT ![p] = (@ \ N) \cup O]
        /\ UNCHANGED <<free, gone>>

(* It dies, or is interrupted, and loses track of pages it had. *)
Lose(p) ==
    \E S \in SUBSET held[p] :
        /\ held' = [held EXCEPT ![p] = @ \ S]
        /\ gone' = gone \cup S
        /\ UNCHANGED <<free, live>>

Next ==
    \E p \in Proc :
        \/ Take(p) \/ Give(p) \/ Lose(p)
        \/ \E t \in Table : Exchange(p, t)

Spec == Init /\ [][Next]_vars

(* Each page is in one place, and in one only. *)
Partition ==
    /\ \A p \in Proc : held[p] \cap (free \cup gone \cup SystemPages) = {}
    /\ \A p, q \in Proc : p # q => held[p] \cap held[q] = {}
    /\ \A t \in Table : live[t] \cap (free \cup gone \cup SystemPages) = {}
    /\ \A t, u \in Table : t # u => live[t] \cap live[u] = {}
    /\ \A p \in Proc, t \in Table : held[p] \cap live[t] = {}
    /\ free \cap (gone \cup SystemPages) = {} /\ gone \cap SystemPages = {}
    /\ \A n \in Pages :
          \/ n \in free \cup gone \cup SystemPages
          \/ \E p \in Proc : n \in held[p]
          \/ \E t \in Table : n \in live[t]
=============================================================================
