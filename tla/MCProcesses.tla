----------------------------- MODULE MCProcesses -----------------------------
(* What several processes do at once: the hand-off of a program to its child, *)
(* the files and commands of a program, and programs that wait for record     *)
(* locks.  Two databases, one with two pages and one with a lock: the lists   *)
(* of one can be handed over while the lock of the other is not.  Three       *)
(* tables of two programs, each of which runs two commands.                   *)
EXTENDS ForkHandoff, TLC

CONSTANT Parts   \* the parts that are looked at

VARIABLES part,    \* the part this behaviour is about; the others stand still
          fsSlots, fsDisk, fsKids, fsStreams, fsBp, fsError, fsExit, fsDoing, fsOps, fsOpened, fsStamps,
          waitStored, waitLocks, waitTt, waitSeq, waitPc, waitOp, waitLeft

MCOwner == [t \in {"orders1", "orders2", "stock1"} |-> IF t = "orders2" THEN 2 ELSE 1]
MCRecordsOf == [t \in {"orders1", "orders2", "stock1"} |-> IF t = "stock1" THEN {2} ELSE {1}]

Fs == INSTANCE Files WITH
    Aliases <- {"a", "b"}, Names <- {"f"}, Status <- {0, 1}, PidFits <- TRUE,
    ForkFails <- FALSE, Reserved <- {"stdin", "stdout"}, MaxOps <- 3, MaxKids <- 2,
    MaxLines <- 1, slots <- fsSlots, disk <- fsDisk, kids <- fsKids, streams <- fsStreams,
    bp <- fsBp, error <- fsError, exit <- fsExit, doing <- fsDoing, ops <- fsOps,
    opened <- fsOpened, stamps <- fsStamps
Wait == INSTANCE RecordLock WITH
    Process <- {1, 2}, Table <- {"orders1", "orders2", "stock1"}, Owner <- MCOwner,
    Record <- {1, 2}, RecordsOf <- MCRecordsOf, LockOf <- [r \in 1..2 |-> r], Lock <- {1, 2},
    Value <- {7}, Absent <- 0, NoProcess <- 0, GetModes <- {"lock"}, NextModes <- {"lock"},
    Disciplined <- FALSE, Bounded <- TRUE, Calls <- 2, First <- {[r \in 1..2 |-> 7]},
    Signals <- FALSE, Kills <- 0, stored <- waitStored, locks <- waitLocks, tt <- waitTt,
    seq <- waitSeq, pc <- waitPc, op <- waitOp, left <- waitLeft
ASSUME Fs!FilesAssumption

----------------------------------------------------------------------------
(* Instances *)
MCDbOf == [g \in Page |-> 1]
MCLockDb == [l \in Lock |-> 2]

----------------------------------------------------------------------------
filesVars == <<fsSlots, fsDisk, fsKids, fsStreams, fsBp, fsError, fsExit, fsDoing, fsOps, fsOpened, fsStamps>>
waitsVars == <<waitStored, waitLocks, waitTt, waitSeq, waitPc, waitOp, waitLeft>>
allVars == <<part, vars, filesVars, waitsVars>>

FilesOff == Fs!Init /\ fsDisk = [f \in {"f"} |-> 1]

ProcessesInit ==
    /\ part \in Parts
    /\ Init
    /\ IF part = "files" THEN Fs!Init ELSE FilesOff
    /\ Wait!Init

ForkStep == /\ part = "fork" /\ Next
            /\ UNCHANGED <<part, filesVars, waitsVars>>
FilesStep == /\ part = "files" /\ Fs!Next
             /\ UNCHANGED <<part, vars, waitsVars>>
WaitsStep == /\ part = "waits" /\ Wait!Next
             /\ UNCHANGED <<part, vars, filesVars>>
ProcessesNext == ForkStep \/ FilesStep \/ WaitsStep
ProcessesSpec == ProcessesInit /\ [][ProcessesNext]_allVars
FairProcessesSpec ==
    /\ ProcessesSpec
    /\ \A p \in Process : WF_allVars(part = "fork" /\ Hand(p) /\ UNCHANGED <<part, filesVars, waitsVars>>)
    /\ WF_allVars(part = "files" /\ Fs!ReadPipe /\ UNCHANGED <<part, vars, waitsVars>>)
    /\ WF_allVars(part = "files" /\ Fs!Collect /\ UNCHANGED <<part, vars, waitsVars>>)
    /\ \A k \in 1..2 : WF_allVars(part = "files" /\ (k \in DOMAIN fsKids /\ Fs!MustEnd(k) /\ Fs!KidEnds(k)) /\ UNCHANGED <<part, vars, waitsVars>>)
    /\ \A p \in {1, 2} : WF_allVars(part = "waits" /\ Wait!Finish(p) /\ UNCHANGED <<part, vars, filesVars>>)
    /\ \A p \in {1, 2} : WF_allVars(part = "waits" /\ Wait!Start(p) /\ UNCHANGED <<part, vars, filesVars>>)

----------------------------------------------------------------------------
(* Properties *)
(* An alias names the file opened last, every stream that is open belongs to  *)
(* one slot, and a close of a pipe has collected its own command (pfile.c).   *)
FilesRight == Fs!Newest /\ Fs!NoLeak /\ Fs!Collected
(* The child of a program that exits with fork gets its turn, the close of a  *)
(* pipe comes back, and so does every command that waits for a record.        *)
WaitsEnd == ChildRuns /\ Fs!ClosesEnd /\ Fs!BrokenTold /\ Wait!WaitEnds
==============================================================================
