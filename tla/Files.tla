---- MODULE Files ----
(***************************************************************************)
(* The files and pipes a program has open (pfile.c): a table of slots, one *)
(* for each alias, with the streams to read and to write and, for a pipe,  *)
(* the child that runs the command.  "openin", "openout", "openapp",       *)
(* "popenin", "popenout", "popenio", "read", "write", "close" and the      *)
(* "fork" of a command, the signal of a pipe nobody reads (bp_intr), and   *)
(* the end of the program, which closes what is open.                      *)
(* Lines are counted, not kept; pipes hold any number of lines.            *)
(***************************************************************************)
EXTENDS Integers, Sequences, FiniteSets

CONSTANTS Aliases,      \* aliases the program gives
          Names,        \* ordinary files
          Status,       \* what a command can end with
          PidFits,      \* process numbers fit a short (at most 32767)
          ForkFails,    \* fork() can fail
          Reserved,     \* which of "stdin", "stdout", "stderr" are opened by name
          MaxOps,       \* bound: commands of the program
          MaxKids,      \* bound: commands started
          MaxLines      \* bound: lines of a file

FilesAssumption == /\ PidFits \in BOOLEAN /\ ForkFails \in BOOLEAN
                   /\ Reserved \subseteq {"stdin", "stdout", "stderr"}
                   /\ Names \cap {"stdin", "stdout", "stderr"} = {}
                   /\ MaxOps \in Nat /\ MaxKids \in Nat /\ MaxLines \in Nat

VARIABLES slots,    \* _files[0 .. no_files - 1]
          disk,     \* lines of each file, Missing when there is none
          kids,     \* the commands started by popen and fork, in their order
          streams,  \* the FILE*s that are open, numbered in their order
          bp,       \* bp_flag: a broken pipe was signalled
          error,    \* the variable ERROR
          exit,     \* the variable EXIT
          doing,    \* the command that waits, Nothing otherwise
          ops,      \* commands given
          opened,   \* history: FILE*s ever opened
          stamps    \* history: for a slot, when it was opened

vars == <<slots, disk, kids, streams, bp, error, exit, doing, ops, opened, stamps>>

Missing == -1
NoFile == [is |-> "none"]
Std(n) == [is |-> n]
Nothing == [is |-> "nothing"]
Free == [flags |-> {}, alias |-> "", rd |-> NoFile, wr |-> NoFile, kid |-> 0]

InUse(s) == s.flags # {}                        \* cmd_flags
IsPipe(s) == "pipe" \in s.flags
Own(f) == f.is \in {"file", "pipe"}
Ids(f) == IF Own(f) THEN {f.id} ELSE {}

Init ==
  /\ slots = <<>> /\ disk \in [Names -> {Missing, 1}] /\ kids = <<>> /\ streams = {} /\ bp = FALSE
  /\ error = 0 /\ exit = 0 /\ doing = Nothing /\ ops = 0 /\ opened = 0 /\ stamps = <<>>

----------------------------------------------------------------------------
\* The table

\* Where an open puts its alias: it looks at the slots up to the first free one,
\* and grows the table when none is free.
FirstFree == CHOOSE i \in 1..Len(slots) + 1 :
               /\ i <= Len(slots) => ~InUse(slots[i])
               /\ \A j \in 1..i - 1 : InUse(slots[j])

Taken(a) == \E j \in 1..FirstFree - 1 : slots[j].alias = a

Having(a) == {i \in 1..Len(slots) : InUse(slots[i]) /\ slots[i].alias = a}

\* getfp(): the first slot in use with the alias, 0 when there is none.
Slot(a) == IF Having(a) = {} THEN 0 ELSE CHOOSE i \in Having(a) : \A j \in Having(a) : i <= j

\* newfile(): the table has slot i.
Grown(i) == IF i > Len(slots) THEN Append(slots, Free) ELSE slots
GrownStamps(i) == IF i > Len(stamps) THEN Append(stamps, 0) ELSE stamps

Answer(e) == error' = e /\ doing' = Nothing

\* setvar(v_ERROR, ..): the command ends.
Command == doing = Nothing /\ ops < MaxOps /\ ops' = ops + 1

Refused(i, e) == /\ slots' = Grown(i) /\ stamps' = GrownStamps(i) /\ Answer(e)
                 /\ UNCHANGED <<disk, kids, streams, bp, exit, opened>>

Filled(i, s) == /\ slots' = [Grown(i) EXCEPT ![i] = s]
                /\ stamps' = [GrownStamps(i) EXCEPT ![i] = ops + 1]

----------------------------------------------------------------------------
\* Opening

Modes == {"in", "out", "app"}

\* What _fopen() gets for a name: a stream of the program or one of its own, or
\* NoFile when the system refuses (a file to read that is not there).
Stream(n, mode) ==
  IF n \in (IF mode = "in" THEN {"stdin"} ELSE {"stdout", "stderr"}) THEN Std(n)
  ELSE IF n \notin Names \/ (mode = "in" /\ disk[n] = Missing) THEN NoFile
  ELSE [is |-> "file", id |-> opened + 1, name |-> n, at |-> 0]

Fopen(a, n, mode) ==
  /\ Command
  /\ IF Taken(a) THEN Refused(1, 27)
     ELSE LET i == FirstFree
              f == Stream(n, mode)
          IN  IF f = NoFile THEN Refused(i, 21)
              ELSE /\ Filled(i, [flags |-> {"open", mode}, alias |-> a, kid |-> 0,
                                 rd |-> IF mode = "in" THEN f ELSE NoFile,
                                 wr |-> IF mode = "in" THEN NoFile ELSE f])
                   /\ streams' = streams \cup Ids(f)
                   /\ opened' = IF Own(f) THEN opened + 1 ELSE opened
                   /\ disk' = IF Own(f) /\ (mode = "out" \/ (mode = "app" /\ disk[n] = Missing))
                              THEN [disk EXCEPT ![n] = 0] ELSE disk
                   /\ Answer(0) /\ UNCHANGED <<kids, bp, exit>>

Kid(in, out) == [state |-> "runs", status |-> 0, reads |-> in, writes |-> out, lines |-> 0, shut |-> FALSE]

\* _popen(): the parent has the other ends of the child's pipes.
Popen(a, mode) ==
  /\ Command /\ Len(kids) < MaxKids
  /\ IF Taken(a) THEN Refused(1, 27)
     ELSE LET i == FirstFree
              rd == IF "in" \in mode THEN [is |-> "pipe", id |-> opened + 1] ELSE NoFile
              wr == IF "out" \in mode THEN [is |-> "pipe", id |-> opened + 2] ELSE NoFile
          IN  \/ /\ Filled(i, [flags |-> mode \cup {"open", "pipe"}, alias |-> a, rd |-> rd, wr |-> wr,
                               kid |-> Len(kids) + 1])
                 /\ kids' = Append(kids, Kid("out" \in mode, "in" \in mode))
                 /\ streams' = streams \cup Ids(rd) \cup Ids(wr)
                 /\ opened' = opened + 2 /\ Answer(0) /\ UNCHANGED <<disk, bp, exit>>
              \/ \* the pipes are made before fork(), and stay open when it fails
                 /\ ForkFails /\ slots' = Grown(i) /\ stamps' = GrownStamps(i) /\ Answer(21)
                 /\ streams' = streams \cup Ids(rd) \cup Ids(wr)
                 /\ opened' = opened + 2 /\ UNCHANGED <<disk, kids, bp, exit>>

----------------------------------------------------------------------------
\* Reading and writing

Runs(s) == kids[s.kid].state = "runs"

\* _read() from a file: a line, or 26 at the end.
Read(a) ==
  /\ Command
  /\ LET i == Slot(a) IN
     IF i = 0 THEN Refused(1, 25)
     ELSE CASE slots[i].rd.is = "none" -> Refused(1, 22)
            [] slots[i].rd.is = "stdin" -> \E e \in {0, 26} : Refused(1, e)
            [] slots[i].rd.is = "pipe" ->
                 /\ doing' = [is |-> "read", slot |-> i]
                 /\ UNCHANGED <<slots, stamps, disk, kids, streams, bp, error, exit, opened>>
            [] slots[i].rd.is = "file" ->
                 IF slots[i].rd.at < disk[slots[i].rd.name]
                 THEN /\ slots' = [slots EXCEPT ![i].rd.at = @ + 1] /\ Answer(0)
                      /\ UNCHANGED <<stamps, disk, kids, streams, bp, exit, opened>>
                 ELSE Refused(1, 26)

\* fgets() of a pipe comes back with a line of the child, or with nothing when the
\* child has ended.
ReadPipe ==
  /\ doing.is = "read"
  /\ LET k == slots[doing.slot].kid IN
       \/ /\ kids[k].lines > 0 /\ kids' = [kids EXCEPT ![k].lines = @ - 1] /\ Answer(0)
       \/ /\ kids[k].lines = 0 /\ kids[k].state # "runs" /\ Answer(26) /\ UNCHANGED kids
  /\ UNCHANGED <<slots, stamps, disk, streams, bp, exit, ops, opened>>

Wrote(f, d) == IF f.is = "file" /\ d[f.name] < MaxLines THEN [d EXCEPT ![f.name] = @ + 1] ELSE d

Signalled(s) == s.wr.is = "pipe" /\ ~Runs(s)

\* _write(): prfield() flushes the stream at its end, and a pipe without a reader
\* brings the signal then.
Write(a) ==
  /\ Command
  /\ LET i == Slot(a) IN
     IF i = 0 THEN Refused(1, 25)
     ELSE IF slots[i].wr.is = "none" THEN Refused(1, 23)
     ELSE /\ disk' = Wrote(slots[i].wr, disk)
          /\ Answer(IF bp \/ Signalled(slots[i]) THEN 28 ELSE 0)
          /\ bp' = FALSE
          /\ UNCHANGED <<slots, stamps, kids, streams, exit, opened>>

\* A write that ends with "eof": prfield() comes back at once with what it has in
\* the buffer, the stream is closed, which writes the buffer, and the slot can no
\* longer be written; the signal, if there is one, comes after the flag was looked at.
WriteEof(a) ==
  /\ Command
  /\ LET i == Slot(a) IN
     IF i = 0 THEN Refused(1, 25)
     ELSE IF slots[i].wr.is = "none" THEN Refused(1, 23)
     ELSE /\ slots[i].wr.is \in {"file", "pipe"}
          /\ slots' = [slots EXCEPT ![i] = [slots[i] EXCEPT !.wr = NoFile, !.flags = @ \ {"out"}]]
          /\ streams' = streams \ Ids(slots[i].wr)
          /\ disk' = Wrote(slots[i].wr, disk)
          /\ bp' = Signalled(slots[i])
          /\ Answer(IF bp THEN 28 ELSE 0)
          /\ UNCHANGED <<stamps, kids, exit, opened>>

----------------------------------------------------------------------------
\* Closing

IsStd(s) == s.rd.is = "stdin" \/ s.wr.is \in {"stdout", "stderr"}

\* Mutant: the stream to write is closed only when there is none to read.
FclosedOne(s) == IF IsStd(s) THEN streams
                 ELSE IF s.rd # NoFile THEN streams \ Ids(s.rd) ELSE streams \ Ids(s.wr)

\* _fclose(): the streams of a slot are closed, those of the program are left open.
Fclosed(s) == IF IsStd(s) THEN streams ELSE (streams \ Ids(s.rd)) \ Ids(s.wr)

\* A child whose pipe to write was closed, and that has not ended.
Shut(s, ks) == IF s.kid = 0 THEN ks ELSE [ks EXCEPT ![s.kid].shut = TRUE]

Close(a) ==
  /\ Command
  /\ LET i == Slot(a) IN
     IF i = 0 THEN Refused(1, 25)
     ELSE LET s == slots[i] IN
          /\ slots' = [slots EXCEPT ![i] = Free]
          /\ streams' = Fclosed(s)
          /\ kids' = Shut(s, kids)
          /\ UNCHANGED <<stamps, disk, bp, exit, opened>>
          /\ IF IsPipe(s) THEN /\ doing' = [is |-> "close", kid |-> s.kid, status |-> 0]
                               /\ UNCHANGED error
             ELSE Answer(IF ~IsStd(s) /\ s.rd = NoFile /\ s.wr = NoFile THEN 25 ELSE 0)

\* pfork(): a command run to its end.
Fork ==
  /\ Command /\ Len(kids) < MaxKids
  /\ kids' = Append(kids, Kid(FALSE, FALSE))
  /\ doing' = [is |-> "fork", kid |-> Len(kids) + 1, status |-> 0]
  /\ UNCHANGED <<slots, stamps, disk, streams, bp, error, exit, opened>>

Waiting == doing.is \in {"close", "fork"}

\* The child waited for: _pclose() keeps what wait() returns in a short.
IsIt(k) == k = doing.kid /\ (doing.is = "fork" \/ PidFits)

\* A turn of the loop around wait(): some child that has ended is collected, or
\* there is none left to wait for.  EXIT is the status wait() stored last.
Collect ==
  /\ Waiting
  /\ \/ \E k \in DOMAIN kids :
          /\ kids[k].state = "ended"
          /\ kids' = [kids EXCEPT ![k].state = "gone"]
          /\ IF IsIt(k) THEN exit' = kids[k].status /\ Answer(0)
             ELSE doing' = [doing EXCEPT !.status = kids[k].status] /\ UNCHANGED <<error, exit>>
     \/ /\ \A k \in DOMAIN kids : kids[k].state = "gone"
        /\ exit' = doing.status /\ Answer(0) /\ UNCHANGED kids
  /\ UNCHANGED <<slots, stamps, disk, streams, bp, ops, opened>>

\* A command ends by itself; one whose pipes are closed gets the end of its input
\* or a signal.
KidEnds(k) ==
  /\ kids[k].state = "runs" /\ \E s \in Status : kids' = [kids EXCEPT ![k] = [@ EXCEPT !.state = "ended", !.status = s]]
  /\ UNCHANGED <<slots, stamps, disk, streams, bp, error, exit, doing, ops, opened>>
KidWrites(k) ==
  /\ kids[k].state = "runs" /\ kids[k].writes /\ kids[k].lines < MaxLines
  /\ kids' = [kids EXCEPT ![k].lines = @ + 1]
  /\ UNCHANGED <<slots, stamps, disk, streams, bp, error, exit, doing, ops, opened>>
KidStep(k) == KidEnds(k) \/ KidWrites(k)

ClosedAll == UNION {Ids(slots[i].rd) \cup Ids(slots[i].wr) : i \in {j \in DOMAIN slots : ~IsStd(slots[j])}}
\* closefp(): main() closes every slot with an alias; pipes are looked for by flags
\* no slot has (the bit of "open" is always set), so all of them go the way of files
\* and no child is waited for.
Exit ==
  /\ doing = Nothing /\ doing' = [is |-> "exit"]
  /\ streams' = streams \ ClosedAll
  /\ slots' = [i \in DOMAIN slots |-> Free]
  /\ UNCHANGED <<stamps, disk, kids, bp, error, exit, ops, opened>>

Opens(a) == \/ \E n \in Names \cup Reserved, m \in Modes : Fopen(a, n, m)
            \/ \E m \in (SUBSET {"in", "out"}) \ {{}} : Popen(a, m)
Uses(a) == Read(a) \/ Write(a) \/ WriteEof(a) \/ Close(a)
Next == \/ \E a \in Aliases : Opens(a) \/ Uses(a)
        \/ ReadPipe \/ Fork \/ Collect \/ Exit
        \/ \E k \in DOMAIN kids : KidStep(k)

\* The program goes on as long as it can; a command that was forked, or whose pipes
\* are closed, ends some time.
MustEnd(k) == kids[k].shut \/ (doing.is = "fork" /\ doing.kid = k)
Fairness == /\ WF_vars(ReadPipe) /\ WF_vars(Collect)
            /\ \A k \in 1..MaxKids : WF_vars(k \in DOMAIN kids /\ MustEnd(k) /\ KidEnds(k))
Spec == Init /\ [][Next]_vars /\ Fairness

----------------------------------------------------------------------------
\* Properties

\* An alias that was closed and opened again while another slot had it too (the
\* search of an open ends at the first free slot) names the file opened last.
Newest == \A a \in Aliases : Having(a) # {} => \A i \in Having(a) : stamps[i] <= stamps[Slot(a)]

\* Every stream that is open belongs to one slot in use, and none is open when the
\* program has ended.
NoLeak == /\ streams = UNION {Ids(slots[i].rd) \cup Ids(slots[i].wr) : i \in {j \in DOMAIN slots : InUse(slots[j])}}
          /\ \A i, j \in DOMAIN slots :
               i # j => (Ids(slots[i].rd) \cup Ids(slots[i].wr)) \cap (Ids(slots[j].rd) \cup Ids(slots[j].wr)) = {}

\* A write into a pipe whose command has ended is answered with 28, never with 0.
BrokenTold ==
  [][\A a \in Aliases :
       Slot(a) # 0 /\ Signalled(slots[Slot(a)]) /\ Write(a) => error' = 28]_vars

\* A close of a pipe, and a fork, that came back have collected their own command,
\* whichever commands ended before it.
Collected == \A k \in DOMAIN kids :
               kids[k].shut /\ ~(doing.is = "close" /\ doing.kid = k) /\ doing.is # "exit" => kids[k].state = "gone"

\* A close of a pipe and a fork come back, whatever the other commands do.
ClosesEnd == Waiting ~> ~Waiting
====
