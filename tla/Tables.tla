------------------------------- MODULE Tables -------------------------------
(* The arrays the compiler fills (getmem.c).  An array grows by a block at a  *)
(* time and may move as it does; a parser that keeps a pointer to an element  *)
(* while others are taken has it held, so that it is moved with the array.    *)
(* A step here is one operation of one statement (module Statements).         *)
EXTENDS Statements, FiniteSets

CONSTANTS Arrays,
          Block,         \* how many elements an array has to begin with and grows by
          AddressFirst   \* l->f = getmem(): the compiler of C reads l before the call

Constants == Block \in [Arrays -> Nat \ {0}] /\ AddressFirst \in BOOLEAN

VARIABLES todo,    \* what is left of the statement
          used, size, base,   \* of each array: its elements, its room, where it lies
          number,  \* the elements the statement has taken, by name
          ptr,     \* its locals: the array, the element and where the array lay
          held,    \* the locals that move with their array
          links,   \* what the arrays now hold of its elements
          filled, lost   \* elements it wrote to; whether a write missed the array

vars == <<todo, used, size, base, number, ptr, held, links, filled, lost>>

Old == "field"   \* the field before the statement, which range and join change
NoNames == [n \in {} |-> n]
With(f, n, v) == [m \in DOMAIN f \cup {n} |-> IF m = n THEN v ELSE f[m]]

Taken(p) == {p[i].arr : i \in {j \in 1..Len(p) : p[j].op \in {"new", "putnew"}}}

(* A statement begins with its arrays filled to any point of their blocks.   *)
Start(p) ==
  /\ todo' = p
  /\ \E f \in [Taken(p) -> 0..4] :
       /\ \A a \in Taken(p) : f[a] <= Block[a]
       /\ used' = [a \in Arrays |-> IF a \in Taken(p) THEN f[a] ELSE 0]
  /\ size' = Block /\ base' = [a \in Arrays |-> 0]
  /\ number' = With(NoNames, Old, <<"XT", 0>>) /\ ptr' = NoNames /\ held' = {}
  /\ links' = {} /\ filled' = {} /\ lost' = FALSE

Idle ==
  /\ todo = <<>> /\ used = [a \in Arrays |-> 0] /\ size = Block /\ base = [a \in Arrays |-> 0]
  /\ number = NoNames /\ ptr = NoNames /\ held = {} /\ links = {} /\ filled = {} /\ lost = FALSE
Init == Idle

Begin == Idle /\ \E p \in loadstate : Start(p)

(* The next statement does not look at what this one has put down.           *)
Accepted == todo = <<>>
Refused == todo = <<Fail>>
Done ==
  /\ (Accepted \/ Refused) /\ ~Idle
  /\ todo' = <<>> /\ used' = [a \in Arrays |-> 0] /\ size' = Block /\ base' = [a \in Arrays |-> 0]
  /\ number' = NoNames /\ ptr' = NoNames /\ held' = {} /\ links' = {} /\ filled' = {} /\ lost' = FALSE

Next1 == Head(todo)
Is(o) == todo # <<>> /\ Next1.op = o
Advance == todo' = Tail(todo)

(* getXXmem(): a full array is made larger by a block, and may move.         *)
Full(a) == used[a] = size[a]
Take(a, e) ==
  /\ used' = [used EXCEPT ![a] = @ + 1]
  /\ number' = With(number, e, <<a, used[a]>>)
  /\ IF Full(a)
     THEN /\ size' = [size EXCEPT ![a] = @ + Block[a]]
          /\ \E d \in {0, 1} : base' = [base EXCEPT ![a] = @ + d]
     ELSE UNCHANGED <<size, base>>

(* moveXXptrs(): the pointers that are held follow.                          *)
Followed(p, h, a) ==
  [l \in DOMAIN p |-> IF l \in h /\ p[l].el[1] = a /\ p[l].at = base[a] THEN [p[l] EXCEPT !.at = base'[a]] ELSE p[l]]

(* A write reaches the element if the pointer lies in the array as it is.    *)
Reaches(p, b) == p.at = b[p.el[1]]
Write(p, b, f, to) ==
  IF Reaches(p, b)
  THEN /\ links' = {k \in links : k[1] # p.el \/ k[2] # f} \cup {<<p.el, f, to>>}
       /\ filled' = filled \cup {p.el} /\ UNCHANGED lost
  ELSE lost' = TRUE /\ UNCHANGED <<links, filled>>

TakeElement ==
  /\ Is("new") /\ Take(Next1.arr, Next1.el) /\ ptr' = Followed(ptr, held, Next1.arr)
  /\ Advance /\ UNCHANGED <<held, links, filled, lost>>

(* allXXpt() and dallXXpt(); a local may be given another element meanwhile. *)
At(e) == [el |-> number[e], at |-> base[number[e][1]]]
HoldPointer == Is("hold") /\ ptr' = With(ptr, Next1.ptr, At(Next1.el)) /\ held' = held \cup {Next1.ptr}
               /\ Advance /\ UNCHANGED <<used, size, base, number, links, filled, lost>>
LetGo == Is("go") /\ held' = held \ {Next1.ptr}
         /\ Advance /\ UNCHANGED <<used, size, base, number, ptr, links, filled, lost>>
PointAt == Is("point") /\ ptr' = With(ptr, Next1.ptr, At(Next1.el))
           /\ Advance /\ UNCHANGED <<used, size, base, number, held, links, filled, lost>>

WriteLink == Is("put") /\ Write(ptr[Next1.ptr], base, Next1.field, number[Next1.el])
             /\ Advance /\ UNCHANGED <<used, size, base, number, ptr, held>>
WriteValue ==
  /\ Is("fill")
  /\ LET p == ptr[Next1.ptr] IN
     IF Reaches(p, base) THEN filled' = filled \cup {p.el} /\ UNCHANGED lost ELSE lost' = TRUE /\ UNCHANGED filled
  /\ Advance /\ UNCHANGED <<used, size, base, number, ptr, held, links>>

(* l->f = getXXmem(): C does not say whether l is read before the array is   *)
(* moved under it.                                                           *)
WriteTaken ==
  /\ Is("putnew") /\ Take(Next1.arr, Next1.el) /\ ptr' = Followed(ptr, held, Next1.arr)
  /\ Write(IF AddressFirst THEN ptr[Next1.ptr] ELSE ptr'[Next1.ptr], base', Next1.field, number'[Next1.el])
  /\ Advance /\ UNCHANGED held

Next == Begin \/ Done \/ TakeElement \/ HoldPointer \/ LetGo \/ PointAt \/ WriteLink \/ WriteValue \/ WriteTaken
Spec == Init /\ [][Next]_vars

(***************************************************************************)
(* Properties                                                              *)
(***************************************************************************)
(* No parser writes to where an array was before it grew.  (gettfexp.c:88:   *)
(* "getenmem can re-locate entab", leread.c:87, leprint.c:237.)              *)
NothingLost == ~lost

(* What a statement has put into the arrays can be reached from its program  *)
(* lines, or from the field it belongs to, through the arrays themselves:    *)
(* the lists of print, read and replace are whole.                           *)
RECURSIVE Reach(_)
Reach(S) == LET T == S \cup {k[3] : k \in {k \in links : k[1] \in S}} IN IF T = S THEN S ELSE Reach(T)
Roots == {e \in filled : e[1] = "PT"} \cup (filled \cap {<<"XT", 0>>})
Linked == Accepted /\ Roots # {} => filled \subseteq Reach(Roots)

(* A statement that is done holds nothing more; one that is refused leaves   *)
(* one pointer at most, so that the thirty places last for the twenty        *)
(* mistakes after which the compiler gives up.                               *)
Released == /\ Accepted => held = {}
            /\ Refused => Cardinality(held) <= 1
=============================================================================
