------------------------------- MODULE Qsort -------------------------------
(***************************************************************************)
(* qsort() of the C library (lib/libxc/qsort.c), step by step: three-way   *)
(* partition around the middle element, recursion into one side and a jump *)
(* for the other.  Pointers are indices, in elements.                      *)
(***************************************************************************)
EXTENDS Integers, Sequences

CONSTANTS
  MaxLen,     \* number of elements at most
  SortKeys    \* what the comparison function compares

ASSUME QsortAssumption == MaxLen \in Nat /\ SortKeys \subseteq Int

VARIABLES
  arr,      \* the array, from index 1: each element has its key and where it was at first
  given,    \* the array as it was given
  sort,     \* where qs1() is, and its a, l, i, j, lp and hp: the piece from a to l - 1,
            \* in which lp to hp equal the pivot, a to i - 1 are less and j + 1 on greater
  calls     \* what is left to do in the calls of qs1() that wait for an inner one

qsortVars == <<arr, given, sort, calls>>

Piece(a, l) == [at |-> "start", a |-> a, l |-> l, i |-> a, j |-> a, lp |-> a, hp |-> a]

QsortInit ==
  /\ \E n \in 0 .. MaxLen : \E key \in [1 .. n -> SortKeys] :
       given = [k \in 1 .. n |-> [key |-> key[k], was |-> k]]
  /\ arr = given /\ sort = Piece(1, Len(given) + 1) /\ calls = <<>>

qscmp(x, y) == arr[x].key - arr[y].key

qsexc(x, y) == arr' = [arr EXCEPT ![x] = arr[y], ![y] = arr[x]]

\* x takes what z had, z what y had and y what x had; z is never x, and y may be z.
qstexc(x, y, z) == arr' = [arr EXCEPT ![x] = arr[z], ![z] = arr[y], ![y] = arr[x]]

\* A piece of one element or none is sorted: the caller goes on, if there is one.
Return ==
  /\ sort.at = "start" /\ sort.l - sort.a <= 1
  /\ IF calls = <<>> THEN sort' = [sort EXCEPT !.at = "done"] /\ UNCHANGED calls
     ELSE sort' = Head(calls) /\ calls' = Tail(calls)
  /\ UNCHANGED arr

Pivot ==
  LET n == sort.l - sort.a IN
  /\ sort.at = "start" /\ n > 1
  /\ sort' = [sort EXCEPT !.at = "up", !.i = sort.a, !.j = sort.l - 1,
                          !.lp = sort.a + n \div 2, !.hp = sort.a + n \div 2]
  /\ UNCHANGED <<arr, calls>>

\* From i up to the pivots.
Up ==
  LET i == sort.i  lp == sort.lp IN
  /\ sort.at = "up" /\ UNCHANGED calls
  /\ \/ i < lp /\ qscmp(i, lp) = 0 /\ sort' = [sort EXCEPT !.lp = @ - 1] /\ qsexc(i, lp - 1)
     \/ i < lp /\ qscmp(i, lp) < 0 /\ sort' = [sort EXCEPT !.i = @ + 1] /\ UNCHANGED arr
     \/ /\ ~(i < lp) \/ qscmp(i, lp) > 0
        /\ sort' = [sort EXCEPT !.at = "down"] /\ UNCHANGED arr

\* From j down to the pivots, to find what changes places with i.  Mutant: the
\* pivots stay where they were when there is nothing at i.
PivotsStay(i, j) ==
  /\ sort' = [sort EXCEPT !.at = "up", !.i = @ + 1, !.j = @ - 1] /\ qsexc(i, j)
Down1(i, j) ==
  IF i = sort.lp
  THEN /\ sort' = [sort EXCEPT !.hp = @ + 1, !.lp = @ + 1, !.i = @ + 1] /\ qstexc(i, sort.hp + 1, j)
  ELSE /\ sort' = [sort EXCEPT !.at = "up", !.i = @ + 1, !.j = @ - 1] /\ qsexc(i, j)

Down ==
  LET j == sort.j  hp == sort.hp IN
  /\ sort.at = "down" /\ j > hp /\ UNCHANGED calls
  /\ \/ qscmp(hp, j) = 0 /\ sort' = [sort EXCEPT !.hp = @ + 1] /\ qsexc(hp + 1, j)
     \/ qscmp(hp, j) < 0 /\ sort' = [sort EXCEPT !.j = @ - 1] /\ UNCHANGED arr
     \/ qscmp(hp, j) > 0 /\ Down1(sort.i, j)

\* Only i is left over: the pivots move down.
Shift ==
  /\ sort.at = "down" /\ sort.j <= sort.hp /\ sort.i # sort.lp
  /\ qstexc(sort.j, sort.lp - 1, sort.i)
  /\ sort' = [sort EXCEPT !.at = "up", !.lp = @ - 1, !.hp = @ - 1, !.j = sort.hp - 1]
  /\ UNCHANGED calls

\* Mutant: the larger side first.
LargerFirst == sort.lp - sort.a >= sort.l - sort.hp
LeftFirst   == sort.lp - sort.a < sort.l - sort.hp

\* Mutant: the first element above the pivots is passed over.
Beyond == sort.hp + 2
Above  == sort.hp + 1

\* Both sides of the pivots are still to be sorted: one by a call, then the other.
Split ==
  LET left  == Piece(sort.a, sort.lp)
      right == Piece(Above, sort.l)
      first == IF LeftFirst THEN left ELSE right IN
  /\ sort.at = "down" /\ sort.j <= sort.hp /\ sort.i = sort.lp
  /\ sort' = first /\ calls' = <<IF first = left THEN right ELSE left>> \o calls
  /\ UNCHANGED arr

QsortNext == (Return \/ Pivot \/ Up \/ Down \/ Shift \/ Split) /\ UNCHANGED given

QsortSpec == QsortInit /\ [][QsortNext]_qsortVars
-----------------------------------------------------------------------------
(* Properties. *)

\* The array is what it was, in order, and nothing else (qsort.c:16-85).
Rearranged ==
  /\ {arr[k] : k \in DOMAIN arr} = {given[k] : k \in DOMAIN given}
  /\ sort.at = "done" => \A k \in 1 .. Len(arr) - 1 : arr[k].key <= arr[k + 1].key

\* Within a piece, i and j stay on their sides of the pivots and inside the piece,
\* and have left behind only what belongs there (qsort.c:37-83).
Partitioned ==
  LET s == sort IN
  s.at \in {"up", "down"} =>
    /\ s.a <= s.i /\ s.i <= s.lp /\ s.lp <= s.hp /\ s.hp <= s.j /\ s.j < s.l
    /\ \A k \in s.a .. s.i - 1 : arr[k].key < arr[s.lp].key
    /\ \A k \in s.lp .. s.hp : arr[k].key = arr[s.lp].key
    /\ \A k \in s.j + 1 .. s.l - 1 : arr[k].key > arr[s.lp].key

\* The calls nest no deeper than the length can be halved (qsort.c:71-77).
TwoTo[n \in 0 .. MaxLen] == IF n = 0 THEN 1 ELSE 2 * TwoTo[n - 1]
Shallow == TwoTo[Len(calls)] <= Len(arr) + 1

\* qsort() sorts, on a stack of fixed size.
SortsRight == Rearranged /\ Partitioned /\ Shallow
=============================================================================
