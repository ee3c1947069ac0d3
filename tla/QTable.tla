------------------------------- MODULE QTable -------------------------------
(***************************************************************************)
(* The q[] table (sys/insert.c, queue.c, newqueue.c): the lists of the     *)
(* kernel are doubly linked through it.  q[i] holds a key and the indices  *)
(* of the neighbours of i.  Indices below NPROC are processes, the others  *)
(* heads and tails of lists.                                               *)
(***************************************************************************)
EXTENDS KeyedList

CONSTANTS
  NPROC,           \* number of process slots, the first index of a list end
  MININT, MAXINT   \* the keys of a head and of a tail

ASSUME TableAssumption == NPROC \in Nat /\ MININT \in Int /\ MAXINT \in Int /\ MININT < MAXINT

EMPTY == -1

\* A new list with these ends.
Newqueue(q, head, tail) ==
  [q EXCEPT ![head] = [qkey |-> MININT, qnext |-> tail, qprev |-> EMPTY],
            ![tail] = [qkey |-> MAXINT, qnext |-> EMPTY, qprev |-> head]]

Nexts(q) == [i \in DOMAIN q |-> q[i].qnext]
Prevs(q) == [i \in DOMAIN q |-> q[i].qprev]

\* Where a loop ends that goes on from `from` along the links until it meets an
\* index of stops: what is met is in every set of indices that has `from` and is
\* closed under the links.  Nowhere, if the links lead round a circle without a
\* stop; anywhere, if they lead out of the table.
Met(link, from, stops) ==
  { n \in stops : \A S \in SUBSET DOMAIN link :
      from \in S /\ (\A m \in S \ stops : link[m] \in S) => n \in S }

\* Mutant: the search goes on behind equal keys.
AfterEqual(q, key) == {n \in DOMAIN q : q[n].qkey > key}
\* The entries insert() stops at; the tail, which has the largest key, is one.
NotBelow(q, key) == {n \in DOMAIN q : q[n].qkey >= key}

\* insert(): proc goes in front of the entries whose key is not below its own.
\* The set of tables this can leave.
QInsert(q, proc, head, key) ==
  { LET prev == q[next].qprev IN
      [q EXCEPT ![proc] = [qkey |-> key, qnext |-> next, qprev |-> prev],
                ![prev].qnext = proc, ![next].qprev = proc] :
    next \in Met(Nexts(q), q[head].qnext, NotBelow(q, key)) }

\* dequeue(): the entry itself keeps its links.
QDequeue(q, item) ==
  [q EXCEPT ![q[item].qprev].qnext = q[item].qnext,
            ![q[item].qnext].qprev = q[item].qprev]

\* The entry b follows a towards the tail.
Beside(E, a, b) == Ahead(b, a) /\ \A c \in E : ~(Ahead(b, c) /\ Ahead(c, a))

\* The links of the table are those of the list E, both ways.
Links(q, E) ==
  \A a, b \in E : Beside(E, a, b) => q[a.pid].qnext = b.pid /\ q[b.pid].qprev = a.pid

\* Head and tail as entries of the list between them.
HeadEntry(head) == [pid |-> head, key |-> MININT - 1, age |-> 0]
TailEntry(tail) == [pid |-> tail, key |-> MAXINT + 1, age |-> 0]

\* The table holds the list L of KeyedList between head and tail.
Represents(q, head, tail, L) ==
  /\ \A e \in L : q[e.pid].qkey = e.key
  /\ Links(q, L \cup {HeadEntry(head), TailEntry(tail)})
=============================================================================
