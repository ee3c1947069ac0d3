----------------------------- MODULE ItemQueue -----------------------------
(***************************************************************************)
(* Queues of items with priorities (sys/gpq.c).  Every call tests the      *)
(* queue first and excludes others only afterwards, with a semaphore or by *)
(* disabling interrupts.                                                   *)
(***************************************************************************)
EXTENDS Heap, Sequences, Functions

CONSTANTS
  Producer, Consumer,   \* a process that inserts, and one that makes, empties and frees
  MAXNQ,                \* size of Q[]
  Lengths,              \* sizes given to newq()
  Keys, Elts            \* priorities and items

ASSUME QueueAssumption ==
  Producer # Consumer /\ MAXNQ \in Nat \ {0} /\ Lengths \subseteq Nat \ {0} /\ Keys \subseteq Int

VARIABLES
  Q,      \* Q[q]: q_valid, q_type, q_max, q_seen, whether q_mutex is free, the first
          \* q_count entries, and the addresses q_elt and q_key: none when getmem()
          \* has given SYSERR, or nothing yet
  doing   \* doing[p]: the call p is in, how far, and its arguments

queueVars == <<Q, doing>>

Qs == 0 .. MAXNQ - 1
Nothing == [call |-> "none", at |-> "idle", q |-> 0, item |-> [key |-> 0, elt |-> 0]]
NoQueue == [valid |-> FALSE, type |-> "QF_WAIT", max |-> 0, seen |-> -1, mutex |-> TRUE,
            items |-> <<>>, elt |-> {}, key |-> {}]

\* initq().
QueueInit == Q = [q \in Qs |-> NoQueue] /\ doing = [p \in {Producer, Consumer} |-> Nothing]

Do(p, at) == doing' = [doing EXCEPT ![p] = IF at = "idle" THEN Nothing ELSE [@ EXCEPT !.at = at]]
Set(q, rec) == Q' = [Q EXCEPT ![q] = rec]

\* newq(): the first slot that is not valid, a semaphore, which is taken to be there,
\* and two arrays of one word an entry.
Newq(size, type) ==
  /\ doing[Consumer] = Nothing
  /\ \E q \in Qs :
       /\ ~Q[q].valid /\ \A r \in Qs : r < q => Q[r].valid
       /\ Set(q, [NoQueue EXCEPT !.valid = TRUE, !.type = type, !.max = size])
       /\ doing' = [doing EXCEPT ![Consumer] = [Nothing EXCEPT !.call = "newq", !.at = "elt", !.q = q]]
  /\ UNCHANGED heapVars

\* getmem(n), which gives one address or SYSERR.
Gives(a, n) ==
  \/ \E b \in memlist : GetmemFrom(b, n) /\ a = {b.at}
  \/ Fitting(roundmb(n)) = {} /\ a = {} /\ UNCHANGED heapVars

NewqMem(at, next) ==
  LET q == doing[Consumer].q IN
  /\ doing[Consumer].call = "newq" /\ doing[Consumer].at = at
  /\ \E a \in {{b.at} : b \in memlist} \cup {{}} :
       /\ Gives(a, Q[q].max)
       /\ Set(q, IF at = "elt" THEN [Q[q] EXCEPT !.elt = a] ELSE [Q[q] EXCEPT !.key = a])
  /\ Do(Consumer, next)

\* Mutant: the second array is not tested.
EltOnly(q) == Q[q].elt # {}

\* What newq() tests at the end: if an array is missing it returns -1, and leaves the
\* slot as it is, valid and with the other array.
Made(q) == Q[q].elt # {} /\ Q[q].key # {}

\* The tests at the beginning of a call.  Mutant: an entry behind the last.
NotOver(q)  == Q[q].valid /\ Len(Q[q].items) <= Q[q].max
NotFull(q)  == Q[q].valid /\ Len(Q[q].items) < Q[q].max
NotEmpty(q) == Q[q].valid /\ Q[q].items # <<>>

Call(p, call, q, item) ==
  /\ doing[p] = Nothing
  /\ doing' = [doing EXCEPT ![p] = [call |-> call, at |-> "in", q |-> q, item |-> item]]
  /\ UNCHANGED <<Q, heapVars>>

Enq(q, item) == Call(Producer, "enq", q, item) /\ NotFull(q)
Deq(q)       == Call(Consumer, "deq", q, Nothing.item) /\ NotEmpty(q)
Headq(q)     == Call(Consumer, "headq", q, Nothing.item) /\ NotEmpty(q)
Seeq(q)      == Call(Consumer, "seeq", q, Nothing.item) /\ NotEmpty(q)

\* wait(q_mutex).
Lock(p) ==
  LET q == doing[p].q IN
  /\ doing[p].at = "in" /\ Q[q].type = "QF_WAIT" /\ Q[q].mutex
  /\ Set(q, [Q[q] EXCEPT !.mutex = FALSE]) /\ Do(p, "locked") /\ UNCHANGED heapVars

\* Mutant: an item passes those of its own priority.
Overtaking(items, item) == {i \in DOMAIN items : items[i].key > item.key}
NotBelow(items, item)   == {i \in DOMAIN items : items[i].key >= item.key}

\* From the tail towards the head as long as the key is greater.
Inserted(items, item) ==
  LET A   == NotBelow(items, item)
      pos == IF A = {} THEN 0 ELSE CHOOSE i \in A : \A j \in A : j <= i
  IN  SubSeq(items, 1, pos) \o <<item>> \o SubSeq(items, pos + 1, Len(items))

Seen(q) == IF Q[q].seen + 1 >= Len(Q[q].items) THEN -1 ELSE Q[q].seen + 1

\* What a call does to the queue while it excludes the others.
Body(p) ==
  LET q == doing[p].q
      c == doing[p].call
      rec == CASE c = "enq"  -> [Q[q] EXCEPT !.items = Inserted(@, doing[p].item)]
               [] c = "deq"  -> [Q[q] EXCEPT !.items = Tail(@)]
               [] c = "headq" -> Q[q]
               [] c = "seeq" -> [Q[q] EXCEPT !.seen = Seen(q)]
  IN
  /\ c \in {"enq", "deq", "headq", "seeq"}
  /\ \/ doing[p].at = "in" /\ Q[q].type = "QF_NOWAIT" /\ Do(p, "idle")
     \/ doing[p].at = "locked" /\ Do(p, "out")
  /\ Set(q, rec) /\ UNCHANGED heapVars

Unlock(p) ==
  LET q == doing[p].q IN
  /\ doing[p].at = "out" /\ Set(q, [Q[q] EXCEPT !.mutex = TRUE])
  /\ Do(p, "idle") /\ UNCHANGED heapVars

\* freeq(), of an empty queue that its producer does not use any more.
Freeq(q) ==
  /\ Q[q].valid /\ Made(q) /\ Q[q].items = <<>> /\ doing[Consumer] = Nothing
  /\ doing[Producer].call = "none" \/ doing[Producer].q # q
  /\ doing' = [doing EXCEPT ![Consumer] = [Nothing EXCEPT !.call = "freeq", !.at = "key", !.q = q]]
  /\ UNCHANGED <<Q, heapVars>>

\* Mutant: the second array is forgotten.
NotFreed(q) == UNCHANGED heapVars
FreeElt(q)  == \E a \in Q[q].elt : Release([at |-> a, len |-> Q[q].max, of |-> "mem"])

FreeqKey ==
  LET q == doing[Consumer].q IN
  /\ doing[Consumer].call = "freeq" /\ doing[Consumer].at = "key"
  /\ \E a \in Q[q].key : Release([at |-> a, len |-> Q[q].max, of |-> "mem"])
  /\ Do(Consumer, "elt") /\ UNCHANGED Q
FreeqElt ==
  LET q == doing[Consumer].q IN
  /\ doing[Consumer].call = "freeq" /\ doing[Consumer].at = "elt" /\ FreeElt(q)
  /\ Set(q, [Q[q] EXCEPT !.valid = FALSE]) /\ Do(Consumer, "idle")

\* The producer knows the queues that have been made and are not being freed.
Known(q) == Q[q].valid /\ Made(q) /\ ~(doing[Consumer].call \in {"newq", "freeq"} /\ doing[Consumer].q = q)

QueueNext ==
  \/ \E size \in Lengths, type \in {"QF_WAIT", "QF_NOWAIT"} : Newq(size, type)
  \/ NewqMem("elt", "key") \/ NewqMem("key", "idle")
  \/ \E q \in Qs : \/ \E k \in Keys, e \in Elts : Known(q) /\ Enq(q, [key |-> k, elt |-> e])
                   \/ Deq(q) \/ Headq(q) \/ Seeq(q) \/ Freeq(q)
  \/ \E p \in {Producer, Consumer} : Lock(p) \/ Body(p) \/ Unlock(p)
  \/ FreeqKey \/ FreeqElt

\* The queues alone.
QueueSpec == HeapInit /\ QueueInit /\ [][QueueNext]_<<heapVars, queueVars>>
-----------------------------------------------------------------------------
(* Properties. *)

\* What was tested before others were excluded still holds (gpq.c:46, 97): with
\* one process on either side no entry is written behind the array, none is taken
\* from an empty queue.
TestHolds ==
  \A p \in {Producer, Consumer} :
    doing[p].at \in {"in", "locked"} =>
      LET q == doing[p].q IN
      Q[q].valid /\ IF doing[p].call = "enq" THEN Len(Q[q].items) < Q[q].max ELSE Q[q].items # <<>>

\* From the first entry of priority k to the last.
Lane(items, k) ==
  LET S == {i \in DOMAIN items : items[i].key = k} IN
  IF S = {} THEN <<>>
  ELSE SubSeq(items, CHOOSE i \in S : \A j \in S : i <= j, CHOOSE i \in S : \A j \in S : j <= i)

\* A queue is one FIFO lane for each priority, the highest first (gpq.c:56-73), and
\* every call finds it as it was tested.
Items == [key : Keys, elt : Elts]
Lanes == INSTANCE PriorityLanes WITH
  lane <- [q \in Qs |-> [k \in Keys |-> Lane(Q[q].items, k)]], Queues <- Qs, Item <- Items
Prioritised == Lanes!Spec /\ [][TestHolds']_queueVars

\* The arrays that a slot has, as far as the calls have come: a queue has two, a slot
\* on which newq() has given up what getmem() gave it.
KeyFreed(q) == doing[Consumer].q = q /\ doing[Consumer].call = "freeq" /\ doing[Consumer].at = "elt"
Arrays(q) ==
  IF ~Q[q].valid THEN {} ELSE Q[q].elt \cup (IF KeyFreed(q) THEN {} ELSE Q[q].key)
ArraysHeld ==
  /\ {u.at : u \in used} = UNION {Arrays(q) : q \in Qs}
  /\ \A q, r \in Qs : q = r \/ Arrays(q) \cap Arrays(r) = {}
  /\ \A q \in Qs : Known(q) => \E a \in Q[q].elt, b \in Q[q].key : a # b /\ Arrays(q) = {a, b}

\* From the beginning the memory handed out is the two arrays of every queue that
\* newq() has returned, and what is left in the slots on which it has given up: the
\* one leak there is (gpq.c:221-224), of one array a slot at most.
ArraysAccounted == ArraysHeld /\ [][ArraysHeld']_queueVars
=============================================================================
