------------------------------ MODULE HandOver ------------------------------
(***************************************************************************)
(* The loops of release() (sys/releaseall.c:92-268), pass by pass over the *)
(* links of one wait queue, when the lock is passed on.  RWLock has in     *)
(* their place the set Admitted of a KeyedList: here the loops are shown   *)
(* to end and to admit that set.                                           *)
(***************************************************************************)
EXTENDS QTable

CONSTANTS
  Waiting,     \* the processes that may wait
  WaitPrios,   \* their lock priorities
  MaxWaits     \* bound: how often processes join the queue

lhead == NPROC
ltail == NPROC + 1

ASSUME WaitingAssumption ==
  /\ Waiting \subseteq 0 .. NPROC - 1
  /\ WaitPrios \subseteq MININT .. MAXINT
  /\ MaxWaits \in Nat

VARIABLES
  q,           \* the q[] table
  type,        \* locksState of each process for the lock
  prev,        \* prev of release()
  reader,      \* readerId and readerPriority, or readerId1 and readerPriority1
  writer,      \* writerId and writerPriority, or writerId1 and writerPriority1
  pc,          \* the loop release() is in
  admitted,    \* the processes lockAcquired() was called for
  list,        \* the queue at the start of release(), as a KeyedList
  waits        \* how often processes have joined the queue

vars == <<q, type, prev, reader, writer, pc, admitted, list, waits>>

None == [id |-> EMPTY, priority |-> 0]

\* The same queue in RWLock.
RW == INSTANCE RWLock WITH
  Procs <- Waiting, Started <- Waiting, NLOCKS <- 1, Prios <- {}, NewPrios <- {},
  InitPrio <- [p \in Waiting |-> 1], ReleaseArgs <- {},
  waitq <- [l \in {0} |-> list], locksState <- [p \in Waiting |-> [l \in {0} |-> type[p]]],
  pstate <- 0, pprio <- 0, pinh <- 0, lockid <- 0, pwaitret <- 0, rest <- 0, lstate <- 0,
  ltype <- 0, lproc <- 0, deleteTracker <- 0, nextlock <- 0, rdy <- 0, currpid <- 0, kernel <- 0

Init ==
  /\ q = Newqueue([i \in Waiting \cup {lhead, ltail} |-> [qkey |-> 0, qnext |-> 0, qprev |-> 0]],
                  lhead, ltail)
  /\ type = [p \in Waiting |-> "EMPTY"]
  /\ prev = EMPTY /\ reader = None /\ writer = None
  /\ pc = "idle" /\ admitted = {} /\ list = {} /\ waits = 0
-----------------------------------------------------------------------------
(* Between releases processes join the queue and are killed in it. *)

Wait(p, t, priority) ==
  /\ pc = "idle" /\ p \notin Pids(list)
  /\ waits < MaxWaits /\ waits' = waits + 1
  /\ q' \in QInsert(q, p, lhead, priority)
  /\ type' = [type EXCEPT ![p] = t]
  /\ list' = Insert(list, p, priority)
  /\ UNCHANGED <<prev, reader, writer, pc, admitted>>

\* kill() dequeues a waiting process twice.
Kill(p) ==
  /\ pc = "idle" /\ p \in Pids(list)
  /\ q' = QDequeue(QDequeue(q, p), p)
  /\ list' = Remove(list, {p})
  /\ UNCHANGED <<type, prev, reader, writer, pc, admitted, waits>>
-----------------------------------------------------------------------------
(* release() *)

\* The first entry from i on along qprev whose process asked for t, or the head.
Find(links, t, i) == Met(Prevs(links), i, {k \in DOMAIN links : k >= NPROC \/ type[k] = t})

\* The id and priority to remember once a scan has stopped at i.
Found(i, old) == IF i < NPROC THEN [id |-> i, priority |-> q[i].qkey] ELSE old

\* A writer is first: the first reader is looked for; or the other way round.
Begin ==
  LET last == q[ltail].qprev
  IN  /\ pc = "idle" /\ last < NPROC
      /\ prev' \in Find(q, IF type[last] = "WRITE" THEN "READ" ELSE "WRITE", q[last].qprev)
      /\ IF type[last] = "WRITE"
           THEN /\ pc' = "writer"
                /\ writer' = Found(last, None) /\ reader' = Found(prev', None)
           ELSE /\ pc' = "reader"
                /\ reader' = Found(last, None) /\ writer' = Found(prev', None)
      /\ UNCHANGED <<q, type, admitted, list, waits>>

\* Mutant: the process stays on the queue.
NotDequeued(p) == q' = q /\ admitted' = admitted \cup {p}
LockAcquired(p) == q' = QDequeue(q, p) /\ admitted' = admitted \cup {p}

\* Favoured like RWLock!Favoured.
SamePriority ==
  reader.priority = writer.priority /\ RW!Grace(writer.id, reader.id)

\* The writer gets the lock, or the readers with its priority do.
Writer ==
  /\ pc = "writer"
  /\ IF reader # None /\ SamePriority
       THEN pc' = "favoured" /\ UNCHANGED <<q, admitted>>
       ELSE pc' = "done" /\ LockAcquired(writer.id)
  /\ UNCHANGED <<type, prev, reader, writer, list, waits>>

Reader ==
  /\ pc = "reader"
  /\ pc' = IF writer = None THEN "all"
           ELSE IF reader.priority > writer.priority THEN "before" ELSE "favoured"
  /\ prev' = IF pc' = "favoured" THEN prev ELSE q[ltail].qprev
  /\ UNCHANGED <<q, type, reader, writer, admitted, list, waits>>

\* The loops that take the entry in front of the tail as long as it is a reader
\* (and not below the writer).
Takes == prev < NPROC /\ type[prev] = "READ" /\ (pc = "before" => q[prev].qkey >= writer.priority)

TakeLast ==
  /\ pc \in {"all", "before"} /\ Takes
  /\ LockAcquired(prev)
  /\ prev' = q'[ltail].qprev
  /\ UNCHANGED <<type, reader, writer, pc, list, waits>>

\* Mutant: the reader that was first is not looked for again.
FirstReader(i) == reader
NextReader(i)  == Found(i, reader)

AfterTaking ==
  /\ pc \in {"all", "before"} /\ ~Takes
  /\ IF pc = "all" THEN pc' = "done" /\ UNCHANGED <<prev, reader>>
     ELSE /\ pc' = "favoured"
          /\ prev' \in Find(q, "READ", q[ltail].qprev)
          /\ reader' = NextReader(prev')
  /\ UNCHANGED <<q, type, writer, admitted, list, waits>>

\* One reader after the other, as long as it has the writer's priority and its
\* grace; after a writer that is first, the scan begins behind it.
TakeFavoured ==
  /\ pc = "favoured" /\ SamePriority /\ prev < NPROC
  /\ LockAcquired(reader.id)
  /\ LET last == q'[ltail].qprev
     IN  prev' \in Find(q', "READ", IF last = writer.id THEN q'[last].qprev ELSE last)
  /\ reader' = NextReader(prev')
  /\ UNCHANGED <<type, writer, pc, list, waits>>

AfterFavoured ==
  /\ pc = "favoured" /\ ~(SamePriority /\ prev < NPROC)
  /\ pc' = "done"
  /\ UNCHANGED <<q, type, prev, reader, writer, admitted, list, waits>>

Return ==
  /\ pc = "done"
  /\ pc' = "idle" /\ list' = Remove(list, admitted)
  /\ prev' = EMPTY /\ reader' = None /\ writer' = None /\ admitted' = {}
  /\ UNCHANGED <<q, type, waits>>

Loop == Writer \/ Reader \/ TakeLast \/ AfterTaking \/ TakeFavoured \/ AfterFavoured \/ Return

Next ==
  \/ \E p \in Waiting, t \in {"READ", "WRITE"}, k \in WaitPrios : Wait(p, t, k)
  \/ \E p \in Waiting : Kill(p)
  \/ Begin
  \/ Loop

\* A call with interrupts disabled goes on.
Spec == Init /\ [][Next]_vars /\ WF_vars(Loop)
-----------------------------------------------------------------------------
\* The waiters lockAcquired() has not been called for.
Left == {e \in list : e.pid \notin admitted}

\* The links of q[] agree with each other and are the list that RWLock computes
\* with, after any sequence of insert() and dequeue(), dequeue() of a process
\* that has left included.
Linked == Represents(q, lhead, ltail, Left)

\* The loops admit exactly the processes of Admitted, whatever is left of the
\* variables and of prev from the pass before.
AdmitsAdmitted == pc = "done" => admitted = Pids(RW!Admitted(0))

\* Every loop of release() ends.
ReleaseReturns == (pc # "idle") ~> (pc = "idle")
=============================================================================
