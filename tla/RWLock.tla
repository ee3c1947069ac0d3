------------------------------- MODULE RWLock -------------------------------
(***************************************************************************)
(* The readers/writer locks of the kernel (sys/lock.c, releaseall.c,       *)
(* lcreate.c, ldelete.c, linit.c, priorityInheritance.c) and the part of   *)
(* process management they live in: the ready list, resched(), sleeping,   *)
(* chprio(), create(), resume() and kill().                                *)
(*                                                                         *)
(* A system call runs with interrupts disabled up to the resched() it      *)
(* makes, so it is one action up to there; releaseall() may reschedule     *)
(* after each lock it hands over and resumes with its remaining arguments  *)
(* when its caller runs again (rest).  A call that is refused changes      *)
(* nothing and has no action of its own.                                   *)
(***************************************************************************)
EXTENDS KeyedList, Sequences, FiniteSetsExt

CONSTANTS
  Procs,        \* user process ids: indices of proctab[], so their order matters
  Started,      \* the processes alive at the start, the others are free slots
  NLOCKS,       \* size of locktab[]
  Prios,        \* scheduling priorities given to create()
  NewPrios,     \* scheduling priorities given to chprio()
  InitPrio,     \* scheduling priority of each started process
  WaitPrios,    \* lock priorities given to lock()
  ReleaseArgs   \* argument lists given to releaseall()

NULLPROC == 0
NOTINWQ  == -1
Locks    == 0 .. NLOCKS - 1
All      == Procs \cup {NULLPROC}
LAST     == NLOCKS - 1
Types    == {"READ", "WRITE"}

ASSUME ProcsAssumption ==
  /\ Procs \subseteq Nat \ {0} /\ IsFiniteSet(Procs)
  /\ Started \subseteq Procs /\ Started # {}
  /\ NLOCKS \in Nat \ {0}
ASSUME PriosAssumption ==
  /\ Prios \subseteq Nat \ {0} /\ NewPrios \subseteq Nat \ {0}
  /\ InitPrio \in [Started -> Nat \ {0}]
  /\ WaitPrios \subseteq Int /\ WaitPrios # {}
ASSUME ArgsAssumption == ReleaseArgs \subseteq Seq(Int) \ {<<>>}

VARIABLES
  pstate,         \* proctab[p].pstate
  pprio,          \* proctab[p].pprio
  pinh,           \* proctab[p].pinh: inherited priority, 0 when there is none
  lockid,         \* proctab[p].lockid: the lock p waits on
  locksState,     \* proctab[p].locksState[l]
  pwaitret,       \* proctab[p].pwaitret: what lock() returns after a wait
  rest,           \* p is inside releaseall(): the arguments still to release
  lstate,         \* locktab[l].lstate
  ltype,          \* locktab[l].ltype
  lproc,          \* the p with locktab[l].lproc[p] = LOCKACQ
  deleteTracker,  \* locktab[l].deleteTracker[p]
  waitq,          \* the wait queue of l, a KeyedList by lock priority
  nextlock,       \* where newlock() goes on searching
  rdy,            \* the ready list, a KeyedList by scheduling priority
  currpid,        \* the process that has the CPU
  kernel          \* up, or lost in the endless recursion of findProcessWithLock()

procVars  == <<pprio, lockid, locksState, pwaitret>>
lockVars  == <<lstate, ltype, lproc, deleteTracker, waitq, nextlock>>
schedVars == <<pstate, rdy, currpid>>
vars == <<pstate, pprio, pinh, lockid, locksState, pwaitret, rest, lstate,
          ltype, lproc, deleteTracker, waitq, nextlock, rdy, currpid, kernel>>
-----------------------------------------------------------------------------
(* Priorities and their inheritance *)

FindPrio(p, ph) == IF ph[p] # 0 THEN ph[p] ELSE pprio[p]

\* The highest scheduling priority of the processes on a wait queue.
FindMaxPriority(Q, ph) == Max({0} \cup { Max({pprio[p], ph[p]}) : p \in Pids(Q) })

\* The highest priority that waits for a lock p is involved in, by the tables T
\* and the inherited priorities ph.
MaxWaiting(T, p, ph) ==
  Max({0} \cup { FindMaxPriority(T.waitq[i], ph) :
                   i \in {i \in Locks : T.locksState[p][i] \in Types /\ T.lstate[i] = "LUSED"} })

\* A call of findProcessWithLock() that has returned.
Returned(ph) == [lptr |-> NOTINWQ, mprio |-> 0, pinh |-> ph]

\* The pass of its loop for process j: the states it can leave.  lptr is the lock
\* of the call and, after the first holder, the LAST one; mprio is never reset.
\* Calls[k][ph] is what a call for k can leave.  Only a holder that does not wait
\* ends the loop.
Pass(T, Calls, j, s) ==
  IF s.lptr = NOTINWQ \/ j \notin T.lproc[s.lptr] THEN {s}
  ELSE LET mprio  == Max({s.mprio, MaxWaiting(T, j, s.pinh)})
           raised == [s.pinh EXCEPT ![j] = IF mprio > pprio[j] THEN mprio ELSE 0]
       IN  IF T.lockid[j] = NOTINWQ THEN {Returned(raised)}
           ELSE { [lptr |-> LAST, mprio |-> mprio, pinh |-> ph] : ph \in Calls[T.lockid[j]][raised] }

\* findProcessWithLock(k): the pinh tables it can leave.
Loop(T, Calls, k, ph) ==
  LET after[j \in 0 .. Max(Procs)] ==
        IF j = 0 THEN {[lptr |-> k, mprio |-> 0, pinh |-> ph]}
        ELSE UNION { Pass(T, Calls, j, s) : s \in after[j - 1] }
  IN  { s.pinh : s \in after[Max(Procs)] }

\* The same for calls nested at most NLOCKS deep.  A deeper one has met a lock
\* twice, and as what a call recurses into does not depend on priorities, it
\* never returns: the set is empty.
Inherit(T, l) ==
  LET nested[n \in 0 .. NLOCKS] ==
        [k \in Locks |-> [ph \in [All -> Nat] |->
           IF n = 0 THEN {} ELSE Loop(T, nested[n - 1], k, ph)]]
  IN  nested[NLOCKS][l][pinh]

\* Mutant: nothing is inherited.
NoInheritance(T, l) == UNCHANGED <<pinh, kernel>>
FindProcessWithLock(T, l) ==
  LET R == Inherit(T, l) IN
  /\ pinh' \in IF R = {} THEN {pinh} ELSE R
  /\ kernel' = IF R = {} THEN "overflow" ELSE kernel
-----------------------------------------------------------------------------
(* Scheduling *)

\* resched() once pstate and the ready list have become ps and rd.  The current
\* process keeps the CPU only if its priority is above the last key.
Resched(ps, rd) ==
  LET p      == currpid
      oprio  == FindPrio(p, pinh')
      stays  == ps[p] = "PRCURR" /\ \A e \in rd : e.key < oprio
      queued == IF ps[p] = "PRCURR" THEN Insert(rd, p, oprio) ELSE rd
      old    == IF ps[p] = "PRCURR" THEN [ps EXCEPT ![p] = "PRREADY"] ELSE ps
  IN  \/ stays /\ pstate' = ps /\ rdy' = rd /\ currpid' = p
      \/ /\ ~stays
         /\ \E e \in queued :
              /\ IsLast(queued, e)
              /\ currpid' = e.pid
              /\ rdy' = Remove(queued, {e.pid})
              /\ pstate' = [old EXCEPT ![e.pid] = "PRCURR"]

\* ready(p, RESCHNO) for every p of S, in increasing order of turn.
ReadyState(S) == [p \in All |-> IF p \in S THEN "PRREADY" ELSE pstate[p]]
ReadyList(S, turn(_)) ==
  InsertAll(rdy, { [pid |-> p, key |-> FindPrio(p, pinh), turn |-> turn(p)] : p \in S })

\* The current process executes its own code: it may make a system call, and
\* the clock may interrupt it.
Interruptible == kernel = "up" /\ rest[currpid] = <<>>
Running == Interruptible /\ currpid # NULLPROC
-----------------------------------------------------------------------------
(* sysinit() and linit(), the started processes created and resumed since *)

First(p) == \A q \in Started :
  InitPrio[q] < InitPrio[p] \/ (InitPrio[q] = InitPrio[p] /\ q <= p)

Init ==
  /\ currpid \in {p \in Started : First(p)}
  /\ pstate = [p \in All |-> IF p = currpid THEN "PRCURR"
                             ELSE IF p \in Started \cup {NULLPROC} THEN "PRREADY"
                             ELSE "PRFREE"]
  /\ pprio = [p \in All |-> IF p \in Started THEN InitPrio[p] ELSE 0]
  /\ rdy = InsertAll({}, { [pid |-> p, key |-> pprio[p], turn |-> -p] :
                             p \in (Started \cup {NULLPROC}) \ {currpid} })
  /\ pinh = [p \in All |-> 0]
  /\ lockid = [p \in All |-> IF p = NULLPROC THEN NOTINWQ ELSE 0]
  /\ locksState = [p \in All |-> [l \in Locks |-> "EMPTY"]]
  /\ pwaitret = [p \in All |-> "OK"]
  /\ rest = [p \in All |-> <<>>]
  /\ lstate = [l \in Locks |-> "LFREE"]
  /\ ltype = [l \in Locks |-> "EMPTY"]
  /\ lproc = [l \in Locks |-> {}]
  /\ deleteTracker = [l \in Locks |-> [p \in All |-> "LAVAILABLE"]]
  /\ waitq = [l \in Locks |-> {}]
  /\ nextlock = NLOCKS - 1
  /\ kernel = "up"
-----------------------------------------------------------------------------
(* lcreate() and ldelete() *)

Alive(p) == pstate[p] # "PRFREE"

\* newlock() walks down from nextlock and wraps after descriptor 0.
Distance(l) == (nextlock - l) % NLOCKS
NewLock(l) ==
  /\ lstate[l] = "LFREE"
  /\ \A k \in Locks : lstate[k] = "LFREE" => Distance(l) <= Distance(k)

WrapMissing(l) == l - 1      \* mutant: no wrap after descriptor 0
SearchFrom(l)  == IF l = 0 THEN NLOCKS - 1 ELSE l - 1

Lcreate(l) ==
  /\ Running /\ NewLock(l)
  /\ lstate' = [lstate EXCEPT ![l] = "LCREATE"]
  /\ nextlock' = SearchFrom(l)
  /\ deleteTracker' = [deleteTracker EXCEPT ![l] = [p \in All |->
       IF Alive(p) /\ @[p] # "LNOTAVAILABLE" THEN "BEFORELCREATE" ELSE @[p]]]
  /\ UNCHANGED <<procVars, pinh, rest, ltype, lproc, waitq, schedVars, kernel>>

\* lockid and pwaitret once the processes S are off their wait queues.
StillQueued(S) == lockid     \* mutant: lockid is not reset
OffQueue(S)    == [p \in All |-> IF p \in S THEN NOTINWQ ELSE lockid[p]]

OldAnswer(S, v) == pwaitret  \* mutant: the waiters are not told
Answer(S, v)    == [p \in All |-> IF p \in S THEN v ELSE pwaitret[p]]

\* Every waiter is readied from the head of the queue and lock() returns
\* DELETED to it.  Only the caller's mark in lproc is cleared.
Ldelete(l) ==
  LET woken   == Pids(waitq[l])
      turn(p) == Cardinality({e \in waitq[l] : \E f \in waitq[l] : f.pid = p /\ Ahead(f, e)})
  IN
  /\ Running /\ lstate[l] # "LFREE"
  /\ lstate' = [lstate EXCEPT ![l] = "LFREE"]
  /\ ltype' = [ltype EXCEPT ![l] = "EMPTY"]
  /\ lproc' = [lproc EXCEPT ![l] = @ \ {currpid}]
  /\ deleteTracker' = [deleteTracker EXCEPT ![l] = [p \in All |->
       IF Alive(p) /\ @[p] # "BEFORELCREATE" THEN "LNOTAVAILABLE" ELSE @[p]]]
  /\ waitq' = [waitq EXCEPT ![l] = {}]
  /\ locksState' = [p \in All |-> IF p \in woken
       THEN [locksState[p] EXCEPT ![l] = "DELETED"] ELSE locksState[p]]
  /\ lockid' = OffQueue(woken)
  /\ pwaitret' = Answer(woken, "DELETED")
  /\ UNCHANGED <<pprio, pinh, rest, nextlock, kernel>>
  /\ IF woken = {} THEN UNCHANGED schedVars
     ELSE Resched(ReadyState(woken), ReadyList(woken, turn))
-----------------------------------------------------------------------------
(* lock() *)

\* lock() does not answer SYSERR.
Accepted(p, l) ==
  locksState[p][l] # "DELETED" /\ deleteTracker[l][p] # "LNOTAVAILABLE"

NoWriterConsidered(l, priority) == FALSE  \* mutant: readers always share
HigherPriorityWriter(l, priority) ==
  \E e \in waitq[l] : locksState[e.pid][l] = "WRITE" /\ e.key > priority

\* The lock is free: the caller takes it.
LockFree(l, type) ==
  LET p == currpid IN
  /\ Running /\ Accepted(p, l)
  /\ lstate[l] \in {"LCREATE", "LFREE"}
  /\ lockid' = [lockid EXCEPT ![p] = NOTINWQ]
  /\ lstate' = [lstate EXCEPT ![l] = "LUSED"]
  /\ ltype' = [ltype EXCEPT ![l] = type]
  /\ lproc' = [lproc EXCEPT ![l] = @ \cup {p}]
  /\ locksState' = [locksState EXCEPT ![p][l] = type]
  /\ UNCHANGED <<pprio, pinh, pwaitret, rest, deleteTracker, waitq, nextlock,
                 schedVars, kernel>>

\* A reader shares a lock held by readers.
LockJoin(l, priority) ==
  LET p == currpid IN
  /\ Running /\ Accepted(p, l)
  /\ lstate[l] = "LUSED" /\ ltype[l] = "READ"
  /\ ~HigherPriorityWriter(l, priority)
  /\ lproc' = [lproc EXCEPT ![l] = @ \cup {p}]
  /\ locksState' = [locksState EXCEPT ![p][l] = "READ"]
  /\ UNCHANGED <<pprio, lockid, pinh, pwaitret, rest, lstate, ltype,
                 deleteTracker, waitq, nextlock, schedVars, kernel>>

MustWait(l, type, priority) ==
  /\ lstate[l] = "LUSED"
  /\ \/ ltype[l] = "WRITE"
     \/ ltype[l] = "READ" /\ (type = "WRITE" \/ HigherPriorityWriter(l, priority))

\* waitForLock(), then resched(); when the caller runs again lock() returns
\* its pwaitret.
LockWait(l, type, priority) ==
  LET p == currpid IN
  /\ Running /\ Accepted(p, l) /\ MustWait(l, type, priority)
  /\ lockid' = [lockid EXCEPT ![p] = l]
  /\ locksState' = [locksState EXCEPT ![p][l] = type]
  /\ waitq' = [waitq EXCEPT ![l] = Insert(@, p, priority)]
  /\ pwaitret' = [pwaitret EXCEPT ![p] = "OK"]
  /\ FindProcessWithLock([lockid |-> lockid', locksState |-> locksState',
                          lstate |-> lstate, lproc |-> lproc, waitq |-> waitq'], l)
  /\ Resched([pstate EXCEPT ![p] = "PRWAIT"], rdy)
  /\ UNCHANGED <<pprio, rest, lstate, ltype, lproc, deleteTracker, nextlock>>
-----------------------------------------------------------------------------
(* releaseall() *)

\* The comparison of the two waiting times subtracts the addresses of the
\* procwaittime fields: the processes' distance in proctab[], whose entries
\* are 94 words long.
PROCWORDS == 94
Grace(writer, reader) == (writer - reader) * PROCWORDS <= 400

Readers(l) == {e \in waitq[l] : locksState[e.pid][l] = "READ"}
Writers(l) == waitq[l] \ Readers(l)

\* The first readers of S that have the priority of the writer w and its grace.
Favoured(S, w) == Prefix(S, LAMBDA r : r.key = w.key /\ Grace(w.pid, r.pid))

\* Mutants: the writer is forgotten when no reader is favoured; readers pass a
\* writer whatever their priority.
OnlyFavoured(l, w) == Favoured(Readers(l), w)
AnyReaders(l, w)   == IF Readers(l) = {} THEN {w} ELSE Readers(l)

\* A writer is first: it gets the lock unless readers are favoured.
WriterFirst(l, w) ==
  LET favoured == Favoured(Readers(l), w)
  IN  IF favoured = {} THEN {w} ELSE favoured

\* Mutant: only the first reader is admitted.
OneReader(l, t) == {t}

\* A reader t is first: the readers before the first writer if t beats it, then
\* the favoured ones; all of them if no writer waits.
ReaderFirst(l, t) ==
  { r \in Readers(l) : \A w \in Writers(l) : IsLast(Writers(l), w) =>
      LET before == IF t.key > w.key THEN {x \in Readers(l) : Ahead(x, w)} ELSE {}
      IN  r \in before \cup Favoured(Readers(l) \ before, w) }

\* The waiters lockAcquired() is called for when l is passed on.
Admitted(l) ==
  LET t == CHOOSE t \in waitq[l] : IsLast(waitq[l], t)
  IN  IF t \in Writers(l) THEN WriterFirst(l, t) ELSE ReaderFirst(l, t)

\* What release() checks before it gives up l.
Releasable(p, l) ==
  /\ l \in Locks /\ lstate[l] # "LFREE"
  /\ locksState[p][l] \notin {"DELETED", "EMPTY"}

\* Mutants: one other reader is overlooked; the last reader does not pass on.
OneReaderLeft(l) ==
  ltype[l] = "WRITE" \/ (ltype[l] = "READ" /\ Cardinality(lproc[l]) <= 2)
WriterPassesOn(l) == ltype[l] = "WRITE"

\* The caller is a writer or the only reader.
PassesOn(l) == ltype[l] = "WRITE" \/ (ltype[l] = "READ" /\ Cardinality(lproc[l]) = 1)

\* Mutant: the process's own table keeps the lock.
KeepState(p, l) == locksState' = locksState /\ lproc' = [lproc EXCEPT ![l] = @ \ {p}]
GiveUp(p, l) ==
  /\ locksState' = [locksState EXCEPT ![p][l] = "EMPTY"]
  /\ lproc' = [lproc EXCEPT ![l] = @ \ {p}]

\* Inheritance and the processes after a release that admits nobody.
NobodyAdmitted(l) ==
  /\ FindProcessWithLock([lockid |-> lockid, locksState |-> locksState',
                          lstate |-> lstate', lproc |-> lproc', waitq |-> waitq], l)
  /\ UNCHANGED <<lockid, waitq, schedVars>>

ReleaseRefused(l) ==
  /\ ~Releasable(currpid, l)
  /\ UNCHANGED <<lockid, pinh, locksState, lstate, ltype, lproc, waitq, schedVars, kernel>>

ReleaseShared(l) ==
  /\ Releasable(currpid, l) /\ ~PassesOn(l)
  /\ GiveUp(currpid, l)
  /\ lstate' = [lstate EXCEPT ![l] = "LUSED"]
  /\ ltype' = [ltype EXCEPT ![l] = "READ"]
  /\ NobodyAdmitted(l)

ReleaseFree(l) ==
  /\ Releasable(currpid, l) /\ PassesOn(l) /\ waitq[l] = {}
  /\ GiveUp(currpid, l)
  /\ lstate' = [lstate EXCEPT ![l] = "LFREE"]
  /\ UNCHANGED ltype
  /\ NobodyAdmitted(l)

\* The admitted waiters keep in locksState the type they asked for.
ReleaseHandOver(l) ==
  LET G       == Pids(Admitted(l))
      turn(p) == Cardinality({e \in waitq[l] : \E f \in waitq[l] : f.pid = p /\ Ahead(e, f)})
  IN
  /\ Releasable(currpid, l) /\ PassesOn(l) /\ waitq[l] # {}
  /\ locksState' = [locksState EXCEPT ![currpid][l] = "EMPTY"]
  /\ lproc' = [lproc EXCEPT ![l] = (@ \ {currpid}) \cup G]
  /\ IF G = {} THEN UNCHANGED <<lstate, ltype>>
     ELSE /\ lstate' = [lstate EXCEPT ![l] = "LUSED"]
          /\ ltype' = [ltype EXCEPT ![l] =
                         IF Admitted(l) \subseteq Readers(l) THEN "READ" ELSE "WRITE"]
  /\ lockid' = OffQueue(G)
  /\ waitq' = [waitq EXCEPT ![l] = Remove(@, G)]
  /\ FindProcessWithLock([lockid |-> lockid', locksState |-> locksState',
                          lstate |-> lstate', lproc |-> lproc', waitq |-> waitq'], l)
  /\ Resched(ReadyState(G), ReadyList(G, turn))

\* release(l), the arguments in more are left.
Release(l, more) ==
  /\ rest' = [rest EXCEPT ![currpid] = more]
  /\ UNCHANGED <<pprio, pwaitret, deleteTracker, nextlock>>
  /\ ReleaseRefused(l) \/ ReleaseShared(l) \/ ReleaseFree(l) \/ ReleaseHandOver(l)

Releaseall(args) == Running /\ Release(Head(args), Tail(args))

\* The loop of releaseall() goes on when its caller runs again.
ReleaseNext ==
  /\ kernel = "up" /\ rest[currpid] # <<>>
  /\ Release(Head(rest[currpid]), Tail(rest[currpid]))
-----------------------------------------------------------------------------
(* Processes *)

Sleep ==
  /\ Running
  /\ Resched([pstate EXCEPT ![currpid] = "PRSLEEP"], rdy)
  /\ UNCHANGED <<procVars, pinh, rest, lockVars, kernel>>

\* wakeup(), from the clock interrupt: the processes S whose delay has ended.
Wakeup(S) ==
  /\ Interruptible
  /\ S # {} /\ \A p \in S : pstate[p] = "PRSLEEP"
  /\ UNCHANGED <<procVars, pinh, rest, lockVars, kernel>>
  /\ \E order \in Bijection(S, 1 .. Cardinality(S)) :
       Resched(ReadyState(S), ReadyList(S, LAMBDA p : order[p]))

\* The clock interrupt at the end of a time slice.
ClkInt ==
  /\ Interruptible
  /\ UNCHANGED <<procVars, pinh, rest, lockVars, kernel>>
  /\ Resched(pstate, rdy)

Chprio(p, newprio) ==
  /\ Running /\ Alive(p)
  /\ pprio' = [pprio EXCEPT ![p] = newprio]
  /\ pinh' = IF pinh[p] # 0 /\ newprio > pinh[p] THEN [pinh EXCEPT ![p] = newprio] ELSE pinh
  /\ UNCHANGED <<lockid, locksState, pwaitret, rest, lockVars, schedVars, kernel>>

\* The lock tables and the lock fields of the slot keep what they hold.
Create(p, prio) ==
  /\ Running /\ ~Alive(p)
  /\ pstate' = [pstate EXCEPT ![p] = "PRSUSP"]
  /\ pprio' = [pprio EXCEPT ![p] = prio]
  /\ UNCHANGED <<pinh, lockid, locksState, pwaitret, rest, lockVars, rdy, currpid, kernel>>

Resume(p) ==
  /\ Running /\ pstate[p] = "PRSUSP"
  /\ UNCHANGED <<procVars, pinh, rest, lockVars, kernel>>
  /\ Resched(ReadyState({p}), ReadyList({p}, LAMBDA q : 0))

\* kill() of the current process, or its return (userret).
Exit ==
  /\ Running
  /\ UNCHANGED <<procVars, pinh, rest, lockVars, kernel>>
  /\ Resched([pstate EXCEPT ![currpid] = "PRFREE"], rdy)

\* kill() of a process that neither runs nor waits for a lock.
KillIdle(p) ==
  /\ Running /\ pstate[p] \in {"PRREADY", "PRSLEEP", "PRSUSP"}
  /\ pstate' = [pstate EXCEPT ![p] = "PRFREE"]
  /\ rdy' = Remove(rdy, {p})
  /\ rest' = [rest EXCEPT ![p] = <<>>]
  /\ UNCHANGED <<procVars, pinh, lockVars, currpid, kernel>>

\* Mutant: the victim stays on the wait queue.
LeftOnQueue(p) ==
  /\ Running /\ pstate[p] = "PRWAIT"
  /\ pstate' = [pstate EXCEPT ![p] = "PRFREE"]
  /\ UNCHANGED <<procVars, pinh, rest, lockVars, rdy, currpid, kernel>>

\* kill() of a process that waits for a lock.
KillWaiter(p) ==
  LET l == lockid[p] IN
  /\ Running /\ pstate[p] = "PRWAIT"
  /\ waitq' = [waitq EXCEPT ![l] = Remove(@, {p})]
  /\ lockid' = [lockid EXCEPT ![p] = NOTINWQ]
  /\ locksState' = [locksState EXCEPT ![p][l] = "DELETED"]
  /\ FindProcessWithLock([lockid |-> lockid', locksState |-> locksState',
                          lstate |-> lstate, lproc |-> lproc, waitq |-> waitq'], l)
  /\ pstate' = [pstate EXCEPT ![p] = "PRFREE"]
  /\ UNCHANGED <<pprio, pwaitret, rest, lstate, ltype, lproc, deleteTracker,
                 nextlock, rdy, currpid>>
-----------------------------------------------------------------------------
LockCall(l) ==
  \/ \E type \in Types : LockFree(l, type)
  \/ \E priority \in WaitPrios : LockJoin(l, priority)
  \/ \E type \in Types, priority \in WaitPrios : LockWait(l, type, priority)

\* lcreate() has returned the descriptor l at some time: its caller was marked.
Issued(l) == \E p \in Procs : deleteTracker[l][p] = "BEFORELCREATE"

ReleaseCall == \E args \in ReleaseArgs : Releaseall(args)

\* What happens without regard to how clients use their locks.
Scheduling ==
  \/ Sleep
  \/ \E S \in SUBSET Procs : Wakeup(S)
  \/ ClkInt
  \/ \E p \in Procs, v \in NewPrios : Chprio(p, v)
  \/ \E p \in Procs, v \in Prios : Create(p, v)
  \/ \E p \in Procs : Resume(p)

Next ==
  \/ \E l \in Locks : Lcreate(l) \/ Ldelete(l) \/ LockCall(l)
  \/ ReleaseCall
  \/ ReleaseNext
  \/ Scheduling
  \/ Exit
  \/ \E p \in Procs : KillIdle(p) \/ KillWaiter(p)

Spec == Init /\ [][Next]_vars
-----------------------------------------------------------------------------
Entry == [pid : All, key : Int, age : Nat]

\* The type of the tables.
TypeOK ==
  /\ pstate \in [All -> {"PRFREE", "PRSUSP", "PRREADY", "PRCURR", "PRWAIT", "PRSLEEP"}]
  /\ pprio \in [All -> Nat] /\ pinh \in [All -> Nat]
  /\ lockid \in [All -> Locks \cup {NOTINWQ}]
  /\ locksState \in [All -> [Locks -> Types \cup {"EMPTY", "DELETED"}]]
  /\ pwaitret \in [All -> {"OK", "DELETED"}]
  /\ rest \in [All -> Seq(Int)]
  /\ lstate \in [Locks -> {"LFREE", "LCREATE", "LUSED"}]
  /\ ltype \in [Locks -> Types \cup {"EMPTY"}]
  /\ lproc \in [Locks -> SUBSET Procs]
  /\ deleteTracker \in [Locks -> [All -> {"LAVAILABLE", "LNOTAVAILABLE", "BEFORELCREATE"}]]
  /\ waitq \in [Locks -> SUBSET Entry] /\ rdy \subseteq Entry
  /\ nextlock \in Locks /\ currpid \in All
  /\ kernel \in {"up", "overflow"}

\* Every process is where its state says, and only there: the current process,
\* on the ready list, or on the wait queue of the lock in its lockid.  Calls that
\* ready, block, wake or kill a process keep pstate, lockid and the lists in step.
Placement ==
  /\ \A p \in All : pstate[p] = "PRCURR" <=> p = currpid
  /\ \A p \in All : pstate[p] = "PRREADY" <=> p \in Pids(rdy)
  /\ \A p \in All, l \in Locks :
       p \in Pids(waitq[l]) <=> pstate[p] = "PRWAIT" /\ lockid[p] = l

\* A process leaves a wait queue in one of three ways: it holds the lock and
\* lock() will return OK, the lock is gone and lock() will return DELETED, or
\* the process has been killed.
WakeupMeansSomething ==
  [][\A l \in Locks : \A p \in Pids(waitq[l]) \ Pids(waitq'[l]) :
       \/ p \in lproc'[l] /\ pwaitret'[p] = "OK" /\ locksState'[p][l] \in Types
       \/ /\ lstate'[l] = "LFREE" /\ pwaitret'[p] = "DELETED"
          /\ locksState'[p][l] = "DELETED"
       \/ pstate'[p] = "PRFREE"]_vars
=============================================================================
