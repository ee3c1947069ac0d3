---------------------------- MODULE RWLockClient ----------------------------
(***************************************************************************)
(* The locks of RWLock under clients that follow rules the lock code       *)
(* relies on without enforcing them, and what the locks then guarantee.    *)
(*   ClientNext   a process asks for a lock only after lcreate() has       *)
(*                returned it and not while it holds it, a lock is deleted *)
(*                only while nobody holds it or waits for it, and a        *)
(*                process ends only when it has no part in a lock          *)
(*   SingleNext   as well, a process holds one lock at a time, so clients  *)
(*                never wait for each other in a cycle, and descriptor 0,  *)
(*                which is the lockid of a process that has never waited,  *)
(*                is not used                                              *)
(***************************************************************************)
EXTENDS RWLock

Unused(l) == lproc[l] = {} /\ waitq[l] = {}
Uninvolved(p) == pstate[p] # "PRWAIT" /\ \A l \in Locks : p \notin lproc[l]

Fresh(l)   == currpid \notin lproc[l]
Single(l)  == l # 0 /\ \A k \in Locks : currpid \notin lproc[k]

\* The steps in which no process asks for a lock.
OtherStep ==
  \/ \E l \in Locks : Lcreate(l) \/ (Unused(l) /\ Ldelete(l))
  \/ ReleaseCall
  \/ ReleaseNext
  \/ Scheduling
  \/ Uninvolved(currpid) /\ Exit
  \/ \E p \in Procs : Uninvolved(p) /\ KillIdle(p)

Ask(May(_)) == \E l \in Locks : Issued(l) /\ May(l) /\ LockCall(l)

ClientNext  == OtherStep \/ Ask(Fresh)
SingleNext  == OtherStep \/ Ask(Single)

ClientSpec  == Init /\ [][ClientNext]_vars
SingleSpec  == Init /\ [][SingleNext]_vars
-----------------------------------------------------------------------------
(* Safety under these clients *)

\* A lock acquired for writing is exclusive: processes that share a lock all
\* hold it for reading.  release() hands a lock over without looking at lproc
\* and lock() lets readers join by ltype alone.
MutualExclusion ==
  \A l \in Locks : \A p, q \in lproc[l] :
    p # q => locksState[p][l] = "READ" /\ locksState[q][l] = "READ"

\* The two records of who is involved in a lock agree: a process's own table
\* locksState, which release() checks, and the lock's lproc and wait queue,
\* which release() counts and hands over from.
Agreement ==
  \A l \in Locks, p \in All :
    locksState[p][l] \in Types <=> p \in lproc[l] \cup Pids(waitq[l])

\* No lost wakeup: a lock somebody waits for has a holder, whose release will
\* pass it on.
WaiterHasHolder == \A l \in Locks : waitq[l] # {} => lproc[l] # {}

\* A reader is kept waiting only by a writer that holds the lock or by a waiting
\* writer of higher lock priority.
ReaderWaitsForReason ==
  \A l \in Locks : \A e \in Readers(l) :
    ltype[l] = "WRITE" \/ \E w \in Writers(l) : w.key > e.key

\* Some holder of a lock runs at least at the priority of every process that
\* waits for it, through joins, hand-overs and releases of other holders, and
\* findProcessWithLock(), which sees to it, returns.
SomeHolderInherits ==
  /\ kernel # "overflow"
  /\ \A l \in Locks : waitq[l] # {} =>
       \E h \in lproc[l] : FindPrio(h, pinh) >= FindMaxPriority(waitq[l], pinh)

\* A hand-over passes over nobody: it leaves behind no writer of higher lock
\* priority than an admitted process, and no process of the admitted one's type
\* that was ahead of it in the queue.
NoOvertake ==
  [][\A l \in Locks : \A e, f \in waitq[l] :
       e.pid \in lproc'[l] \ lproc[l] /\ f.pid \in Pids(waitq'[l]) =>
         /\ f \in Writers(l) => f.key <= e.key
         /\ (f \in Writers(l) <=> e \in Writers(l)) => ~Ahead(f, e)]_vars
-----------------------------------------------------------------------------
(* The locks implement the locking policy *)

Abs == INSTANCE RWLockAbs WITH
  Client <- Procs, Lock <- Locks, Priority <- WaitPrios,
  owners <- [l \in Locks |->
    {[pid |-> p, type |-> locksState[p][l]] : p \in lproc[l]}],
  waiters <- [l \in Locks |->
    {[pid |-> e.pid, type |-> locksState[e.pid][l], key |-> e.key] : e \in waitq[l]}]

Lock(l, type, priority) ==
  LockFree(l, type) \/ (type = "READ" /\ LockJoin(l, priority)) \/ LockWait(l, type, priority)

\* Every step of the kernel is a grant, a wait, a release that the policy
\* allows, or none of the clients' business (lock.c, releaseall.c).  lock() is the
\* policy's request with the same type and lock priority, also of a process that
\* need not wait: a reader that joins has no writer of higher lock priority
\* waiting, and one that waits could not join.
Policy ==
  /\ Abs!Spec
  /\ [][\A l \in Locks, t \in Types, k \in WaitPrios :
          Lock(l, t, k) => Abs!Request(l, [pid |-> currpid, type |-> t, key |-> k])]_vars
=============================================================================
