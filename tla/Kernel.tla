------------------------------- MODULE Kernel -------------------------------
(***************************************************************************)
(* Semaphores, messages and sleeping together, with create(), resume(),    *)
(* suspend(), setnok() and kill() of processes in any state.  Locks appear *)
(* as a place to wait and by what kill() writes of them into the entry of  *)
(* any process it finds waiting; their tables and the priorities they pass *)
(* on are the subject of RWLock.  kill() sends a message to the next of    *)
(* kin in its middle and may lose the CPU there.                           *)
(***************************************************************************)
EXTENDS Semaphores, Messages

CONSTANTS
  Callers,   \* Callers[c]: the processes that make calls of the kind c
  NLOCKS     \* size of locktab[]

Locks   == 0 .. NLOCKS - 1
NOTINWQ == -1

Kinds == {"sem", "send", "receive", "sleep", "suspend", "create", "setnok", "kill", "lock"}

ASSUME CallersAssumption == Callers \in [Kinds -> SUBSET Procs]
ASSUME LocksAssumption == NLOCKS \in Nat \ {0}

VARIABLES
  pnxtkin,   \* proctab[p].pnxtkin
  lockq,     \* the processes that wait for a lock
  lockid,    \* proctab[p].lockid
  refused,   \* refused[p]: the locks l with proctab[p].locksState[l] = DELETED
  inwait     \* the processes whose wait() has blocked and has not returned

lockEntries == <<lockid, refused>>

vars == <<pstate, rdy, currpid, sstate, semcnt, semq, nextsem, psem, pwaitret, clockq,
          slnempty, sltop, due, phasmsg, cont, pnxtkin, lockq, lockid, refused, inwait>>

\* Only the null process starts with NOTINWQ: the others have the 0 of the table.
Init ==
  /\ SchedInit /\ SemInit /\ ClockInit /\ MsgInit
  /\ pnxtkin = [p \in Procs |-> BADPID] /\ lockq = {} /\ inwait = {}
  /\ lockid = [p \in All |-> IF p = NULLPROC THEN NOTINWQ ELSE 0]
  /\ refused = [p \in All |-> {}]

\* Interrupts are enabled: the current process is in no call.
Interruptible == cont[currpid] = None /\ currpid \notin inwait
May(c) == currpid \in Callers[c]
Calling == Interruptible /\ currpid # NULLPROC
-----------------------------------------------------------------------------
\* kill(p): the next of kin gets a message, its sender is p.
Kill(p) ==
  /\ Alive(p)
  /\ Doing("kill", p)
  /\ Deliver(pnxtkin[p])
  /\ UNCHANGED <<semVars, pnxtkin, lockq, lockEntries, inwait>>

\* Mutant: kill() does not raise the count.
JustLeave(p) ==
  /\ semq' = [s \in Sems |-> Without(semq[s], p)]
  /\ UNCHANGED <<sstate, semcnt, nextsem, psem>>
LeaveQueue(p) == Unwait(p) /\ UNCHANGED psem

\* kill.c takes every waiter for one that waits for the lock in lockid, and bars
\* its entry from that lock: from lock 0 if the process has never taken one.
\* locksState[NOTINWQ] is the word before locksState[], which is pwaitret.  What
\* it does to locktab[lockid] and to inherited priorities is left to RWLock; what
\* lies before locktab[] is none of these tables.
Bar(p) ==
  /\ lockid' = [lockid EXCEPT ![p] = NOTINWQ]
  /\ IF lockid[p] = NOTINWQ
       THEN pwaitret' = [pwaitret EXCEPT ![p] = "DELETED"] /\ UNCHANGED refused
       ELSE refused' = [refused EXCEPT ![p] = @ \cup {lockid[p]}] /\ UNCHANGED pwaitret

\* The rest of kill(): p is taken from where it is now.
KillEnd ==
  LET p == cont[currpid].arg
      st == pstate[p]
  IN
  /\ cont[currpid].op = "kill"
  /\ cont' = [cont EXCEPT ![p] = None, ![currpid] = None]
  /\ inwait' = inwait \ {p}
  /\ IF st = "PRWAIT" THEN LeaveQueue(p) /\ Bar(p) /\ lockq' = lockq \ {p}
     ELSE UNCHANGED <<semVars, lockq, lockEntries>>
  /\ IF st \in {"PRSLEEP", "PRTRECV"} THEN Unsleep(p)
     ELSE due' = [due EXCEPT ![p] = 0] /\ UNCHANGED <<clockq, slnempty, sltop>>
  /\ IF p = currpid THEN Block("PRFREE")
     ELSE /\ pstate' = [pstate EXCEPT ![p] = "PRFREE"]
          /\ rdy' = IF st = "PRREADY" THEN Remove(rdy, {p}) ELSE rdy
          /\ UNCHANGED currpid
  /\ UNCHANGED <<phasmsg, pnxtkin>>

Create(p) ==
  /\ ~Alive(p)
  /\ pstate' = [pstate EXCEPT ![p] = "PRSUSP"]
  /\ psem' = [psem EXCEPT ![p] = 0]
  /\ phasmsg' = [phasmsg EXCEPT ![p] = FALSE]
  /\ pnxtkin' = [pnxtkin EXCEPT ![p] = BADPID]
  /\ UNCHANGED <<rdy, currpid, sstate, semcnt, semq, nextsem, pwaitret, clockVars,
                 cont, lockq, lockEntries, inwait>>

Setnok(nok, p) ==
  /\ pnxtkin' = [pnxtkin EXCEPT ![p] = nok]
  /\ UNCHANGED <<schedVars, semVars, clockVars, phasmsg, cont, lockq, lockEntries, inwait>>

\* lock() of a lock that is free, or in use so that the caller waits, and a release
\* that hands a lock to p.
LockTaken(l) ==
  /\ l \notin refused[currpid]
  /\ lockid' = [lockid EXCEPT ![currpid] = NOTINWQ]
  /\ UNCHANGED <<schedVars, semVars, clockVars, phasmsg, cont, pnxtkin, lockq, refused, inwait>>
LockWait(l) ==
  /\ l \notin refused[currpid]
  /\ lockid' = [lockid EXCEPT ![currpid] = l]
  /\ pwaitret' = [pwaitret EXCEPT ![currpid] = "OK"]
  /\ lockq' = lockq \cup {currpid}
  /\ Block("PRWAIT")
  /\ UNCHANGED <<sstate, semcnt, semq, nextsem, psem, clockVars, phasmsg, cont, pnxtkin,
                 refused, inwait>>
LockGranted(p) ==
  /\ p \in lockq /\ lockq' = lockq \ {p}
  /\ lockid' = [lockid EXCEPT ![p] = NOTINWQ]
  /\ Ready(<<p>>)
  /\ UNCHANGED <<semVars, clockVars, phasmsg, cont, pnxtkin, refused, inwait>>
-----------------------------------------------------------------------------
\* wait() that blocks.  It goes on when its caller runs again, and returns pwaitret.
Wait(s) == WaitBlock(s) /\ inwait' = inwait \cup {currpid}
WaitEnd ==
  /\ currpid \in inwait /\ inwait' = inwait \ {currpid}
  /\ UNCHANGED <<schedVars, semVars, clockVars, phasmsg, cont, pnxtkin, lockq, lockEntries>>

Continue ==
  \/ ReceiveEnd /\ UNCHANGED <<semVars, pnxtkin, lockq, lockEntries, inwait>>
  \/ WaitEnd
  \/ KillEnd

Others == UNCHANGED <<semVars, clockVars, phasmsg, cont, pnxtkin, lockq, lockEntries, inwait>>

ClockTick ==
  /\ Interruptible /\ Tick
  /\ UNCHANGED <<semVars, phasmsg, cont, pnxtkin, lockq, lockEntries, inwait>>
Interrupt == ClockTick \/ (Interruptible /\ SliceEnd /\ Others)

Call ==
  /\ Calling
  /\ \/ /\ May("sem")
        /\ \/ SemCall /\ UNCHANGED inwait
           \/ \E s \in Sems : Wait(s)
        /\ UNCHANGED <<clockVars, phasmsg, cont, pnxtkin, lockq, lockEntries>>
     \/ /\ \/ May("send") /\ \E p \in Procs : Send(p)
           \/ May("receive") /\ (Receive \/ Recvclr \/ \E d \in Delays : Recvtim(d))
        /\ UNCHANGED <<semVars, pnxtkin, lockq, lockEntries, inwait>>
     \/ /\ May("sleep") /\ \E d \in Delays \cup {0} : Sleep(d)
        /\ UNCHANGED <<semVars, phasmsg, cont, pnxtkin, lockq, lockEntries, inwait>>
     \/ May("suspend") /\ \E p \in Procs : (Suspend(p) \/ Resume(p)) /\ Others
     \/ May("create") /\ \E p \in Procs : Create(p)
     \/ May("setnok") /\ \E p \in Procs : Setnok(currpid, p)
     \/ May("kill") /\ \E p \in Procs : Kill(p)
     \/ /\ May("lock")
        /\ (\E l \in Locks : LockTaken(l) \/ LockWait(l)) \/ \E p \in Procs : LockGranted(p)

Next == Continue \/ Interrupt \/ Call

\* What clients must not do: kill a process that waits for a lock, or let one
\* that is being killed wait for a lock.
Dying == {cont[p].arg : p \in {q \in All : cont[q].op = "kill"}}
Rule == lockq' \cap Dying' = {}

Spec       == Init /\ [][Next]_vars
ClientSpec == Init /\ [][Next /\ Rule]_vars
-----------------------------------------------------------------------------
SleepState == {"PRSLEEP", "PRTRECV"}
On(s) == {semq[s][i] : i \in 1 .. Len(semq[s])}
Asleep == {clockq[i].pid : i \in 1 .. Len(clockq)}

\* Every process is on the list its state names and on no other, through send(),
\* time-outs, suspend() and kill() in any state.
OnItsList ==
  /\ \A p \in All : pstate[p] = "PRCURR" <=> p = currpid
  /\ \A p \in All : pstate[p] = "PRREADY" <=> p \in Pids(rdy)
  /\ \A p \in All : pstate[p] \in SleepState <=> p \in Asleep
  /\ \A p \in All : pstate[p] = "PRWAIT" <=> p \in lockq \/ \E s \in Sems : p \in On(s)
  /\ \A p \in All : Cardinality({s \in Sems : p \in On(s)}) + (IF p \in lockq THEN 1 ELSE 0) <= 1
  /\ Cardinality(Asleep) = Len(clockq)

\* A receiver is never left asleep with a message in its slot, receive() goes on
\* only with a message, recvtim() only with a message or after its delay: the
\* message of a send() that races the time-out is not lost.
ReceiverWoken ==
  /\ \A p \in Procs : pstate[p] \in {"PRRECV", "PRTRECV"} => ~phasmsg[p]
  /\ \A p \in Procs : pstate[p] \in {"PRCURR", "PRREADY", "PRSUSP"} /\ ~phasmsg[p] =>
       /\ cont[p].op # "receive"
       /\ cont[p].op = "recvtim" => due[p] = 0

\* The key of an entry of the delta list is the time from the end of the delay
\* before it to the end of its own, and the clock interrupt counts down the first
\* key as long as there is one.
KeysAddUp ==
  /\ slnempty <=> clockq # <<>>
  /\ clockq # <<>> => sltop = clockq[1].pid
  /\ \A i \in 1 .. Len(clockq) :
       due[clockq[i].pid] = clockq[i].key + (IF i = 1 THEN 0 ELSE due[clockq[i - 1].pid])

\* Nobody sleeps on when its delay is over, and whoever sleeps and is not killed
\* sleeps through its delay: the list keeps what is left of it, whoever joins and
\* leaves before it (insertd.c, unsleep.c, wakeup.c, clkint.S).
DelayKept ==
  [][/\ KeysAddUp'
     /\ \A p \in Procs : pstate[p] = "PRSLEEP" /\ pstate'[p] # "PRFREE" =>
          (pstate'[p] = "PRSLEEP" <=> due'[p] > 0)]_vars

\* The semaphores implement counting semaphores with FIFO queues; a waiter has
\* its answer from the call that ends its waiting until it has returned.
Answer == [p \in All |-> IF p \in inwait THEN pwaitret[p] ELSE "none"]
Abs == INSTANCE SemAbs WITH
  Client <- All, Sem <- Sems, Amounts <- Counts \cup {1}, waiting <- semq, answer <- Answer,
  count <- [s \in Sems |-> IF sstate[s] = "SUSED" /\ semcnt[s] > 0 THEN semcnt[s] ELSE 0]

\* Each call is the one of the specification: no signal() is lost on the count of
\* a waiter that was killed, and wait() returns what ended the waiting, whatever
\* else is written to pwaitret before its caller runs again (wait.c, signal.c,
\* signaln.c, sdelete.c, sreset.c, kill.c:55-65, lock.c:168).
Counting ==
  /\ Abs!Spec
  /\ [][/\ WaitEnd => Abs!Return(currpid)
        /\ \A s \in Sems : Wait(s) => Abs!P(currpid, s)
        /\ UNCHANGED inwait => \A s \in Sems :
             /\ WaitPass(s) => Abs!P(currpid, s)
             /\ Signal(s) => Abs!V(s, 1)
             /\ Sdelete(s) => Abs!Delete(s)
             /\ \A n \in Counts : (Signaln(s, n) => Abs!V(s, n)) /\ (Sreset(s, n) => Abs!Set(s, n))]_vars
=============================================================================
