------------------------------ MODULE LockLive ------------------------------
(***************************************************************************)
(* Progress of the locks for processes that run finite programs: each      *)
(* process makes at most Requests calls of lock() and Naps calls of        *)
(* sleep(), releases what it holds and returns.  A process that asks       *)
(* without end can starve others of lower or equal priority by the locking *)
(* policy itself, so the bounds are part of what is promised.              *)
(*                                                                         *)
(* Fairness: the current process executes instructions (its next call is   *)
(* made), and the clock interrupts (a sleeping process is awakened).       *)
(***************************************************************************)
EXTENDS RWLockClient

CONSTANTS Requests, Naps
ASSUME BudgetAssumption == Requests \in Nat /\ Naps \in Nat

VARIABLES requests, naps   \* calls each process may still make
liveVars == <<vars, requests, naps>>

Spend(budget) == budget[currpid] > 0 /\ budget' = [budget EXCEPT ![currpid] = @ - 1]

\* A call that is refused would only repeat: the process releases what it holds.
ReleaseHeld == \E l \in Locks : currpid \in lproc[l] /\ Releaseall(<<l>>)

CallStep ==
  \/ Spend(requests) /\ UNCHANGED naps /\ Ask(Single)
  \/ Spend(naps) /\ UNCHANGED requests /\ Sleep
  \/ /\ UNCHANGED <<requests, naps>>
     /\ \/ \E l \in Locks : l # 0 /\ ~Issued(l) /\ Lcreate(l)
        \/ ReleaseHeld
        \/ ReleaseNext
        \/ Uninvolved(currpid) /\ Exit

ClockStep ==
  /\ UNCHANGED <<requests, naps>>
  /\ ClkInt \/ \E S \in SUBSET Procs : Wakeup(S)

LiveSpec ==
  /\ Init /\ requests = [p \in All |-> Requests] /\ naps = [p \in All |-> Naps]
  /\ [][CallStep \/ ClockStep]_liveVars
  /\ WF_liveVars(CallStep)
  /\ \A p \in Procs : WF_liveVars(UNCHANGED <<requests, naps>> /\ Wakeup({p}))
-----------------------------------------------------------------------------
\* Whoever waits for a lock gets it and runs again: each release() passes the
\* lock on, and priority scheduling lets every finite program finish.
WaiterServed ==
  \A p \in Procs : pstate[p] = "PRWAIT" ~> pstate[p] = "PRCURR"
-----------------------------------------------------------------------------
\* Values of the constants for TLC: distinct priorities, and no arguments of release()
\* beside those of the programs.
PrioById == [p \in Started |-> p]
NoArgs   == {}
=============================================================================
