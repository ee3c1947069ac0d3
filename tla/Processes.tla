----------------------------- MODULE Processes -----------------------------
(***************************************************************************)
(* The states of processes, the ready list and resched() (sys/resched.c,   *)
(* ready.c, suspend.c, resume.c) for processes without inherited           *)
(* priorities.  The other modules of the kernel extend this one.           *)
(***************************************************************************)
EXTENDS KeyedList, Sequences

CONSTANTS
  Procs,    \* user process ids
  Prio      \* Prio[p]: the scheduling priority of process p

NULLPROC == 0
BADPID   == -1
EMPTY    == -1
All      == Procs \cup {NULLPROC}

ASSUME ProcsAssumption ==
  /\ Procs \subseteq Nat \ {0} /\ IsFiniteSet(Procs) /\ Procs # {}
  /\ Prio \in [Procs -> Nat \ {0}]

VARIABLES
  pstate,    \* proctab[p].pstate
  rdy,       \* the ready list
  currpid    \* the process that has the CPU

schedVars == <<pstate, rdy, currpid>>

PPrio(p) == IF p = NULLPROC THEN 0 ELSE Prio[p]
Alive(p) == pstate[p] # "PRFREE"

\* resched() once pstate and the ready list have become ps and rd.  The current
\* process keeps the CPU only if its priority is above the last key.  getlast()
\* of an empty list returns EMPTY: the kernel then runs on an entry that is none.
Resched(ps, rd) ==
  LET p      == currpid
      stays  == ps[p] = "PRCURR" /\ \A e \in rd : e.key < PPrio(p)
      queued == IF ps[p] = "PRCURR" THEN Insert(rd, p, PPrio(p)) ELSE rd
      old    == IF ps[p] = "PRCURR" THEN [ps EXCEPT ![p] = "PRREADY"] ELSE ps
  IN  \/ stays /\ pstate' = ps /\ rdy' = rd /\ UNCHANGED currpid
      \/ /\ ~stays
         /\ \E e \in queued :
              /\ IsLast(queued, e)
              /\ currpid' = e.pid
              /\ rdy' = Remove(queued, {e.pid})
              /\ pstate' = [old EXCEPT ![e.pid] = "PRCURR"]
      \/ queued = {} /\ ~stays /\ currpid' = EMPTY /\ rdy' = {} /\ pstate' = old

\* ready() of the processes of the sequence s in turn, then resched().
Ready(s) ==
  LET S == {s[i] : i \in 1 .. Len(s)} IN
  Resched([p \in All |-> IF p \in S THEN "PRREADY" ELSE pstate[p]],
          InsertAll(rdy, { [pid |-> s[i], key |-> PPrio(s[i]), turn |-> i] :
                             i \in 1 .. Len(s) }))

\* The current process stops running in the state st.
Block(st) == Resched([pstate EXCEPT ![currpid] = st], rdy)

\* All processes have been created and resumed; one that no other outranks runs.
SchedInit ==
  /\ currpid \in {p \in Procs : \A q \in Procs : Prio[q] < Prio[p] \/ (Prio[q] = Prio[p] /\ p <= q)}
  /\ pstate = [p \in All |-> IF p = currpid THEN "PRCURR" ELSE "PRREADY"]
  /\ rdy = InsertAll({}, { [pid |-> p, key |-> PPrio(p), turn |-> p] : p \in All \ {currpid} })

Resume(p) == pstate[p] = "PRSUSP" /\ Ready(<<p>>)

Suspend(p) ==
  \/ /\ pstate[p] = "PRREADY"
     /\ pstate' = [pstate EXCEPT ![p] = "PRSUSP"]
     /\ rdy' = Remove(rdy, {p})
     /\ UNCHANGED currpid
  \/ p = currpid /\ Block("PRSUSP")

\* The clock interrupt at the end of a time slice (preempt is not counted).
SliceEnd == Resched(pstate, rdy)
=============================================================================
