----------------------------- MODULE Semaphores -----------------------------
(***************************************************************************)
(* Counting semaphores (sys/wait.c, signal.c, signaln.c, screate.c,        *)
(* sdelete.c, sreset.c).  The wait queue of a semaphore is a sequence from *)
(* head to tail: enqueue() appends and getfirst() takes the head.          *)
(***************************************************************************)
EXTENDS Processes

CONSTANTS
  NSEM,      \* size of semaph[]
  Counts,    \* counts given to screate(), signaln() and sreset()
  MaxCount   \* bound: a semaphore is not signalled above it

Sems == 0 .. NSEM - 1

ASSUME SemsAssumption ==
  NSEM \in Nat \ {0} /\ Counts \subseteq Int /\ MaxCount \in Nat

VARIABLES
  sstate,     \* semaph[s].sstate
  semcnt,     \* semaph[s].semcnt
  semq,       \* the processes on semaph[s].sqhead
  nextsem,    \* where newsem() goes on searching
  psem,       \* proctab[p].psem: the semaphore p waited on last
  pwaitret    \* proctab[p].pwaitret: what wait() returns after a wait

semVars == <<sstate, semcnt, semq, nextsem, psem, pwaitret>>

SemInit ==
  /\ sstate = [s \in Sems |-> "SFREE"]
  /\ semcnt = [s \in Sems |-> 0]
  /\ semq = [s \in Sems |-> <<>>]
  /\ nextsem = NSEM - 1
  /\ psem = [p \in All |-> 0]
  /\ pwaitret = [p \in All |-> "OK"]

\* newsem() walks down from nextsem and wraps.
Distance(s) == (nextsem - s) % NSEM
NewSem(s) ==
  /\ sstate[s] = "SFREE"
  /\ \A t \in Sems : sstate[t] = "SFREE" => Distance(s) <= Distance(t)

Screate(s, count) ==
  /\ count >= 0 /\ NewSem(s)
  /\ sstate' = [sstate EXCEPT ![s] = "SUSED"]
  /\ semcnt' = [semcnt EXCEPT ![s] = count]
  /\ nextsem' = IF s = 0 THEN NSEM - 1 ELSE s - 1
  /\ UNCHANGED <<semq, psem, pwaitret, schedVars>>

\* Mutant: the waiters are not told that the semaphore is gone.
SameAnswer(s) == pwaitret
DeletedAnswer(s) == [p \in All |->
  IF \E i \in 1 .. Len(semq[s]) : semq[s][i] = p THEN "DELETED" ELSE pwaitret[p]]

Sdelete(s) ==
  /\ sstate[s] = "SUSED"
  /\ sstate' = [sstate EXCEPT ![s] = "SFREE"]
  /\ semq' = [semq EXCEPT ![s] = <<>>]
  /\ pwaitret' = DeletedAnswer(s)
  /\ UNCHANGED <<semcnt, nextsem, psem>>
  /\ IF semq[s] = <<>> THEN UNCHANGED schedVars ELSE Ready(semq[s])

WaitPass(s) ==
  /\ sstate[s] = "SUSED" /\ semcnt[s] > 0
  /\ semcnt' = [semcnt EXCEPT ![s] = @ - 1]
  /\ UNCHANGED <<sstate, semq, nextsem, psem, pwaitret, schedVars>>

\* Mutant: the process is put in front of the queue.
InFront(s) == <<currpid>> \o semq[s]
Enqueued(s) == Append(semq[s], currpid)

WaitBlock(s) ==
  /\ sstate[s] = "SUSED" /\ semcnt[s] <= 0
  /\ semcnt' = [semcnt EXCEPT ![s] = @ - 1]
  /\ psem' = [psem EXCEPT ![currpid] = s]
  /\ semq' = [semq EXCEPT ![s] = Enqueued(s)]
  /\ pwaitret' = [pwaitret EXCEPT ![currpid] = "OK"]
  /\ Block("PRWAIT")
  /\ UNCHANGED <<sstate, nextsem>>

\* How many waiters n increments of the count of s make ready, and the queue of
\* s without them.
Awakened(s, n) ==
  LET want == IF semcnt[s] >= 0 THEN 0 ELSE IF n < -semcnt[s] THEN n ELSE -semcnt[s]
  IN  IF want < Len(semq[s]) THEN want ELSE Len(semq[s])

Signal(s) ==
  LET k == Awakened(s, 1) IN
  /\ sstate[s] = "SUSED" /\ semcnt[s] < MaxCount
  /\ semcnt' = [semcnt EXCEPT ![s] = @ + 1]
  /\ semq' = [semq EXCEPT ![s] = SubSeq(@, k + 1, Len(@))]
  /\ UNCHANGED <<sstate, nextsem, psem, pwaitret>>
  /\ IF k = 0 THEN UNCHANGED schedVars ELSE Ready(SubSeq(semq[s], 1, k))

Signaln(s, count) ==
  LET k == Awakened(s, count) IN
  /\ sstate[s] = "SUSED" /\ count > 0 /\ semcnt[s] + count <= MaxCount
  /\ semcnt' = [semcnt EXCEPT ![s] = @ + count]
  /\ semq' = [semq EXCEPT ![s] = SubSeq(@, k + 1, Len(@))]
  /\ UNCHANGED <<sstate, nextsem, psem, pwaitret>>
  /\ Ready(SubSeq(semq[s], 1, k))

Sreset(s, count) ==
  /\ sstate[s] = "SUSED" /\ count >= 0
  /\ semcnt' = [semcnt EXCEPT ![s] = count]
  /\ semq' = [semq EXCEPT ![s] = <<>>]
  /\ UNCHANGED <<sstate, nextsem, psem, pwaitret>>
  /\ Ready(semq[s])

\* dequeue() of p, if it is on the queue Q.
Without(Q, p) ==
  IF \A i \in 1 .. Len(Q) : Q[i] # p THEN Q
  ELSE LET i == CHOOSE i \in 1 .. Len(Q) : Q[i] = p
       IN  SubSeq(Q, 1, i - 1) \o SubSeq(Q, i + 1, Len(Q))

\* What kill() does to a process in PRWAIT: the count of the semaphore in psem
\* goes up, and the process leaves whatever queue it is on.
Unwait(p) ==
  /\ semcnt' = [semcnt EXCEPT ![psem[p]] = @ + 1]
  /\ semq' = [s \in Sems |-> Without(semq[s], p)]
  /\ UNCHANGED <<sstate, nextsem>>

\* The calls that return at once.
SemCall ==
  \E s \in Sems :
    \/ Sdelete(s) \/ WaitPass(s) \/ Signal(s)
    \/ \E n \in Counts : Screate(s, n) \/ Signaln(s, n) \/ Sreset(s, n)
=============================================================================
