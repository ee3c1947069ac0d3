---------------------------- MODULE KernelProof ----------------------------
(***************************************************************************)
(* Proofs about the kernel: scheduler, semaphores, messages and sleep.     *)
(*   ListTheorem      every process is on the list its state names         *)
(*   ReceiverTheorem  no message is lost in a race with its time-out       *)
(*   DelayTheorem     who sleeps sleeps through its delay and no longer    *)
(*   CountingTheorem  the semaphores implement SemAbs                      *)
(* All rest on KInv, whose four parts need each other: a process is taken  *)
(* off one list and put on another by calls of different components.       *)
(*   Sched   who is current and who is ready, and that the null process    *)
(*           never blocks, so that resched() finds somebody                *)
(*   Waits   queue, count and psem of the semaphores agree: kill() and     *)
(*           sdelete() find a waiter where it is                           *)
(*   Sleeps  the keys of the delta list add up to what is left of each     *)
(*           delay, the clock's shortcuts point at its top                 *)
(*   Msgs    the state of a process fits the call it is in and its slot    *)
(* Counting adds InCall: who is on a queue is in a wait() that has not     *)
(* returned, so that nothing but the end of the waiting writes its answer. *)
(* The lists are sequences here and their order matters; what insertd()    *)
(* and dequeue() do to them is shown from the first position that their    *)
(* loops stop at.                                                          *)
(***************************************************************************)
EXTENDS Kernel, ProcessesProof, FunctionTheorems

(* dequeue() from the queue of a semaphore *)

\* dequeue() takes its process from the queue it is on and leaves the others.
LEMMA WithoutIs ==
  ASSUME NEW S, NEW Q \in Seq(S), Distinct(Q), NEW p
  PROVE  /\ p \notin Members(Q) => Without(Q, p) = Q
         /\ \A i \in 1 .. Len(Q) : Q[i] = p => Without(Q, p) = Gone(Q, i)
<1>1. p \notin Members(Q) <=> \A i \in 1 .. Len(Q) : Q[i] # p
  BY DEF Members
<1>2. ASSUME NEW i \in 1 .. Len(Q), Q[i] = p
      PROVE  Without(Q, p) = Gone(Q, i)
  <2>1. (CHOOSE j \in 1 .. Len(Q) : Q[j] = p) = i
    BY <1>2 DEF Distinct
  <2> QED
    BY <1>2, <2>1 DEF Without, Gone
<1> QED
  BY <1>1, <1>2 DEF Without

LEMMA WithoutMembers ==
  ASSUME NEW S, NEW Q \in Seq(S), Distinct(Q), NEW p
  PROVE  /\ Without(Q, p) \in Seq(S) /\ Distinct(Without(Q, p))
         /\ Members(Without(Q, p)) = Members(Q) \ {p}
         /\ Len(Without(Q, p)) = IF p \in Members(Q) THEN Len(Q) - 1 ELSE Len(Q)
<1>1. CASE p \notin Members(Q)
  BY <1>1, WithoutIs
<1>2. CASE p \in Members(Q)
  <2>1. PICK i \in 1 .. Len(Q) : Q[i] = p
    BY <1>2 DEF Members
  <2>2. Without(Q, p) = Gone(Q, i)
    BY <1>2, <2>1, WithoutIs
  <2>3. Gone(Q, i) \in Seq(S) /\ Len(Gone(Q, i)) = Len(Q) - 1
    BY <2>1, GoneIs
  <2>4. Distinct(Gone(Q, i)) /\ Members(Gone(Q, i)) = Members(Q) \ {p}
    BY <2>1, GoneMembers
  <2> QED
    BY <1>2, <2>2, <2>3, <2>4
<1> QED
  BY <1>1, <1>2
-----------------------------------------------------------------------------
(* The inductive invariant *)

\* Whoever is on the queue of a semaphore waits for it and for nothing else, and
\* as many wait as the count is below zero.
Waits ==
  /\ sstate \in [Sems -> {"SFREE", "SUSED"}] /\ semcnt \in [Sems -> Int]
  /\ semq \in [Sems -> Seq(All)] /\ psem \in [All -> Sems]
  /\ pwaitret \in [All -> {"OK", "DELETED"}] /\ lockq \subseteq All
  /\ \A s \in Sems : Distinct(semq[s])
  /\ \A s \in Sems : Len(semq[s]) = IF sstate[s] = "SUSED" /\ semcnt[s] < 0 THEN -semcnt[s] ELSE 0
  /\ \A s \in Sems : \A p \in Members(semq[s]) : pstate[p] = "PRWAIT" /\ psem[p] = s /\ p \notin lockq
  /\ \A p \in lockq : pstate[p] = "PRWAIT"
  /\ \A p \in All : pstate[p] = "PRWAIT" => p \in lockq \/ p \in Members(semq[psem[p]])

\* When the entry before i of the list Q of sleepers is due.
Before(Q, d, i) == IF i = 1 THEN 0 ELSE d[Q[i - 1].pid]
Sleepers(Q) == {Q[i].pid : i \in 1 .. Len(Q)}
Entries == [pid : Procs, key : Nat]

\* Each sleeper is once on the list Q, no key is negative, the keys add up to d,
\* and whoever does not sleep is due.
Delta(Q, d) ==
  /\ Q \in Seq(Entries) /\ d \in [Procs -> Nat]
  /\ \A i, j \in 1 .. Len(Q) : Q[i].pid = Q[j].pid => i = j
  /\ \A i \in 1 .. Len(Q) : d[Q[i].pid] = Q[i].key + Before(Q, d, i)
  /\ Len(Q) > 0 => Q[1].key > 0
  /\ \A p \in Procs : p \notin Sleepers(Q) => d[p] = 0

Sleeps ==
  /\ Delta(clockq, due)
  /\ slnempty = (clockq # <<>>)
  /\ clockq # <<>> => sltop = clockq[1].pid
  /\ \A p \in All : pstate[p] \in SleepState <=> p \in Sleepers(clockq)

\* The state of a process fits the call it is in and its message slot.
Agrees(st, op, has) ==
  /\ st = "PRRECV" => op = "receive" /\ has = FALSE
  /\ st = "PRTRECV" => op = "recvtim" /\ has = FALSE
  /\ st \in {"PRSLEEP", "PRWAIT", "PRFREE"} => op = "none"
  /\ st \in {"PRCURR", "PRREADY", "PRSUSP"} /\ op = "receive" => has = TRUE

Calls == [op : {"none", "receive", "recvtim", "kill"}, arg : All]

Msgs ==
  /\ phasmsg \in [Procs -> BOOLEAN] /\ cont \in [All -> Calls]
  /\ pnxtkin \in [Procs -> Procs \cup {BADPID}]
  /\ cont[NULLPROC] = None
  /\ \A p \in All : cont[p].op = "kill" => cont[p].arg \in Procs
  /\ \A p \in All : cont[p].op = "kill" => cont[p].arg \notin lockq
  /\ \A p \in Procs : Agrees(pstate[p], cont[p].op, phasmsg[p])

KInv == Sched /\ Waits /\ Sleeps /\ Msgs

LEMMA Ids ==
  /\ NULLPROC \in All /\ Procs \subseteq All /\ NULLPROC \notin Procs /\ BADPID \notin All
  /\ 0 \in Sems /\ Sems \subseteq Int /\ All \ {NULLPROC} = Procs
  BY ProcsAssumption, SemsAssumption DEF All, NULLPROC, BADPID, Sems

LEMMA NoCall == None \in Calls /\ None.op = "none"
  BY Ids DEF None, Calls

LEMMA WaitsSame ==
  ASSUME Waits, Sched, UNCHANGED <<semVars, lockq>>,
         \A p \in All : pstate'[p] = "PRWAIT" <=> pstate[p] = "PRWAIT"
  PROVE  Waits'
<1>1. \A s \in Sems : Members(semq[s]) \subseteq All
  BY ElementOfSeq DEF Waits, Members
<1>2. UNCHANGED <<sstate, semcnt, semq, psem, pwaitret, lockq>>
  BY DEF semVars
<1> QED
  BY <1>1, <1>2 DEF Waits

LEMMA SleepsSame ==
  ASSUME Sleeps, UNCHANGED clockVars,
         \A p \in All : pstate'[p] \in SleepState <=> pstate[p] \in SleepState
  PROVE  Sleeps'
<1>1. UNCHANGED <<clockq, slnempty, sltop, due>>
  BY DEF clockVars
<1> QED
  BY <1>1 DEF Sleeps

LEMMA MsgsSame ==
  ASSUME Msgs, UNCHANGED <<phasmsg, cont, pnxtkin>>,
         \A p \in All : cont'[p].op = "kill" => cont'[p].arg \notin lockq',
         \A p \in Procs : Agrees(pstate'[p], cont[p].op, phasmsg[p])
  PROVE  Msgs'
  BY Zenon DEF Msgs

\* Who stays in its state stays on its lists.
LEMMA StaysSame ==
  ASSUME Sched, Sched', NEW p \in All, Stays(p)
  PROVE  /\ pstate'[p] = "PRWAIT" <=> pstate[p] = "PRWAIT"
         /\ pstate'[p] \in SleepState <=> pstate[p] \in SleepState
         /\ pstate'[p] \in Running <=> pstate[p] \in Running
         /\ pstate'[p] \notin Running => pstate'[p] = pstate[p]
  BY DEF Stays, Becomes, Running, SleepState

LEMMA StaysAgrees ==
  ASSUME NEW st, NEW st2, NEW op, NEW has, Agrees(st, op, has),
         st2 = st \/ (st \in Running /\ st2 \in Running)
  PROVE  Agrees(st2, op, has)
  BY DEF Agrees, Running

LEMMA KInit == Init => KInv
<1> SUFFICES ASSUME Init PROVE KInv
  OBVIOUS
<1>1. Sched
  BY SchedInitial DEF Init
<1>2. \A p \in All : pstate[p] \in Running
  BY DEF Init, SchedInit, Running
<1>3. Waits
  <2>1. /\ sstate = [s \in Sems |-> "SFREE"] /\ semcnt = [s \in Sems |-> 0]
        /\ semq = [s \in Sems |-> <<>>] /\ psem = [p \in All |-> 0]
        /\ pwaitret = [p \in All |-> "OK"] /\ lockq = {}
    BY DEF Init, SemInit
  <2>2. \A s \in Sems : semq[s] = <<>>
    BY <2>1
  <2>3. \A s \in Sems : semq[s] \in Seq(All) /\ Distinct(semq[s]) /\ Len(semq[s]) = 0 /\ Members(semq[s]) = {}
    BY <2>2, Nobody
  <2> QED
    BY <1>2, <2>1, <2>3, Ids DEF Waits, Running
<1>4. Sleeps
  <2>1. clockq = <<>> /\ slnempty = FALSE /\ due = [p \in Procs |-> 0]
    BY DEF Init, ClockInit
  <2>2. Len(clockq) = 0 /\ clockq \in Seq(Entries) /\ Sleepers(clockq) = {}
    BY <2>1 DEF Sleepers
  <2>3. due \in [Procs -> Nat] /\ slnempty = (clockq # <<>>)
    BY <2>1
  <2>4. \A p \in All : pstate[p] \in SleepState <=> p \in Sleepers(clockq)
    BY <1>2, <2>2 DEF Running, SleepState
  <2>5. Delta(clockq, due)
    BY <2>1, <2>2, <2>3 DEF Delta
  <2> QED
    BY <2>1, <2>3, <2>4, <2>5 DEF Sleeps
<1>5. Msgs
  <2>1. /\ phasmsg = [p \in Procs |-> FALSE] /\ cont = [p \in All |-> None]
        /\ pnxtkin = [p \in Procs |-> BADPID]
    BY DEF Init, MsgInit
  <2>2. phasmsg \in [Procs -> BOOLEAN] /\ cont \in [All -> Calls] /\ pnxtkin \in [Procs -> Procs \cup {BADPID}]
    BY <2>1, NoCall
  <2>3. \A p \in All : cont[p] = None /\ cont[p].op # "kill"
    BY <2>1, NoCall
  <2>4. ASSUME NEW p \in Procs  PROVE Agrees(pstate[p], cont[p].op, phasmsg[p])
    BY <1>2, <2>3, Ids, NoCall DEF Agrees, Running
  <2> QED
    BY <2>2, <2>3, <2>4, Ids DEF Msgs
<1> QED
  BY <1>1, <1>3, <1>4, <1>5 DEF KInv
-----------------------------------------------------------------------------
(* Steps that only move processes that do not wait *)

Awake == Running \cup {"PRSUSP"}
Free(p) == pstate'[p] = pstate[p] \/ (pstate[p] \in Awake /\ pstate'[p] \in Awake)

LEMMA FreeMoves ==
  ASSUME NEW p, Free(p)
  PROVE  /\ pstate'[p] = "PRWAIT" <=> pstate[p] = "PRWAIT"
         /\ pstate'[p] \in SleepState <=> pstate[p] \in SleepState
         /\ \A op, has : Agrees(pstate[p], op, has) => Agrees(pstate'[p], op, has)
  BY DEF Free, Awake, Running, SleepState, Agrees

LEMMA OthersStep ==
  ASSUME KInv, Others, Rule, Sched', \A p \in All : Free(p)
  PROVE  KInv'
<1>1. UNCHANGED semVars /\ UNCHANGED lockq /\ UNCHANGED clockVars /\ UNCHANGED <<phasmsg, cont, pnxtkin>>
  BY DEF Others
<1>2. Waits'
  BY <1>1, FreeMoves, WaitsSame DEF KInv
<1>3. Sleeps'
  BY <1>1, FreeMoves, SleepsSame DEF KInv
<1>4. Msgs'
  <2>1. \A p \in All : cont'[p].op = "kill" => cont'[p].arg \notin lockq'
    BY DEF Rule, Dying
  <2>2. \A p \in Procs : Agrees(pstate'[p], cont[p].op, phasmsg[p])
    BY FreeMoves, Ids DEF KInv, Msgs
  <2> QED
    BY <1>1, <2>1, <2>2, MsgsSame DEF KInv
<1> QED
  BY <1>2, <1>3, <1>4 DEF KInv

LEMMA SliceStep == ASSUME KInv, Rule, SliceEnd, Others PROVE KInv'
<1>1. Sched' /\ \A p \in All : Stays(p)
  BY SliceSched DEF KInv
<1> QED
  BY <1>1, OthersStep DEF Free, Stays, Becomes, Awake

LEMMA One ==
  ASSUME NEW p
  PROVE  Len(<<p>>) = 1 /\ {<<p>>[i] : i \in 1 .. Len(<<p>>)} = {p}
  OBVIOUS

LEMMA ReadyOne ==
  ASSUME Sched, NEW p \in All, Ready(<<p>>)
  PROVE  Sched' /\ pstate'[p] \in Running /\ \A q \in All \ {p} : Stays(q)
<1>1. {p} = {<<p>>[i] : i \in 1 .. Len(<<p>>)} /\ {p} \in SUBSET All
  BY One
<1>2. Sched' /\ \A q \in All : IF q \in {p} THEN pstate'[q] \in Running ELSE Stays(q)
  BY <1>1, ReadySched
<1> QED
  BY <1>2

LEMMA ResumeStep == ASSUME KInv, Rule, NEW p \in Procs, Resume(p), Others PROVE KInv'
<1>1. Sched' /\ pstate'[p] \in Running /\ \A q \in All \ {p} : Stays(q)
  BY ReadyOne, Ids DEF KInv, Resume
<1>2. Free(p)
  BY <1>1 DEF Resume, Free, Awake
<1> QED
  BY <1>1, <1>2, OthersStep DEF Free, Stays, Becomes, Awake

LEMMA SuspendStep ==
  ASSUME KInv, Rule, currpid # NULLPROC, NEW p \in Procs, Suspend(p), Others PROVE KInv'
<1>1. CASE p = currpid /\ Block("PRSUSP")
  <2>1. Sched' /\ pstate'[currpid] = "PRSUSP" /\ \A q \in All \ {currpid} : Stays(q)
    BY <1>1, BlockSched DEF KInv, States, Running
  <2>2. pstate[currpid] = "PRCURR"
    BY DEF KInv, Sched
  <2> QED
    BY <2>1, <2>2, OthersStep DEF Free, Stays, Becomes, Awake, Running
<1>2. CASE /\ pstate[p] = "PRREADY"
           /\ pstate' = [pstate EXCEPT ![p] = "PRSUSP"]
           /\ rdy' = Remove(rdy, {p})
           /\ UNCHANGED currpid
  <2>1. Pids(rdy') = Pids(rdy) \ {p}
    BY <1>2, PidsRemove
  <2>2. \A q \in All : pstate'[q] = IF q = p THEN "PRSUSP" ELSE pstate[q]
    BY <1>2 DEF KInv, Sched
  <2>3. Sched'
    BY <1>2, <2>1, <2>2, Ids DEF KInv, Sched, States
  <2> QED
    BY <1>2, <2>2, <2>3, OthersStep DEF Free, Awake, Running
<1> QED
  BY <1>1, <1>2 DEF Suspend

LEMMA SetnokStep ==
  ASSUME KInv, Rule, currpid # NULLPROC, NEW p \in Procs, Setnok(currpid, p) PROVE KInv'
<1>1. /\ UNCHANGED schedVars /\ UNCHANGED semVars /\ UNCHANGED clockVars
      /\ UNCHANGED <<phasmsg, cont, lockq>> /\ pnxtkin' = [pnxtkin EXCEPT ![p] = currpid]
  BY DEF Setnok
<1>2. UNCHANGED pstate
  BY <1>1 DEF schedVars
<1>3. Sched'
  BY <1>1, SchedSame DEF KInv
<1>4. Waits'
  BY <1>1, <1>2, WaitsSame DEF KInv
<1>5. Sleeps'
  BY <1>1, <1>2, SleepsSame DEF KInv
<1>6. pnxtkin' \in [Procs -> Procs \cup {BADPID}]
  BY <1>1, Ids DEF KInv, Msgs, Sched
<1>7. Msgs'
  BY <1>1, <1>2, <1>6, Zenon DEF KInv, Msgs
<1> QED
  BY <1>3, <1>4, <1>5, <1>7 DEF KInv
-----------------------------------------------------------------------------
(* Semaphores *)

LEMMA WaiterIdle ==
  ASSUME KInv, NEW p \in All, pstate[p] \in {"PRWAIT", "PRSLEEP", "PRFREE"}
  PROVE  p \in Procs /\ cont[p].op = "none"
<1>1. p \in Procs
  BY Ids DEF KInv, Sched, Running
<1> QED
  BY <1>1 DEF KInv, Msgs, Agrees

LEMMA OnQueue ==
  ASSUME KInv, NEW s \in Sems, NEW p \in Members(semq[s])
  PROVE  p \in All /\ pstate[p] = "PRWAIT" /\ cont[p].op = "none" /\ psem[p] = s
<1>1. p \in All
  BY ElementOfSeq DEF KInv, Waits, Members
<1> QED
  BY <1>1, WaiterIdle DEF KInv, Waits

LEMMA IdleAgrees ==
  ASSUME NEW st \in Awake \cup {"PRWAIT", "PRSLEEP", "PRFREE"}, NEW has
  PROVE  Agrees(st, "none", has)
  BY DEF Agrees, Awake, Running

\* p goes to or comes from a queue of waiting processes.
WaitMove(p) ==
  /\ cont[p].op = "none" /\ pstate[p] \notin SleepState
  /\ pstate'[p] \in Running \cup {"PRWAIT"}

\* Calls on semaphores and locks leave the sleepers and the messages as they are.
LEMMA WaitRest ==
  ASSUME KInv, Rule, Sched', UNCHANGED clockVars, UNCHANGED <<phasmsg, cont, pnxtkin>>,
         \A p \in All : Stays(p) \/ WaitMove(p)
  PROVE  Sleeps' /\ Msgs'
<1>1. \A p \in All : pstate'[p] \in SleepState <=> pstate[p] \in SleepState
  BY DEF Stays, Becomes, WaitMove, Running, SleepState
<1>2. Sleeps'
  BY <1>1, SleepsSame DEF KInv
<1>3. \A p \in All : cont'[p].op = "kill" => cont'[p].arg \notin lockq'
  BY DEF Rule, Dying
<1>4. ASSUME NEW p \in Procs  PROVE Agrees(pstate'[p], cont[p].op, phasmsg[p])
  <2>1. Agrees(pstate[p], cont[p].op, phasmsg[p]) /\ p \in All
    BY Ids DEF KInv, Msgs
  <2>2. CASE Stays(p)
    BY <2>1, <2>2, StaysAgrees DEF Stays, Becomes
  <2>3. CASE WaitMove(p)
    BY <2>3, IdleAgrees DEF WaitMove, Awake
  <2> QED
    BY <2>1, <2>2, <2>3
<1> QED
  BY <1>2, <1>3, <1>4, MsgsSame DEF KInv

\* The processes of G leave the queue of s, which becomes Q.
LEMMA Released ==
  ASSUME KInv, Sched', NEW s \in Sems, NEW Q \in Seq(All), Distinct(Q),
         NEW G \in SUBSET Members(semq[s]), Members(Q) = Members(semq[s]) \ G,
         \A p \in All : IF p \in G THEN pstate'[p] \in Running ELSE Stays(p),
         NEW st \in {"SFREE", "SUSED"}, NEW n \in Int,
         Len(Q) = IF st = "SUSED" /\ n < 0 THEN -n ELSE 0,
         semq' = [semq EXCEPT ![s] = Q], semcnt' = [semcnt EXCEPT ![s] = n],
         sstate' = [sstate EXCEPT ![s] = st],
         pwaitret' \in [All -> {"OK", "DELETED"}], UNCHANGED <<psem, lockq>>
  PROVE  Waits'
<1>1. /\ semq' \in [Sems -> Seq(All)] /\ semcnt' \in [Sems -> Int]
      /\ sstate' \in [Sems -> {"SFREE", "SUSED"}] /\ psem' \in [All -> Sems] /\ lockq' \subseteq All
  BY DEF KInv, Waits
<1>2. \A t \in Sems : /\ semq'[t] = IF t = s THEN Q ELSE semq[t]
                      /\ semcnt'[t] = IF t = s THEN n ELSE semcnt[t]
                      /\ sstate'[t] = IF t = s THEN st ELSE sstate[t]
  BY DEF KInv, Waits
<1>3. \A t \in Sems : Distinct(semq'[t])
  BY <1>2 DEF KInv, Waits
<1>4. ASSUME NEW t \in Sems
      PROVE  Len(semq'[t]) = IF sstate'[t] = "SUSED" /\ semcnt'[t] < 0 THEN -semcnt'[t] ELSE 0
  <2>1. Len(semq[t]) = IF sstate[t] = "SUSED" /\ semcnt[t] < 0 THEN -semcnt[t] ELSE 0
    BY DEF KInv, Waits
  <2>2. CASE t = s
    BY <1>2, <2>2
  <2>3. CASE t # s
    BY <1>2, <2>1, <2>3
  <2> QED
    BY <2>2, <2>3
<1>5. ASSUME NEW p \in All, pstate[p] = "PRWAIT", p \notin G  PROVE pstate'[p] = "PRWAIT"
  BY <1>5 DEF Stays, Becomes, Running
<1>6. ASSUME NEW t \in Sems, NEW p \in Members(semq'[t])
      PROVE  pstate'[p] = "PRWAIT" /\ psem'[p] = t /\ p \notin lockq'
  <2>1. p \in Members(semq[t]) /\ (t = s => p \notin G)
    BY <1>2, <1>6
  <2>2. p \in All /\ pstate[p] = "PRWAIT" /\ psem[p] = t
    BY <2>1, OnQueue
  <2>3. p \notin G
    BY <2>1, <2>2, OnQueue
  <2> QED
    BY <1>5, <2>1, <2>2, <2>3 DEF KInv, Waits
<1>7. ASSUME NEW p \in lockq'  PROVE pstate'[p] = "PRWAIT"
  BY <1>5, <1>7, OnQueue DEF KInv, Waits
<1>8. ASSUME NEW p \in All, pstate'[p] = "PRWAIT"
      PROVE  p \in lockq' \/ p \in Members(semq'[psem'[p]])
  <2>1. p \notin G /\ pstate[p] = "PRWAIT" /\ psem[p] \in Sems
    BY <1>8 DEF Stays, Becomes, Running, KInv, Waits
  <2> QED
    BY <1>2, <2>1 DEF KInv, Waits
<1> QED
  BY <1>1, <1>3, <1>4, <1>6, <1>7, <1>8 DEF Waits

LEMMA QueueOf ==
  ASSUME KInv, NEW s \in Sems
  PROVE  /\ semq[s] \in Seq(All) /\ Distinct(semq[s]) /\ Members(semq[s]) \subseteq All
         /\ Len(semq[s]) \in Nat /\ semcnt[s] \in Int /\ sstate[s] \in {"SFREE", "SUSED"}
         /\ Len(semq[s]) = IF sstate[s] = "SUSED" /\ semcnt[s] < 0 THEN -semcnt[s] ELSE 0
         /\ \A p \in Members(semq[s]) : pstate[p] = "PRWAIT" /\ cont[p].op = "none"
<1>1. semq[s] \in Seq(All)
  BY DEF KInv, Waits
<1>2. Len(semq[s]) \in Nat
  BY <1>1, LenProperties
<1> QED
  BY <1>1, <1>2, OnQueue DEF KInv, Waits

\* The waiters of G are readied, nobody else moves.
LEMMA GroupReady ==
  ASSUME KInv, NEW s \in Sems, NEW W, NEW G \in SUBSET Members(semq[s]), Members(W) = G,
         Ready(W)
  PROVE  /\ Sched'
         /\ \A p \in All : IF p \in G THEN pstate'[p] \in Running ELSE Stays(p)
         /\ \A p \in All : Stays(p) \/ WaitMove(p)
<1>1. G \in SUBSET All /\ \A p \in G : pstate[p] = "PRWAIT" /\ cont[p].op = "none"
  BY QueueOf
<1>2. Sched' /\ \A p \in All : IF p \in G THEN pstate'[p] \in Running ELSE Stays(p)
  BY <1>1, ReadySched DEF KInv, Members
<1> QED
  BY <1>1, <1>2 DEF WaitMove, SleepState

LEMMA NobodyMoves ==
  ASSUME KInv, UNCHANGED schedVars
  PROVE  Sched' /\ \A p \in All : Stays(p)
  BY SchedSame DEF KInv

\* Nobody leaves the queue of s.
LEMMA KeptQueue ==
  ASSUME KInv, Sched', \A p \in All : Stays(p), NEW s \in Sems,
         NEW st \in {"SFREE", "SUSED"}, NEW n \in Int,
         Len(semq[s]) = IF st = "SUSED" /\ n < 0 THEN -n ELSE 0,
         semcnt' = [semcnt EXCEPT ![s] = n], sstate' = [sstate EXCEPT ![s] = st],
         UNCHANGED <<semq, pwaitret, psem, lockq>>
  PROVE  Waits'
<1>1. PICK Q \in Seq(All) : Q = semq[s]
  BY QueueOf
<1>2. Distinct(Q) /\ Members(Q) = Members(semq[s]) \ {} /\ semq' = [semq EXCEPT ![s] = Q]
  BY <1>1, QueueOf DEF KInv, Waits
<1>3. Len(Q) = IF st = "SUSED" /\ n < 0 THEN -n ELSE 0
  BY <1>1
<1>4. {} \in SUBSET Members(semq[s]) /\ \A p \in All : IF p \in {} THEN pstate'[p] \in Running ELSE Stays(p)
  OBVIOUS
<1>5. pwaitret' \in [All -> {"OK", "DELETED"}] /\ UNCHANGED <<psem, lockq>>
  BY DEF KInv, Waits
<1> QED
  BY <1>2, <1>3, <1>4, <1>5, Released

\* Who moves in a call on semaphores, and what becomes of the queues.
SemMoves == Sched' /\ Waits' /\ \A p \in All : Stays(p) \/ WaitMove(p)

LEMMA ScreateMoves == ASSUME KInv, NEW s \in Sems, NEW n \in Counts, Screate(s, n), UNCHANGED lockq
                      PROVE  SemMoves
<1>1. Sched' /\ \A p \in All : Stays(p)
  BY NobodyMoves DEF Screate
<1>2. /\ sstate[s] = "SFREE" /\ n >= 0 /\ n \in Int
      /\ sstate' = [sstate EXCEPT ![s] = "SUSED"] /\ semcnt' = [semcnt EXCEPT ![s] = n]
      /\ UNCHANGED <<semq, psem, pwaitret, lockq>>
  BY SemsAssumption DEF Screate, NewSem
<1>3. Len(semq[s]) = 0 /\ Len(semq[s]) = IF "SUSED" = "SUSED" /\ n < 0 THEN -n ELSE 0
  BY <1>2, QueueOf
<1>4. Waits'
  BY <1>1, <1>2, <1>3, KeptQueue
<1> QED
  BY <1>1, <1>4 DEF SemMoves

LEMMA PassMoves == ASSUME KInv, NEW s \in Sems, WaitPass(s), UNCHANGED lockq PROVE SemMoves
<1>1. Sched' /\ \A p \in All : Stays(p)
  BY NobodyMoves DEF WaitPass
<1>2. /\ sstate[s] = "SUSED" /\ semcnt[s] > 0
      /\ semcnt' = [semcnt EXCEPT ![s] = semcnt[s] - 1]
      /\ UNCHANGED <<sstate, semq, psem, pwaitret, lockq>>
  BY DEF WaitPass
<1>3. PICK n \in Int : n = semcnt[s] - 1
  BY QueueOf
<1>4. Len(semq[s]) = 0 /\ Len(semq[s]) = IF "SUSED" = "SUSED" /\ n < 0 THEN -n ELSE 0
  BY <1>2, <1>3, QueueOf
<1>5. sstate' = [sstate EXCEPT ![s] = "SUSED"] /\ semcnt' = [semcnt EXCEPT ![s] = n]
  BY <1>2, <1>3 DEF KInv, Waits
<1>6. Waits'
  BY <1>1, <1>2, <1>4, <1>5, KeptQueue
<1> QED
  BY <1>1, <1>6 DEF SemMoves

LEMMA SdeleteMoves == ASSUME KInv, NEW s \in Sems, Sdelete(s), UNCHANGED lockq PROVE SemMoves
<1>1. Sched' /\ (\A p \in All : IF p \in Members(semq[s]) THEN pstate'[p] \in Running ELSE Stays(p))
      /\ \A p \in All : Stays(p) \/ WaitMove(p)
  <2>1. CASE semq[s] = <<>>
    <3>1. Members(semq[s]) = {}
      BY <2>1, Nobody
    <3> QED
      BY <2>1, <3>1, NobodyMoves DEF Sdelete
  <2>2. CASE semq[s] # <<>>
    BY <2>2, GroupReady DEF Sdelete
  <2> QED
    BY <2>1, <2>2
<1>2. /\ sstate' = [sstate EXCEPT ![s] = "SFREE"] /\ semq' = [semq EXCEPT ![s] = <<>>]
      /\ pwaitret' = DeletedAnswer(s) /\ UNCHANGED <<semcnt, psem, lockq>>
  BY DEF Sdelete
<1>3. semcnt' = [semcnt EXCEPT ![s] = semcnt[s]] /\ pwaitret' \in [All -> {"OK", "DELETED"}]
  BY <1>2 DEF KInv, Waits, DeletedAnswer
<1>4. PICK n \in Int : n = semcnt[s]
  BY QueueOf
<1>5. /\ <<>> \in Seq(All) /\ Distinct(<<>>) /\ Members(<<>>) = Members(semq[s]) \ Members(semq[s])
      /\ Len(<<>>) = IF "SFREE" = "SUSED" /\ n < 0 THEN -n ELSE 0
  BY Nobody
<1>6. Waits'
  <2>1. semcnt' = [semcnt EXCEPT ![s] = n] /\ UNCHANGED <<psem, lockq>>
    BY <1>2, <1>3, <1>4
  <2> QED
    BY <1>1, <1>2, <1>3, <1>5, <2>1, Released
<1> QED
  BY <1>1, <1>6 DEF SemMoves

LEMMA SresetMoves == ASSUME KInv, NEW s \in Sems, NEW n \in Counts, Sreset(s, n), UNCHANGED lockq
                     PROVE  SemMoves
<1>1. Sched' /\ (\A p \in All : IF p \in Members(semq[s]) THEN pstate'[p] \in Running ELSE Stays(p))
      /\ \A p \in All : Stays(p) \/ WaitMove(p)
  BY GroupReady DEF Sreset
<1>2. /\ sstate[s] = "SUSED" /\ n >= 0 /\ n \in Int
      /\ semq' = [semq EXCEPT ![s] = <<>>] /\ semcnt' = [semcnt EXCEPT ![s] = n]
      /\ UNCHANGED <<sstate, psem, pwaitret, lockq>>
  BY SemsAssumption DEF Sreset
<1>3. sstate' = [sstate EXCEPT ![s] = "SUSED"] /\ pwaitret' \in [All -> {"OK", "DELETED"}]
  BY <1>2 DEF KInv, Waits
<1>4. /\ <<>> \in Seq(All) /\ Distinct(<<>>) /\ Members(<<>>) = Members(semq[s]) \ Members(semq[s])
      /\ Len(<<>>) = IF "SUSED" = "SUSED" /\ n < 0 THEN -n ELSE 0
  BY <1>2, Nobody
<1>5. Waits'
  BY <1>1, <1>2, <1>3, <1>4, Released
<1> QED
  BY <1>1, <1>5 DEF SemMoves

\* Of the waiters of s, n or all of them go.
LEMMA AwakenedIs ==
  ASSUME KInv, NEW s \in Sems, sstate[s] = "SUSED", NEW n \in Nat
  PROVE  /\ Awakened(s, n) \in 0 .. Len(semq[s])
         /\ Awakened(s, n) = IF n < Len(semq[s]) THEN n ELSE Len(semq[s])
<1>1. /\ Len(semq[s]) \in Nat /\ semcnt[s] \in Int
      /\ Len(semq[s]) = IF semcnt[s] < 0 THEN -semcnt[s] ELSE 0
  BY QueueOf
<1> QED
  BY <1>1 DEF Awakened

\* The first k waiters of s go and the count goes up by n.
LEMMA RaisedMoves ==
  ASSUME KInv, NEW s \in Sems, sstate[s] = "SUSED", NEW n \in Nat, NEW k \in Nat,
         k = Awakened(s, n),
         semcnt' = [semcnt EXCEPT ![s] = semcnt[s] + n],
         semq' = [semq EXCEPT ![s] = SubSeq(semq[s], k + 1, Len(semq[s]))],
         UNCHANGED <<sstate, psem, pwaitret, lockq>>,
         (k = 0 /\ UNCHANGED schedVars) \/ Ready(SubSeq(semq[s], 1, k))
  PROVE  SemMoves
<1>1. k \in 0 .. Len(semq[s]) /\ k = IF n < Len(semq[s]) THEN n ELSE Len(semq[s])
  BY AwakenedIs
<1>2. PICK G : G = Members(SubSeq(semq[s], 1, k))
  OBVIOUS
<1>3. PICK Q : Q = SubSeq(semq[s], k + 1, Len(semq[s]))
  OBVIOUS
<1>4. /\ Q \in Seq(All) /\ Len(Q) = Len(semq[s]) - k /\ Distinct(Q)
      /\ Members(Q) = Members(semq[s]) \ G /\ G \in SUBSET Members(semq[s])
  <2>1. PICK L \in Seq(All) : L = semq[s]
    BY QueueOf
  <2>2. Distinct(L) /\ k \in 0 .. Len(L)
    BY <1>1, <2>1, QueueOf
  <2>3. /\ SubSeq(L, k + 1, Len(L)) \in Seq(All) /\ Len(SubSeq(L, k + 1, Len(L))) = Len(L) - k
        /\ Distinct(SubSeq(L, k + 1, Len(L)))
        /\ Members(SubSeq(L, k + 1, Len(L))) = Members(L) \ Members(SubSeq(L, 1, k))
        /\ Members(SubSeq(L, 1, k)) \subseteq Members(L)
    BY <2>2, FirstGone
  <2> QED
    BY <1>2, <1>3, <2>1, <2>3
<1>5. Sched' /\ (\A p \in All : IF p \in G THEN pstate'[p] \in Running ELSE Stays(p))
      /\ \A p \in All : Stays(p) \/ WaitMove(p)
  <2>1. CASE k = 0 /\ UNCHANGED schedVars
    <3>1. Len(SubSeq(semq[s], 1, k)) = 0
      BY <1>1, <2>1, QueueOf, SubSeqOf
    <3>2. G = {}
      BY <1>2, <3>1 DEF Members
    <3> QED
      BY <2>1, <3>2, NobodyMoves
  <2>2. CASE Ready(SubSeq(semq[s], 1, k))
    BY <1>2, <1>4, <2>2, GroupReady
  <2> QED
    BY <2>1, <2>2
<1>6. PICK m \in Int : m = semcnt[s] + n
  BY QueueOf
<1>7. Len(Q) = IF "SUSED" = "SUSED" /\ m < 0 THEN -m ELSE 0
  <2>1. /\ Len(semq[s]) \in Nat /\ semcnt[s] \in Int
        /\ Len(semq[s]) = IF semcnt[s] < 0 THEN -semcnt[s] ELSE 0
    BY QueueOf
  <2>2. Len(Q) = Len(semq[s]) - k
    BY <1>4
  <2>3. PICK x \in Nat, y \in Int : x = Len(semq[s]) /\ y = semcnt[s]
    BY <2>1
  <2>4. x = (IF y < 0 THEN -y ELSE 0) /\ m = y + n /\ Len(Q) = x - k
    BY <1>6, <2>1, <2>2, <2>3
  <2>5. n \in Nat /\ k = IF n < x THEN n ELSE x
    BY <1>1, <2>3
  <2> QED
    BY <2>4, <2>5
<1>8. /\ sstate' = [sstate EXCEPT ![s] = "SUSED"] /\ semcnt' = [semcnt EXCEPT ![s] = m]
      /\ semq' = [semq EXCEPT ![s] = Q] /\ pwaitret' \in [All -> {"OK", "DELETED"}]
      /\ UNCHANGED <<psem, lockq>>
  BY <1>3, <1>6 DEF KInv, Waits
<1>9. Waits'
  BY <1>4, <1>5, <1>7, <1>8, Released
<1> QED
  BY <1>5, <1>9 DEF SemMoves

LEMMA SignalMoves == ASSUME KInv, NEW s \in Sems, Signal(s), UNCHANGED lockq PROVE SemMoves
<1>1. PICK k : k = Awakened(s, 1)
  OBVIOUS
<1>2. /\ sstate[s] = "SUSED" /\ semcnt' = [semcnt EXCEPT ![s] = semcnt[s] + 1]
      /\ semq' = [semq EXCEPT ![s] = SubSeq(semq[s], k + 1, Len(semq[s]))]
      /\ UNCHANGED <<sstate, psem, pwaitret, lockq>>
      /\ (k = 0 /\ UNCHANGED schedVars) \/ Ready(SubSeq(semq[s], 1, k))
  BY <1>1 DEF Signal
<1>3. k \in Nat /\ 1 \in Nat
  BY <1>1, <1>2, AwakenedIs, QueueOf
<1> QED
  BY <1>1, <1>2, <1>3, RaisedMoves

LEMMA SignalnMoves == ASSUME KInv, NEW s \in Sems, NEW n \in Counts, Signaln(s, n), UNCHANGED lockq
                      PROVE  SemMoves
<1>1. PICK k : k = Awakened(s, n)
  OBVIOUS
<1>2. /\ sstate[s] = "SUSED" /\ n > 0 /\ semcnt' = [semcnt EXCEPT ![s] = semcnt[s] + n]
      /\ semq' = [semq EXCEPT ![s] = SubSeq(semq[s], k + 1, Len(semq[s]))]
      /\ UNCHANGED <<sstate, psem, pwaitret, lockq>>
      /\ Ready(SubSeq(semq[s], 1, k))
  BY <1>1 DEF Signaln
<1>3. n \in Nat
  BY <1>2, SemsAssumption
<1>4. k \in Nat
  BY <1>1, <1>2, <1>3, AwakenedIs, QueueOf
<1> QED
  BY <1>1, <1>2, <1>3, <1>4, RaisedMoves

LEMMA Caller ==
  ASSUME KInv, Calling
  PROVE  currpid \in Procs /\ currpid \in All /\ pstate[currpid] = "PRCURR" /\ cont[currpid].op = "none"
  BY Ids, NoCall DEF KInv, Sched, Calling, Interruptible

\* The current process joins the queue of s.
LEMMA BlockMoves == ASSUME KInv, Calling, NEW s \in Sems, WaitBlock(s), UNCHANGED lockq PROVE SemMoves
<1>1. Sched' /\ pstate'[currpid] = "PRWAIT" /\ \A p \in All \ {currpid} : Stays(p)
  BY BlockSched DEF KInv, Calling, WaitBlock, States, Running
<1>2. \A p \in All : Stays(p) \/ WaitMove(p)
  BY <1>1, Caller DEF WaitMove, SleepState
<1>3. /\ sstate[s] = "SUSED" /\ semcnt[s] <= 0 /\ semcnt' = [semcnt EXCEPT ![s] = semcnt[s] - 1]
      /\ psem' = [psem EXCEPT ![currpid] = s] /\ semq' = [semq EXCEPT ![s] = Append(semq[s], currpid)]
      /\ pwaitret' = [pwaitret EXCEPT ![currpid] = "OK"] /\ UNCHANGED <<sstate, lockq>>
  BY DEF WaitBlock, Enqueued
<1>4. \A t \in Sems : currpid \notin Members(semq[t])
  BY Caller, QueueOf
<1>5. PICK Q : Q = Append(semq[s], currpid)
  OBVIOUS
<1>6. /\ Q \in Seq(All) /\ Len(Q) = Len(semq[s]) + 1 /\ Distinct(Q)
      /\ Members(Q) = Members(semq[s]) \cup {currpid}
  BY <1>4, <1>5, Caller, QueueOf, OneJoins
<1>7. /\ semq' \in [Sems -> Seq(All)] /\ semcnt' \in [Sems -> Int] /\ psem' \in [All -> Sems]
      /\ pwaitret' \in [All -> {"OK", "DELETED"}]
  BY <1>3, <1>5, <1>6, QueueOf DEF KInv, Waits
<1>8. \A t \in Sems : /\ semq'[t] = IF t = s THEN Q ELSE semq[t]
                      /\ semcnt'[t] = IF t = s THEN semcnt[s] - 1 ELSE semcnt[t]
  BY <1>3, <1>5 DEF KInv, Waits
<1>9. ASSUME NEW t \in Sems
      PROVE  /\ Distinct(semq'[t])
             /\ Len(semq'[t]) = IF sstate'[t] = "SUSED" /\ semcnt'[t] < 0 THEN -semcnt'[t] ELSE 0
  <2>1. CASE t = s
    <3>1. Len(semq[s]) = -semcnt[s] /\ semcnt[s] \in Int
      BY <1>3, QueueOf
    <3> QED
      BY <1>3, <1>6, <1>8, <2>1, <3>1
  <2>2. CASE t # s
    BY <1>3, <1>8, <2>2, QueueOf
  <2> QED
    BY <2>1, <2>2
<1>10. \A p \in All : psem'[p] = IF p = currpid THEN s ELSE psem[p]
  BY <1>3 DEF KInv, Waits
<1>11. \A p \in All : pstate'[p] = "PRWAIT" <=> p = currpid \/ pstate[p] = "PRWAIT"
  BY <1>1 DEF Stays, Becomes, Running
<1>12. currpid \notin lockq
  BY Caller DEF KInv, Waits
<1>13. ASSUME NEW t \in Sems, NEW p \in Members(semq'[t])
       PROVE  pstate'[p] = "PRWAIT" /\ psem'[p] = t /\ p \notin lockq'
  <2>1. CASE p = currpid
    BY <1>1, <1>3, <1>4, <1>8, <1>10, <1>12, <2>1, Caller
  <2>2. CASE p # currpid
    <3>1. p \in Members(semq[t])
      BY <1>6, <1>8, <1>13, <2>2
    <3>2. p \in All /\ pstate[p] = "PRWAIT" /\ psem[p] = t /\ p \notin lockq
      BY <3>1, OnQueue DEF KInv, Waits
    <3> QED
      BY <1>3, <1>10, <1>11, <2>2, <3>2
  <2> QED
    BY <2>1, <2>2
<1>14. ASSUME NEW p \in All, pstate'[p] = "PRWAIT"
       PROVE  p \in lockq' \/ p \in Members(semq'[psem'[p]])
  <2>1. CASE p = currpid
    BY <1>6, <1>8, <1>10, <2>1
  <2>2. CASE p # currpid
    <3>1. psem[p] \in Sems /\ (p \in lockq \/ p \in Members(semq[psem[p]]))
      BY <1>11, <1>14, <2>2 DEF KInv, Waits
    <3> QED
      BY <1>3, <1>6, <1>8, <1>10, <2>2, <3>1
  <2> QED
    BY <2>1, <2>2
<1>15. \A p \in lockq' : pstate'[p] = "PRWAIT"
  BY <1>3, <1>11 DEF KInv, Waits
<1>16. Waits'
  BY <1>3, <1>7, <1>9, <1>13, <1>14, <1>15 DEF KInv, Waits
<1> QED
  BY <1>1, <1>2, <1>16 DEF SemMoves

LEMMA SemCallMoves == ASSUME KInv, Calling, SemCall, UNCHANGED lockq PROVE SemMoves
<1>1. PICK s \in Sems :
        \/ Sdelete(s) \/ WaitPass(s) \/ Signal(s)
        \/ \E n \in Counts : Screate(s, n) \/ Signaln(s, n) \/ Sreset(s, n)
  BY DEF SemCall
<1> QED
  BY <1>1, SdeleteMoves, PassMoves, SignalMoves, ScreateMoves, SignalnMoves, SresetMoves

LEMMA SemStep ==
  ASSUME KInv, Rule, Calling, SemCall \/ \E s \in Sems : Wait(s),
         UNCHANGED <<clockVars, phasmsg, cont, pnxtkin, lockq>>
  PROVE  KInv'
<1>1. Sched' /\ Waits' /\ \A p \in All : Stays(p) \/ WaitMove(p)
  BY SemCallMoves, BlockMoves DEF SemMoves, Wait
<1>2. Sleeps' /\ Msgs'
  BY <1>1, WaitRest
<1> QED
  BY <1>1, <1>2 DEF KInv

\* The processes that wait for a lock have changed, the queues have not.
LEMMA LockqStep ==
  ASSUME KInv, Sched', UNCHANGED <<sstate, semcnt, semq, psem>>,
         pwaitret' \in [All -> {"OK", "DELETED"}], NEW L, lockq' = L, L \subseteq All,
         \A p \in L : pstate'[p] = "PRWAIT",
         \A p \in All : pstate'[p] = "PRWAIT" => p \in L \/ (pstate[p] = "PRWAIT" /\ p \notin lockq),
         \A p \in All : pstate[p] = "PRWAIT" /\ p \notin lockq => pstate'[p] = "PRWAIT" /\ p \notin L
  PROVE  Waits'
<1>1. UNCHANGED <<sstate, semcnt, semq, psem>>
  OBVIOUS
<1>2. \A s \in Sems : \A p \in Members(semq[s]) :
        p \in All /\ pstate[p] = "PRWAIT" /\ psem[p] = s /\ p \notin lockq
  BY OnQueue DEF KInv, Waits
<1>3. \A s \in Sems : \A p \in Members(semq'[s]) : pstate'[p] = "PRWAIT" /\ psem'[p] = s /\ p \notin lockq'
  BY <1>1, <1>2
<1>4. \A p \in All : pstate'[p] = "PRWAIT" => p \in lockq' \/ p \in Members(semq'[psem'[p]])
  BY <1>1 DEF KInv, Waits
<1> QED
  BY <1>1, <1>3, <1>4 DEF KInv, Waits

LEMMA LockWaitStep == ASSUME KInv, Rule, Calling, NEW l \in Locks, LockWait(l) PROVE KInv'
<1>1. Sched' /\ pstate'[currpid] = "PRWAIT" /\ \A p \in All \ {currpid} : Stays(p)
  BY BlockSched DEF KInv, Calling, LockWait, States, Running
<1>2. \A p \in All : Stays(p) \/ WaitMove(p)
  BY <1>1, Caller DEF WaitMove, SleepState
<1>3. /\ lockq' = lockq \cup {currpid} /\ UNCHANGED <<sstate, semcnt, semq, psem>>
      /\ UNCHANGED clockVars /\ UNCHANGED <<phasmsg, cont, pnxtkin>>
      /\ pwaitret' = [pwaitret EXCEPT ![currpid] = "OK"]
  BY DEF LockWait
<1>4. Sleeps' /\ Msgs'
  BY <1>1, <1>2, <1>3, WaitRest
<1>5. \A p \in All : pstate'[p] = "PRWAIT" <=> p = currpid \/ pstate[p] = "PRWAIT"
  BY <1>1 DEF Stays, Becomes, Running
<1>6. lockq \subseteq All /\ \A p \in lockq : pstate[p] = "PRWAIT"
  BY DEF KInv, Waits
<1>7. pwaitret' \in [All -> {"OK", "DELETED"}]
  BY <1>3 DEF KInv, Waits
<1>8. Waits'
  BY <1>1, <1>3, <1>5, <1>6, <1>7, Caller, LockqStep
<1> QED
  BY <1>1, <1>4, <1>8 DEF KInv

LEMMA LockGrantedStep == ASSUME KInv, Rule, NEW p \in Procs, LockGranted(p) PROVE KInv'
<1>1. /\ p \in lockq /\ lockq' = lockq \ {p} /\ UNCHANGED semVars /\ UNCHANGED clockVars
      /\ UNCHANGED <<phasmsg, cont, pnxtkin>> /\ Ready(<<p>>)
  BY DEF LockGranted
<1>2. Sched' /\ pstate'[p] \in Running /\ \A q \in All \ {p} : Stays(q)
  BY <1>1, ReadyOne, Ids DEF KInv
<1>3. lockq \subseteq All /\ \A q \in lockq : pstate[q] = "PRWAIT"
  BY DEF KInv, Waits
<1>4. WaitMove(p)
  BY <1>1, <1>2, <1>3, WaiterIdle DEF WaitMove, SleepState
<1>5. Sleeps' /\ Msgs'
  BY <1>1, <1>2, <1>4, WaitRest
<1>6. \A q \in All : pstate'[q] = "PRWAIT" <=> q # p /\ pstate[q] = "PRWAIT"
  BY <1>2, Ids DEF Stays, Becomes, Running
<1>7. UNCHANGED <<sstate, semcnt, semq, psem, pwaitret>>
  BY <1>1 DEF semVars
<1>8. pwaitret' \in [All -> {"OK", "DELETED"}]
  BY <1>7 DEF KInv, Waits
<1>9. Waits'
  BY <1>1, <1>2, <1>3, <1>6, <1>7, <1>8, LockqStep
<1> QED
  BY <1>2, <1>5, <1>9 DEF KInv

\* create() of a process that is free.
LEMMA CreateStep == ASSUME KInv, Rule, NEW p \in Procs, Create(p) PROVE KInv'
<1>1. /\ pstate[p] = "PRFREE" /\ pstate' = [pstate EXCEPT ![p] = "PRSUSP"]
      /\ psem' = [psem EXCEPT ![p] = 0] /\ phasmsg' = [phasmsg EXCEPT ![p] = FALSE]
      /\ pnxtkin' = [pnxtkin EXCEPT ![p] = BADPID]
      /\ UNCHANGED <<rdy, currpid, sstate, semcnt, semq, pwaitret, clockVars, cont, lockq>>
  BY DEF Create, Alive
<1>2. p \in All /\ cont[p].op = "none"
  BY <1>1, WaiterIdle, Ids
<1>3. \A q \in All : /\ pstate'[q] = IF q = p THEN "PRSUSP" ELSE pstate[q]
                     /\ psem'[q] = IF q = p THEN 0 ELSE psem[q]
  BY <1>1 DEF KInv, Sched, Waits
<1>4. pstate[p] \notin Running /\ pstate[p] \notin SleepState /\ pstate[p] # "PRWAIT"
  BY <1>1 DEF Running, SleepState
<1>5. Sched'
  BY <1>1, <1>2, <1>3, <1>4, Ids DEF KInv, Sched, States, Running
<1>6. Waits'
  <2>1. psem' \in [All -> Sems]
    BY <1>1, Ids DEF KInv, Waits
  <2>2. \A s \in Sems : \A q \in Members(semq[s]) : q \in All /\ q # p
    BY <1>4, OnQueue
  <2>3. \A s \in Sems : \A q \in Members(semq'[s]) : pstate'[q] = "PRWAIT" /\ psem'[q] = s /\ q \notin lockq'
    BY <1>1, <1>3, <2>2 DEF KInv, Waits
  <2>4. \A q \in lockq' : pstate'[q] = "PRWAIT"
    BY <1>1, <1>3 DEF KInv, Waits
  <2>5. \A q \in All : pstate'[q] = "PRWAIT" => q \in lockq' \/ q \in Members(semq'[psem'[q]])
    BY <1>1, <1>3 DEF KInv, Waits
  <2> QED
    BY <1>1, <2>1, <2>3, <2>4, <2>5 DEF KInv, Waits
<1>7. Sleeps'
  BY <1>1, <1>3, <1>4, SleepsSame DEF KInv, SleepState
<1>8. Msgs'
  <2>1. phasmsg' \in [Procs -> BOOLEAN]
    BY <1>1 DEF KInv, Msgs
  <2>2. pnxtkin' \in [Procs -> Procs \cup {BADPID}]
    BY <1>1 DEF KInv, Msgs
  <2>3. \A q \in All : cont'[q].op = "kill" => cont'[q].arg \notin lockq'
    BY DEF Rule, Dying
  <2>4. ASSUME NEW q \in Procs  PROVE Agrees(pstate'[q], cont'[q].op, phasmsg'[q])
    <3>1. CASE q = p
      BY <1>1, <1>2, <1>3, <3>1, IdleAgrees DEF Awake
    <3>2. CASE q # p
      <4>1. phasmsg'[q] = phasmsg[q]
        BY <1>1, <3>2 DEF KInv, Msgs
      <4>2. pstate'[q] = pstate[q] /\ cont'[q] = cont[q]
        BY <1>1, <1>3, <3>2, Ids
      <4> QED
        BY <4>1, <4>2, Zenon DEF KInv, Msgs
    <3> QED
      BY <3>1, <3>2
  <2>5. UNCHANGED cont
    BY <1>1
  <2> QED
    BY <2>1, <2>2, <2>3, <2>4, <2>5, Zenon DEF KInv, Msgs
<1> QED
  BY <1>5, <1>6, <1>7, <1>8 DEF KInv
-----------------------------------------------------------------------------
(* The clock's list *)

LEMMA EntryOf ==
  ASSUME NEW Q, NEW d, Delta(Q, d)
  PROVE  /\ Len(Q) \in Nat
         /\ \A i \in 1 .. Len(Q) : /\ Q[i] \in Entries /\ Q[i].pid \in Procs /\ Q[i].key \in Nat
                                   /\ Q[i] = [pid |-> Q[i].pid, key |-> Q[i].key]
                                   /\ d[Q[i].pid] \in Nat /\ Before(Q, d, i) \in Nat
<1>1. Q \in Seq(Entries) /\ Len(Q) \in Nat
  BY LenProperties DEF Delta
<1>2. ASSUME NEW i \in 1 .. Len(Q)
      PROVE  /\ Q[i] \in Entries /\ Q[i].pid \in Procs /\ Q[i].key \in Nat
             /\ Q[i] = [pid |-> Q[i].pid, key |-> Q[i].key] /\ d[Q[i].pid] \in Nat
  <2>1. Q[i] \in Entries
    BY <1>1, ElementOfSeq
  <2>2. d \in [Procs -> Nat]
    BY DEF Delta
  <2> QED
    BY <2>1, <2>2 DEF Entries
<1>3. ASSUME NEW i \in 1 .. Len(Q)  PROVE Before(Q, d, i) \in Nat
  <2>1. CASE i = 1
    BY <2>1 DEF Before
  <2>2. CASE i # 1
    <3>1. i - 1 \in 1 .. Len(Q)
      BY <1>1, <2>2
    <3> QED
      BY <1>2, <2>2, <3>1 DEF Before
  <2> QED
    BY <2>1, <2>2
<1> QED
  BY <1>1, <1>2, <1>3

\* Every sleeper has ticks left.
LEMMA StillAsleep ==
  ASSUME NEW Q, NEW d, Delta(Q, d)
  PROVE  \A i \in 1 .. Len(Q) : d[Q[i].pid] > 0
<1> DEFINE S == {i \in 1 .. Len(Q) : ~(d[Q[i].pid] > 0)}
<1>1. SUFFICES ASSUME S # {} PROVE FALSE
  OBVIOUS
<1>2. S \in SUBSET (1 .. Len(Q)) /\ Len(Q) \in Nat
  BY EntryOf
<1>3. PICK i \in S : \A j \in 1 .. i - 1 : j \notin S
  BY <1>1, <1>2, FirstIndex
<1>4. i \in 1 .. Len(Q) /\ d[Q[i].pid] = Q[i].key + Before(Q, d, i) /\ Q[i].key \in Nat
  BY <1>3, EntryOf DEF Delta
<1>5. CASE i = 1
  BY <1>2, <1>3, <1>4, <1>5 DEF Delta, Before
<1>6. CASE i # 1
  <2>1. i - 1 \in 1 .. Len(Q) /\ i - 1 \in 1 .. i - 1
    BY <1>2, <1>4, <1>6
  <2>2. d[Q[i - 1].pid] > 0 /\ d[Q[i - 1].pid] \in Nat
    BY <1>3, <2>1, EntryOf
  <2> QED
    BY <1>3, <1>4, <1>6, <2>2 DEF Before
<1> QED
  BY <1>5, <1>6

LEMMA JoinIs ==
  ASSUME NEW S, NEW a \in Seq(S), NEW b \in Seq(S), NEW m, NEW n, m = Len(a), n = Len(b)
  PROVE  /\ a \o b \in Seq(S) /\ Len(a \o b) = m + n /\ m \in Nat /\ n \in Nat
         /\ \A j \in 1 .. m : (a \o b)[j] = a[j]
         /\ \A j \in m + 1 .. m + n : (a \o b)[j] = b[j - m]
<1>1. m \in Nat /\ n \in Nat
  BY LenProperties
<1>2. PICK c : c = a \o b
  OBVIOUS
<1>3. /\ c \in Seq(S) /\ Len(c) = m + n
      /\ \A j \in 1 .. m + n : c[j] = IF j <= m THEN a[j] ELSE b[j - m]
  <2>1. /\ a \o b \in Seq(S) /\ Len(a \o b) = Len(a) + Len(b)
        /\ \A j \in 1 .. Len(a) + Len(b) : (a \o b)[j] = IF j <= Len(a) THEN a[j] ELSE b[j - Len(a)]
    BY ConcatProperties
  <2> QED
    BY <1>2, <2>1, Zenon
<1>4. ASSUME NEW j \in 1 .. m  PROVE c[j] = a[j]
  <2>1. j \in 1 .. m + n /\ j <= m
    BY <1>1
  <2> QED
    BY <1>3, <2>1, Zenon
<1>5. ASSUME NEW j \in m + 1 .. m + n  PROVE c[j] = b[j - m]
  <2>1. j \in 1 .. m + n /\ ~(j <= m)
    BY <1>1
  <2> QED
    BY <1>3, <2>1, Zenon
<1> QED
  BY <1>1, <1>2, <1>3, <1>4, <1>5

RawEntries == [pid : Procs, key : Int]

\* The first key of the list R changes, by LowerNext or RaiseNext.
LEMMA NextKey ==
  ASSUME NEW R \in Seq(RawEntries), NEW k \in Int, NEW m \in Int, m = -k, NEW T,
         T = LowerNext(R, m) \/ T = RaiseNext(R, k)
  PROVE  /\ T \in Seq(RawEntries) /\ Len(T) = Len(R)
         /\ \A j \in 1 .. Len(R) :
              T[j] = IF j = 1 THEN [pid |-> R[1].pid, key |-> R[1].key + k] ELSE R[j]
<1>1. CASE R = <<>>
  <2>1. T = R /\ Len(R) = 0
    BY <1>1 DEF LowerNext, RaiseNext
  <2> QED
    BY <2>1
<1>2. CASE R # <<>>
  <2>1. /\ Head(R) \in RawEntries /\ Head(R) = R[1] /\ Tail(R) \in Seq(RawEntries)
        /\ Len(R) \in Nat /\ Len(R) > 0 /\ Len(Tail(R)) = Len(R) - 1
        /\ \A j \in 1 .. Len(Tail(R)) : Tail(R)[j] = R[j + 1]
    BY <1>2, HeadTailProperties, EmptySeq, LenProperties
  <2>2. PICK e : e = [pid |-> R[1].pid, key |-> R[1].key + k]
    OBVIOUS
  <2>3. /\ [Head(R) EXCEPT !.key = @ + k] = e
        /\ [Head(R) EXCEPT !.key = @ - m] = e /\ e \in RawEntries
    BY <2>1, <2>2 DEF RawEntries
  <2>4. T = <<e>> \o Tail(R)
    BY <1>2, <2>3 DEF LowerNext, RaiseNext
  <2>5. <<e>> \in Seq(RawEntries) /\ Len(<<e>>) = 1 /\ <<e>>[1] = e
    BY <2>3
  <2>6. /\ T \in Seq(RawEntries) /\ Len(T) = 1 + Len(Tail(R))
        /\ \A j \in 1 .. 1 : T[j] = <<e>>[j]
        /\ \A j \in 1 + 1 .. 1 + Len(Tail(R)) : T[j] = Tail(R)[j - 1]
    BY <2>1, <2>4, <2>5, JoinIs
  <2>7. ASSUME NEW j \in 1 .. Len(R)
        PROVE  T[j] = IF j = 1 THEN e ELSE R[j]
    <3>1. CASE j = 1
      BY <2>5, <2>6, <3>1
    <3>2. CASE j # 1
      <4>1. j \in 1 + 1 .. 1 + Len(Tail(R)) /\ j - 1 \in 1 .. Len(Tail(R)) /\ (j - 1) + 1 = j
        BY <2>1, <3>2
      <4> QED
        BY <2>1, <2>6, <3>2, <4>1
    <3> QED
      BY <3>1, <3>2
  <2> QED
    BY <2>1, <2>2, <2>6, <2>7
<1> QED
  BY <1>1, <1>2

\* An entry in front of the place i.
LEMMA SpliceIs ==
  ASSUME NEW S, NEW Q \in Seq(S), NEW i \in 1 .. Len(Q) + 1, NEW e \in S,
         NEW R \in Seq(S), Len(R) = Len(Q) - i + 1,
         NEW C, C = SubSeq(Q, 1, i - 1) \o <<e>> \o R
  PROVE  /\ C \in Seq(S) /\ Len(C) = Len(Q) + 1 /\ C[i] = e
         /\ \A j \in 1 .. i - 1 : C[j] = Q[j]
         /\ \A j \in i + 1 .. Len(Q) + 1 : C[j] = R[j - i]
<1>1. Len(Q) \in Nat
  BY LenProperties
<1>2. PICK a : a = SubSeq(Q, 1, i - 1)
  OBVIOUS
<1>3. a \in Seq(S) /\ Len(a) = i - 1 /\ \A j \in 1 .. i - 1 : a[j] = Q[j]
  BY <1>1, <1>2, SubSeqOf
<1>4. <<e>> \in Seq(S) /\ Len(<<e>>) = 1 /\ <<e>>[1] = e
  OBVIOUS
<1>5. PICK b : b = a \o <<e>>
  OBVIOUS
<1>6. /\ b \in Seq(S) /\ Len(b) = i - 1 + 1
      /\ \A j \in 1 .. i - 1 : b[j] = a[j]
      /\ \A j \in i - 1 + 1 .. i - 1 + 1 : b[j] = <<e>>[j - (i - 1)]
  BY <1>3, <1>4, <1>5, JoinIs
<1>7. b \in Seq(S) /\ i = Len(b) /\ b[i] = e
  <2>1. i \in i - 1 + 1 .. i - 1 + 1 /\ i - (i - 1) = 1 /\ i - 1 + 1 = i
    BY <1>1
  <2> QED
    BY <1>4, <1>6, <2>1
<1>8. /\ b \o R \in Seq(S) /\ Len(b \o R) = i + Len(R)
      /\ \A j \in 1 .. i : (b \o R)[j] = b[j]
      /\ \A j \in i + 1 .. i + Len(R) : (b \o R)[j] = R[j - i]
  BY <1>7, JoinIs
<1>9. C = b \o R
  BY <1>2, <1>5
<1>10. \A j \in 1 .. i - 1 : C[j] = Q[j]
  <2>1. ASSUME NEW j \in 1 .. i - 1  PROVE (b \o R)[j] = Q[j]
    <3>1. j \in 1 .. i
      BY <1>1
    <3> QED
      BY <1>3, <1>6, <1>8, <3>1
  <2> QED
    BY <1>9, <2>1
<1>11. i \in 1 .. i /\ i + Len(R) = Len(Q) + 1
  BY <1>1
<1> QED
  BY <1>7, <1>8, <1>9, <1>10, <1>11

\* What insertd() has left of the delay at a place of the list.
LEMMA LeftIs ==
  ASSUME Delta(clockq, due), NEW delay \in Nat
  PROVE  \A i \in 1 .. Len(clockq) + 1 : Left(delay)[i] = delay - Before(clockq, due, i)
<1> DEFINE n == Len(clockq) + 1
           Is(f) == f = [i \in 1 .. n |-> IF i = 1 THEN delay ELSE f[i - 1] - clockq[i - 1].key]
           g == [i \in 1 .. n |-> delay - Before(clockq, due, i)]
<1>1. n \in Nat \ {0}
  BY EntryOf
<1>2. ASSUME NEW i \in 1 .. n, i # 1
      PROVE  /\ i - 1 \in 1 .. n /\ i - 1 \in 1 .. Len(clockq) /\ clockq[i - 1].key \in Nat
             /\ Before(clockq, due, i - 1) \in Nat
             /\ Before(clockq, due, i) = clockq[i - 1].key + Before(clockq, due, i - 1)
  <2>1. i - 1 \in 1 .. Len(clockq) /\ i - 1 \in 1 .. n
    BY <1>1, <1>2
  <2>2. clockq[i - 1].key \in Nat /\ Before(clockq, due, i - 1) \in Nat
    BY <2>1, EntryOf
  <2>3. due[clockq[i - 1].pid] = clockq[i - 1].key + Before(clockq, due, i - 1)
    BY <2>1 DEF Delta
  <2>4. Before(clockq, due, i) = due[clockq[i - 1].pid]
    BY <1>2 DEF Before
  <2> QED
    BY <2>1, <2>2, <2>3, <2>4
<1>3. Is(g)
  <2>1. ASSUME NEW i \in 1 .. n
        PROVE  delay - Before(clockq, due, i) = IF i = 1 THEN delay ELSE g[i - 1] - clockq[i - 1].key
    <3>1. CASE i = 1
      BY <3>1 DEF Before
    <3>2. CASE i # 1
      <4>1. g[i - 1] = delay - Before(clockq, due, i - 1)
        BY <1>2, <3>2
      <4>2. i # 1 /\ clockq[i - 1].key \in Nat /\ Before(clockq, due, i - 1) \in Nat
            /\ Before(clockq, due, i) = clockq[i - 1].key + Before(clockq, due, i - 1)
        BY <1>2, <3>2
      <4> HIDE DEF g, n
      <4> QED
        BY <4>1, <4>2
    <3> QED
      BY <3>1, <3>2
  <2> QED
    BY <2>1
<1>4. PICK f : f = Left(delay) /\ Is(f)
  <2>1. Left(delay) = CHOOSE f : Is(f)
    BY DEF Left
  <2> HIDE DEF Is
  <2> QED
    BY <1>3, <2>1
<1>5. \A i \in 1 .. n : f[i] = IF i = 1 THEN delay ELSE f[i - 1] - clockq[i - 1].key
  BY <1>4
<1> DEFINE S == {i \in 1 .. n : f[i] # delay - Before(clockq, due, i)}
<1>6. ASSUME S # {}  PROVE FALSE
  <2>1. S \in SUBSET (1 .. n) /\ n \in Nat
    BY <1>1
  <2>2. PICK i \in S : \A j \in 1 .. i - 1 : j \notin S
    BY <1>6, <2>1, FirstIndex
  <2>3. CASE i = 1
    BY <1>5, <2>2, <2>3 DEF Before
  <2>4. CASE i # 1
    <3>1. i \in 1 .. n /\ i - 1 \in 1 .. n /\ i - 1 \in 1 .. i - 1
      BY <1>2, <2>2, <2>4
    <3>2. f[i - 1] = delay - Before(clockq, due, i - 1)
      BY <2>2, <3>1
    <3>3. f[i] = f[i - 1] - clockq[i - 1].key
      BY <1>5, <2>4, <3>1
    <3>4. /\ clockq[i - 1].key \in Nat /\ Before(clockq, due, i - 1) \in Nat
          /\ Before(clockq, due, i) = clockq[i - 1].key + Before(clockq, due, i - 1)
      BY <1>2, <2>4, <3>1
    <3>5. f[i] = delay - Before(clockq, due, i)
      BY <3>2, <3>3, <3>4
    <3> QED
      BY <2>2, <3>5
  <2> QED
    BY <2>3, <2>4
<1> QED
  BY <1>4, <1>6

\* insertd() puts the process where its delay ends, not before the entry in front
\* and not after the one behind.
LEMMA InsertdIs ==
  ASSUME Delta(clockq, due), NEW p \in Procs, NEW delay \in Nat \ {0}
  PROVE  \E i \in 1 .. Len(clockq) + 1, k \in Nat \ {0} :
           /\ k = delay - Before(clockq, due, i)
           /\ i <= Len(clockq) => clockq[i].key >= k
           /\ Insertd(p, delay) = SubSeq(clockq, 1, i - 1) \o <<[pid |-> p, key |-> k]>>
                                    \o LowerNext(SubSeq(clockq, i, Len(clockq)), k)
<1> DEFINE n == Len(clockq) + 1
           left == Left(delay)
           Place(i) == /\ i <= Len(clockq) => clockq[i].key >= left[i]
                       /\ \A j \in 1 .. i - 1 : clockq[j].key < left[j]
           S == {i \in 1 .. n : i <= Len(clockq) => clockq[i].key >= left[i]}
<1>1. n \in Nat \ {0}
  BY EntryOf
<1>2. \A i \in 1 .. n : left[i] = delay - Before(clockq, due, i)
  BY LeftIs
<1>3. \A i \in 1 .. Len(clockq) : clockq[i].key \in Nat /\ Before(clockq, due, i) \in Nat
  BY EntryOf
<1> HIDE DEF left
<1>4. \A i \in 1 .. Len(clockq) : i \in 1 .. n /\ left[i] \in Int
  BY <1>1, <1>2, <1>3
<1>5. \E i \in 1 .. n : Place(i)
  <2>1. n \in S /\ S \in SUBSET (1 .. n) /\ S # {} /\ n \in Nat
    BY <1>1
  <2>2. PICK i \in S : \A j \in 1 .. i - 1 : j \notin S
    <3> HIDE DEF S, n
    <3> QED
      BY <2>1, FirstIndex
  <2>3. ASSUME NEW j \in 1 .. i - 1  PROVE clockq[j].key < left[j]
    <3>1. j \in 1 .. Len(clockq) /\ j \in 1 .. n /\ j \notin S
      BY <1>1, <2>2
    <3> QED
      BY <1>3, <1>4, <3>1
  <2> QED
    BY <2>2, <2>3
<1>6. PICK i \in 1 .. n : Place(i) /\ i = CHOOSE j \in 1 .. n : Place(j)
  BY <1>5
<1>7. Insertd(p, delay) = SubSeq(clockq, 1, i - 1) \o <<[pid |-> p, key |-> left[i]]>>
                            \o LowerNext(SubSeq(clockq, i, Len(clockq)), left[i])
  BY <1>6 DEF Insertd, left
<1>8. left[i] \in Nat \ {0}
  <2>1. CASE i = 1
    BY <1>2, <2>1 DEF Before
  <2>2. CASE i # 1
    <3>1. i - 1 \in 1 .. Len(clockq) /\ i - 1 \in 1 .. i - 1
      BY <1>1, <2>2
    <3>2. clockq[i - 1].key < left[i - 1] /\ clockq[i - 1].key \in Nat
      BY <1>3, <1>6, <3>1
    <3>3. left[i - 1] = delay - Before(clockq, due, i - 1) /\ Before(clockq, due, i - 1) \in Nat
      BY <1>2, <1>3, <1>4, <3>1
    <3>4. due[clockq[i - 1].pid] = clockq[i - 1].key + Before(clockq, due, i - 1)
      BY <3>1 DEF Delta
    <3>5. Before(clockq, due, i) = due[clockq[i - 1].pid]
      BY <2>2 DEF Before
    <3>6. left[i] = delay - Before(clockq, due, i)
      BY <1>2
    <3> QED
      BY <3>2, <3>3, <3>4, <3>5, <3>6
  <2> QED
    BY <2>1, <2>2
<1> QED
  BY <1>2, <1>6, <1>7, <1>8

\* C is the list Q to which p has come at the place i.
Joined(Q, C, p, i, k) ==
  /\ C \in Seq(RawEntries) /\ Len(C) = Len(Q) + 1 /\ C[i] = [pid |-> p, key |-> k]
  /\ \A j \in 1 .. i - 1 : C[j] = Q[j]
  /\ i <= Len(Q) => C[i + 1] = [pid |-> Q[i].pid, key |-> Q[i].key - k]
  /\ \A j \in i + 2 .. Len(Q) + 1 : C[j] = Q[j - 1]

\* e is d but for p.
Differs(e, d, p, delay) ==
  e \in [Procs -> Nat] /\ \A q \in Procs : e[q] = IF q = p THEN delay ELSE d[q]

LEMMA DeltaInsert ==
  ASSUME NEW Q, NEW d, Delta(Q, d), NEW p \in Procs, p \notin Sleepers(Q), NEW delay \in Nat,
         NEW i \in 1 .. Len(Q) + 1, NEW k \in Nat \ {0}, k = delay - Before(Q, d, i),
         i <= Len(Q) => Q[i].key >= k, NEW C, Joined(Q, C, p, i, k),
         NEW e, Differs(e, d, p, delay)
  PROVE  Delta(C, e) /\ Sleepers(C) = Sleepers(Q) \cup {p}
<1>j. /\ C \in Seq(RawEntries) /\ Len(C) = Len(Q) + 1 /\ C[i] = [pid |-> p, key |-> k]
      /\ \A j \in 1 .. i - 1 : C[j] = Q[j]
      /\ i <= Len(Q) => C[i + 1] = [pid |-> Q[i].pid, key |-> Q[i].key - k]
      /\ \A j \in i + 2 .. Len(Q) + 1 : C[j] = Q[j - 1]
  BY DEF Joined
<1>0. Before(Q, d, i) \in Int /\ Before(Q, d, i) + k = delay
  <2>1. CASE i = 1
    BY <2>1 DEF Before
  <2>2. CASE i # 1
    <3>1. i - 1 \in 1 .. Len(Q)
      BY <2>2, EntryOf
    <3>2. d[Q[i - 1].pid] \in Nat
      BY <3>1, EntryOf
    <3>3. Before(Q, d, i) \in Nat
      BY <2>2, <3>2 DEF Before
    <3> QED
      BY <3>3
  <2> QED
    BY <2>1, <2>2
<1>1. /\ Len(Q) \in Nat /\ Len(C) = Len(Q) + 1
      /\ \A j \in 1 .. Len(Q) : /\ Q[j].pid \in Procs /\ Q[j].key \in Nat /\ d[Q[j].pid] \in Nat
                                /\ Before(Q, d, j) \in Nat /\ Q[j].pid # p
  BY <1>j, EntryOf DEF Sleepers
<1>2. d \in [Procs -> Nat] /\ e \in [Procs -> Nat]
      /\ \A q \in Procs : e[q] = IF q = p THEN delay ELSE d[q]
  BY DEF Delta, Differs
<1>3. ASSUME NEW j \in 1 .. Len(C)
      PROVE  \/ j < i /\ j \in 1 .. Len(Q) /\ C[j] = Q[j]
             \/ j = i /\ C[j] = [pid |-> p, key |-> k]
             \/ j = i + 1 /\ i \in 1 .. Len(Q) /\ C[j] = [pid |-> Q[i].pid, key |-> Q[i].key - k]
             \/ j > i + 1 /\ j - 1 \in 1 .. Len(Q) /\ C[j] = Q[j - 1]
  <2>1. CASE j < i
    BY <1>j, <1>1, <2>1
  <2>2. CASE j = i
    BY <1>j, <2>2
  <2>3. CASE j = i + 1
    BY <1>j, <1>1, <2>3
  <2>4. CASE j > i + 1
    <3>1. j \in i + 2 .. Len(Q) + 1 /\ j - 1 \in 1 .. Len(Q)
      BY <1>1, <2>4
    <3> QED
      BY <1>j, <2>4, <3>1
  <2> QED
    BY <1>1, <2>1, <2>2, <2>3, <2>4
<1>4. ASSUME NEW j \in 1 .. Len(C)
      PROVE  C[j].pid = IF j < i THEN Q[j].pid ELSE IF j = i THEN p ELSE Q[j - 1].pid
  <2>1. CASE j = i + 1
    <3>1. j - 1 = i /\ C[j].pid = Q[i].pid
      BY <1>1, <1>3, <2>1
    <3> QED
      BY <1>1, <2>1, <3>1
  <2>2. CASE j # i + 1
    BY <1>1, <1>3, <2>2
  <2> QED
    BY <2>1, <2>2
<1>5. ASSUME NEW j \in 1 .. Len(C)
      PROVE  C[j] \in Entries /\ C[j].pid \in Procs
  <2>1. CASE j = i + 1 /\ i \in 1 .. Len(Q) /\ C[j] = [pid |-> Q[i].pid, key |-> Q[i].key - k]
    <3>1. Q[i].pid \in Procs /\ Q[i].key \in Nat /\ Q[i].key >= k
      BY <1>1, <2>1
    <3>2. Q[i].key - k \in Nat
      BY <3>1
    <3> QED
      BY <2>1, <3>1, <3>2 DEF Entries
  <2>2. CASE j < i /\ j \in 1 .. Len(Q) /\ C[j] = Q[j]
    BY <2>2, EntryOf
  <2>3. CASE j = i /\ C[j] = [pid |-> p, key |-> k]
    BY <2>3 DEF Entries
  <2>4. CASE j > i + 1 /\ j - 1 \in 1 .. Len(Q) /\ C[j] = Q[j - 1]
    <3>1. PICK x \in 1 .. Len(Q) : C[j] = Q[x]
      BY <2>4
    <3> QED
      BY <3>1, EntryOf
  <2> QED
    BY <1>3, <2>1, <2>2, <2>3, <2>4
<1>6. C \in Seq(Entries)
  <2>1. \A j \in 1 .. Len(C) : C[j] \in Entries
    BY <1>5
  <2>2. \A S : C \in Seq(RawEntries) /\ (\A j \in 1 .. Len(C) : C[j] \in S) => C \in Seq(S)
    BY SeqDef, LenProperties
  <2> QED
    BY <1>j, <2>1, <2>2
<1>7. \A j, m \in 1 .. Len(Q) : Q[j].pid = Q[m].pid => j = m
  BY DEF Delta
<1>8. ASSUME NEW j \in 1 .. Len(C), NEW m \in 1 .. Len(C), C[j].pid = C[m].pid  PROVE j = m
  <2>1. C[j].pid = IF j < i THEN Q[j].pid ELSE IF j = i THEN p ELSE Q[j - 1].pid
    BY <1>4
  <2>2. C[m].pid = IF m < i THEN Q[m].pid ELSE IF m = i THEN p ELSE Q[m - 1].pid
    BY <1>4
  <2>3. \A x \in 1 .. Len(C) : (x < i => x \in 1 .. Len(Q)) /\ (x > i => x - 1 \in 1 .. Len(Q))
    BY <1>1
  <2>4. ASSUME NEW x \in 1 .. Len(C), C[x].pid = p  PROVE x = i
    <3>1. CASE x < i
      <4>1. x \in 1 .. Len(Q) /\ C[x].pid = Q[x].pid
        BY <1>4, <2>3, <3>1
      <4> QED
        BY <1>1, <2>4, <4>1
    <3>2. CASE x > i
      <4>1. x - 1 \in 1 .. Len(Q) /\ ~(x < i) /\ x # i
        BY <1>1, <2>3, <3>2
      <4>2. C[x].pid = Q[x - 1].pid
        BY <1>4, <4>1
      <4> QED
        BY <1>1, <2>4, <4>1, <4>2
    <3> QED
      BY <1>1, <3>1, <3>2
  <2>5. CASE j = i \/ m = i
    BY <1>j, <1>8, <2>4, <2>5
  <2>6. CASE j # i /\ m # i
    <3>0. j \in Int /\ m \in Int /\ i \in Int
      BY <1>1
    <3>1. PICK x \in 1 .. Len(Q) : C[j].pid = Q[x].pid /\ x = IF j < i THEN j ELSE j - 1
      BY <1>1, <2>1, <2>3, <2>6
    <3>2. PICK y \in 1 .. Len(Q) : C[m].pid = Q[y].pid /\ y = IF m < i THEN m ELSE m - 1
      BY <1>1, <2>2, <2>3, <2>6
    <3>3. x = y
      BY <1>7, <1>8, <3>1, <3>2
    <3> QED
      BY <2>6, <3>0, <3>1, <3>2, <3>3
  <2> QED
    BY <2>5, <2>6
<1>9. ASSUME NEW j \in 1 .. Len(C)  PROVE e[C[j].pid] = C[j].key + Before(C, e, j)
  <2>1. CASE j < i /\ j \in 1 .. Len(Q) /\ C[j] = Q[j]
    <3>1. e[C[j].pid] = d[Q[j].pid]
      BY <1>1, <1>2, <2>1
    <3>2. Before(C, e, j) = Before(Q, d, j)
      <4>1. CASE j = 1
        BY <4>1 DEF Before
      <4>2. CASE j # 1
        <5>1. j - 1 \in 1 .. i - 1 /\ j - 1 \in 1 .. Len(Q)
          BY <1>1, <2>1, <4>2
        <5>2. C[j - 1] = Q[j - 1] /\ e[Q[j - 1].pid] = d[Q[j - 1].pid]
          BY <1>j, <1>1, <1>2, <5>1
        <5> QED
          BY <4>2, <5>2 DEF Before
      <4> QED
        BY <4>1, <4>2
    <3> QED
      BY <2>1, <3>1, <3>2 DEF Delta
  <2>2. CASE j = i /\ C[j] = [pid |-> p, key |-> k]
    <3>1. Before(C, e, i) = Before(Q, d, i)
      <4>1. CASE i = 1
        BY <4>1 DEF Before
      <4>2. CASE i # 1
        <5>1. i - 1 \in 1 .. i - 1 /\ i - 1 \in 1 .. Len(Q)
          BY <1>1, <4>2
        <5>2. C[i - 1] = Q[i - 1] /\ e[Q[i - 1].pid] = d[Q[i - 1].pid]
          BY <1>j, <1>1, <1>2, <5>1
        <5> QED
          BY <4>2, <5>2 DEF Before
      <4> QED
        BY <4>1, <4>2
    <3> QED
      BY <1>0, <1>2, <2>2, <3>1
  <2>3. CASE j = i + 1 /\ i \in 1 .. Len(Q) /\ C[j] = [pid |-> Q[i].pid, key |-> Q[i].key - k]
    <3>0. Q[i].pid \in Procs /\ Q[i].pid # p /\ Q[i].key \in Nat
      BY <1>1, <2>3
    <3>1. e[C[j].pid] = d[Q[i].pid] /\ d[Q[i].pid] = Q[i].key + Before(Q, d, i)
      <4>1. d[Q[i].pid] = Q[i].key + Before(Q, d, i)
        BY <2>3 DEF Delta
      <4> QED
        BY <1>2, <2>3, <3>0, <4>1
    <3>2. Before(C, e, j) = delay
      <4>1. j # 1 /\ j - 1 = i /\ C[i].pid = p
        BY <1>j, <1>1, <2>3
      <4> QED
        BY <1>2, <4>1 DEF Before
    <3>3. C[j].key = Q[i].key - k
      BY <2>3
    <3> QED
      BY <1>0, <3>0, <3>1, <3>2, <3>3
  <2>4. CASE j > i + 1 /\ j - 1 \in 1 .. Len(Q) /\ C[j] = Q[j - 1]
    <3>1. e[C[j].pid] = d[Q[j - 1].pid] /\ d[Q[j - 1].pid] = Q[j - 1].key + Before(Q, d, j - 1)
      BY <1>1, <1>2, <2>4 DEF Delta
    <3>2. j - 1 \in 1 .. Len(C) /\ ~(j - 1 < i) /\ j - 1 # i /\ j # 1 /\ j - 1 # 1 /\ (j - 1) - 1 \in 1 .. Len(Q)
      <4>1. i \in Nat \ {0} /\ j \in Nat /\ j > i + 1 /\ j - 1 <= Len(Q) /\ Len(C) = Len(Q) + 1 /\ Len(Q) \in Nat
        BY <1>1, <2>4
      <4> QED
        BY <4>1
    <3>3. C[j - 1].pid = Q[(j - 1) - 1].pid
      BY <1>4, <3>2
    <3>4. Before(C, e, j) = Before(Q, d, j - 1)
      <4>1. PICK q \in Procs : q = Q[(j - 1) - 1].pid /\ q # p
        BY <1>1, <3>2
      <4>2. Before(C, e, j) = e[q] /\ Before(Q, d, j - 1) = d[q]
        BY <3>2, <3>3, <4>1 DEF Before
      <4> QED
        BY <1>2, <4>1, <4>2
    <3> QED
      BY <2>4, <3>1, <3>4
  <2> QED
    BY <1>3, <2>1, <2>2, <2>3, <2>4
<1>10. C[1].key > 0
  <2>1. CASE i = 1
    BY <1>j, <2>1
  <2>2. CASE i # 1
    <3>1. 1 \in 1 .. i - 1 /\ Len(Q) > 0
      BY <1>1, <2>2
    <3> QED
      BY <1>j, <3>1 DEF Delta
  <2> QED
    BY <2>1, <2>2
<1>11. Sleepers(C) = Sleepers(Q) \cup {p}
  <2>1. ASSUME NEW j \in 1 .. Len(C)  PROVE C[j].pid \in Sleepers(Q) \cup {p}
    <3>1. CASE j < i
      <4>1. j \in 1 .. Len(Q) /\ C[j].pid = Q[j].pid
        BY <1>1, <1>4, <3>1
      <4> QED
        BY <4>1 DEF Sleepers
    <3>2. CASE j = i
      BY <1>j, <3>2
    <3>3. CASE j > i
      <4>1. j - 1 \in 1 .. Len(Q) /\ ~(j < i) /\ j # i
        BY <1>1, <3>3
      <4>2. C[j].pid = Q[j - 1].pid
        BY <1>4, <4>1
      <4> QED
        BY <4>1, <4>2 DEF Sleepers
    <3>4. j < i \/ j = i \/ j > i
      BY <1>1
    <3> QED
      BY <3>1, <3>2, <3>3, <3>4
  <2>2. i \in 1 .. Len(C) /\ C[i].pid = p
    BY <1>j, <1>1
  <2>3. ASSUME NEW j \in 1 .. Len(Q)  PROVE Q[j].pid \in Sleepers(C)
    <3>1. CASE j < i
      <4>1. j \in 1 .. Len(C) /\ j \in 1 .. i - 1
        BY <1>1, <3>1
      <4>2. C[j].pid = Q[j].pid
        BY <1>j, <4>1
      <4> QED
        BY <4>1, <4>2 DEF Sleepers
    <3>2. CASE ~(j < i)
      <4>1. j + 1 \in 1 .. Len(C) /\ ~(j + 1 < i) /\ j + 1 # i /\ (j + 1) - 1 = j
        BY <1>1, <3>2
      <4>2. C[j + 1].pid = Q[j].pid
        BY <1>4, <4>1
      <4> QED
        BY <4>1, <4>2 DEF Sleepers
    <3> QED
      BY <3>1, <3>2
  <2>4. Sleepers(C) \subseteq Sleepers(Q) \cup {p} /\ p \in Sleepers(C)
    <3>1. \A x \in Sleepers(C) : \E j \in 1 .. Len(C) : x = C[j].pid
      BY DEF Sleepers
    <3>2. p \in Sleepers(C)
      BY <2>2 DEF Sleepers
    <3> QED
      BY <2>1, <3>1, <3>2
  <2>5. Sleepers(Q) \subseteq Sleepers(C)
    <3>1. \A x \in Sleepers(Q) : \E j \in 1 .. Len(Q) : x = Q[j].pid
      BY DEF Sleepers
    <3> QED
      BY <2>3, <3>1
  <2> QED
    BY <2>4, <2>5
<1>12. \A q \in Procs : q \notin Sleepers(C) => e[q] = 0
  BY <1>2, <1>11 DEF Delta
<1> QED
  BY <1>2, <1>6, <1>8, <1>9, <1>10, <1>11, <1>12 DEF Delta

LEMMA RawList ==
  ASSUME NEW Q \in Seq(Entries)
  PROVE  Q \in Seq(RawEntries) /\ Len(Q) \in Nat
<1>1. Len(Q) \in Nat
  BY LenProperties
<1>2. Entries \subseteq RawEntries
  BY DEF Entries, RawEntries
<1> QED
  BY <1>1, <1>2, SeqMonotonic

\* insertd() keeps the list in order.
LEMMA InsertdDelta ==
  ASSUME Delta(clockq, due), NEW p \in Procs, p \notin Sleepers(clockq), NEW delay \in Nat \ {0},
         NEW C, C = Insertd(p, delay), NEW e, e = [due EXCEPT ![p] = delay]
  PROVE  Delta(C, e) /\ Sleepers(C) = Sleepers(clockq) \cup {p} /\ C # <<>>
<1>1. PICK Q : Q = clockq
  OBVIOUS
<1>2. Q \in Seq(RawEntries) /\ Len(Q) \in Nat /\ Delta(Q, due)
  BY <1>1, RawList DEF Delta
<1>3. PICK i \in 1 .. Len(Q) + 1, k \in Nat \ {0} :
           /\ k = delay - Before(Q, due, i)
           /\ i <= Len(Q) => Q[i].key >= k
           /\ C = SubSeq(Q, 1, i - 1) \o <<[pid |-> p, key |-> k]>>
                    \o LowerNext(SubSeq(Q, i, Len(Q)), k)
  BY <1>1, InsertdIs
<1>4. PICK R : R = SubSeq(Q, i, Len(Q))
  OBVIOUS
<1>5. /\ R \in Seq(RawEntries) /\ Len(R) = Len(Q) - i + 1
      /\ \A j \in 1 .. Len(R) : R[j] = Q[i + j - 1]
  <2>1. i \in Nat \ {0} /\ Len(Q) <= Len(Q)
    BY <1>2
  <2>2. /\ R \in Seq(RawEntries) /\ Len(R) = IF i <= Len(Q) THEN Len(Q) - i + 1 ELSE 0
        /\ \A j \in 1 .. Len(R) : R[j] = Q[i + j - 1]
    BY <1>2, <1>4, <2>1, SubSeqOf
  <2> QED
    BY <1>2, <2>2
<1>6. PICK T : T = LowerNext(R, k)
  OBVIOUS
<1>7. PICK m \in Int : m = -k /\ k = -m /\ k \in Int
  OBVIOUS
<1>8. /\ T \in Seq(RawEntries) /\ Len(T) = Len(R)
      /\ \A j \in 1 .. Len(R) :
           T[j] = IF j = 1 THEN [pid |-> R[1].pid, key |-> R[1].key + m] ELSE R[j]
  <2>1. R \in Seq(RawEntries)
    BY <1>5
  <2> QED
    BY <1>6, <1>7, <2>1, NextKey
<1>9. PICK x \in RawEntries : x = [pid |-> p, key |-> k]
  <2>1. [pid |-> p, key |-> k] \in RawEntries
    BY DEF RawEntries
  <2> QED
    BY <2>1
<1>10. /\ C \in Seq(RawEntries) /\ Len(C) = Len(Q) + 1 /\ C[i] = x
       /\ \A j \in 1 .. i - 1 : C[j] = Q[j]
       /\ \A j \in i + 1 .. Len(Q) + 1 : C[j] = T[j - i]
  <2>1. C = SubSeq(Q, 1, i - 1) \o <<x>> \o T /\ Len(T) = Len(Q) - i + 1
    BY <1>3, <1>4, <1>5, <1>6, <1>8, <1>9
  <2> QED
    BY <1>2, <1>8, <2>1, SpliceIs
<1>11. i <= Len(Q) => C[i + 1] = [pid |-> Q[i].pid, key |-> Q[i].key - k]
  <2>1. SUFFICES ASSUME i <= Len(Q)  PROVE C[i + 1] = [pid |-> Q[i].pid, key |-> Q[i].key - k]
    OBVIOUS
  <2>2. i + 1 \in i + 1 .. Len(Q) + 1 /\ (i + 1) - i = 1 /\ 1 \in 1 .. Len(R) /\ i + 1 - 1 = i
    BY <1>2, <1>5, <2>1
  <2>3. C[i + 1] = T[1] /\ R[1] = Q[i]
    BY <1>5, <1>10, <2>2
  <2>4. T[1] = [pid |-> Q[i].pid, key |-> Q[i].key + m]
    BY <1>8, <2>2, <2>3
  <2>5. Q[i].key \in Nat
    <3>1. i \in 1 .. Len(Q)
      BY <1>2, <2>1
    <3> QED
      BY <1>2, <3>1, EntryOf
  <2>6. Q[i].key + m = Q[i].key - k
    BY <1>7, <2>5
  <2> QED
    BY <2>3, <2>4, <2>6
<1>12. ASSUME NEW j \in i + 2 .. Len(Q) + 1  PROVE C[j] = Q[j - 1]
  <2>1. j \in i + 1 .. Len(Q) + 1 /\ j - i \in 1 .. Len(R) /\ j - i # 1 /\ i + (j - i) - 1 = j - 1
    BY <1>2, <1>5
  <2>2. C[j] = T[j - i] /\ T[j - i] = R[j - i] /\ R[j - i] = Q[i + (j - i) - 1]
    BY <1>5, <1>8, <1>10, <2>1
  <2> QED
    BY <2>1, <2>2
<1>13. p \notin Sleepers(Q) /\ delay \in Nat /\ C[i] = [pid |-> p, key |-> k]
  BY <1>1, <1>9, <1>10
<1>14. Delta(C, e) /\ Sleepers(C) = Sleepers(Q) \cup {p}
  <2>1. Joined(Q, C, p, i, k)
    BY <1>10, <1>11, <1>12, <1>13 DEF Joined
  <2>2. i <= Len(Q) => Q[i].key >= k
    BY <1>3
  <2>3. k = delay - Before(Q, due, i)
    BY <1>3
  <2>4. Differs(e, due, p, delay)
    BY DEF Delta, Differs
  <2>5. Delta(Q, due) /\ p \notin Sleepers(Q) /\ delay \in Nat
    BY <1>2, <1>13
  <2> QED
    BY <2>1, <2>2, <2>3, <2>4, <2>5, DeltaInsert
<1>15. Len(C) # 0
  BY <1>2, <1>10
<1> QED
  BY <1>1, <1>10, <1>14, <1>15, Somebody

\* C is the list Q that the entry at the place i has left.
Departed(Q, C, i) ==
  /\ C \in Seq(RawEntries) /\ Len(C) = Len(Q) - 1
  /\ \A j \in 1 .. i - 1 : C[j] = Q[j]
  /\ i < Len(Q) => C[i] = [pid |-> Q[i + 1].pid, key |-> Q[i + 1].key + Q[i].key]
  /\ \A j \in i + 1 .. Len(Q) - 1 : C[j] = Q[j + 1]

LEMMA DeltaRemove ==
  ASSUME NEW Q, NEW d, Delta(Q, d), NEW i \in 1 .. Len(Q), NEW p, p = Q[i].pid,
         NEW C, Departed(Q, C, i), NEW e, Differs(e, d, p, 0)
  PROVE  Delta(C, e) /\ Sleepers(C) = Sleepers(Q) \ {p}
<1>1. /\ Len(Q) \in Nat /\ Len(C) = Len(Q) - 1
      /\ \A j \in 1 .. Len(Q) : /\ Q[j].pid \in Procs /\ Q[j].key \in Nat /\ d[Q[j].pid] \in Nat
                                /\ (j # i => Q[j].pid # p)
  <2>1. Len(Q) \in Nat /\ Len(C) = Len(Q) - 1
    BY EntryOf DEF Departed
  <2>2. \A j \in 1 .. Len(Q) : Q[j].pid \in Procs /\ Q[j].key \in Nat /\ d[Q[j].pid] \in Nat
    BY EntryOf
  <2>3. \A j \in 1 .. Len(Q) : j # i => Q[j].pid # p
    BY DEF Delta
  <2> QED
    BY <2>1, <2>2, <2>3
<1>2. /\ d \in [Procs -> Nat] /\ e \in [Procs -> Nat] /\ p \in Procs
      /\ \A q \in Procs : e[q] = IF q = p THEN 0 ELSE d[q]
  BY <1>1 DEF Delta, Differs
<1>3. ASSUME NEW j \in 1 .. Len(C)
      PROVE  \/ j < i /\ j \in 1 .. Len(Q) /\ C[j] = Q[j]
             \/ /\ j = i /\ i + 1 \in 1 .. Len(Q)
                /\ C[j] = [pid |-> Q[i + 1].pid, key |-> Q[i + 1].key + Q[i].key]
             \/ j > i /\ j + 1 \in 1 .. Len(Q) /\ C[j] = Q[j + 1]
  <2>1. CASE j < i
    <3>1. j \in 1 .. i - 1 /\ j \in 1 .. Len(Q)
      BY <1>1, <2>1
    <3> QED
      BY <2>1, <3>1 DEF Departed
  <2>2. CASE j = i
    <3>1. i < Len(Q) /\ i + 1 \in 1 .. Len(Q)
      BY <1>1, <2>2
    <3> QED
      BY <2>2, <3>1 DEF Departed
  <2>3. CASE j > i
    <3>1. j \in i + 1 .. Len(Q) - 1 /\ j + 1 \in 1 .. Len(Q)
      BY <1>1, <2>3
    <3> QED
      BY <2>3, <3>1 DEF Departed
  <2>4. j < i \/ j = i \/ j > i
    BY <1>1
  <2> QED
    BY <2>1, <2>2, <2>3, <2>4
<1>4. ASSUME NEW j \in 1 .. Len(C)
      PROVE  \E x \in 1 .. Len(Q) : x = (IF j < i THEN j ELSE j + 1) /\ x # i /\ C[j].pid = Q[x].pid
  <2>1. CASE j < i /\ j \in 1 .. Len(Q) /\ C[j] = Q[j]
    BY <2>1
  <2>2. CASE /\ j = i /\ i + 1 \in 1 .. Len(Q)
             /\ C[j] = [pid |-> Q[i + 1].pid, key |-> Q[i + 1].key + Q[i].key]
    BY <2>2
  <2>3. CASE j > i /\ j + 1 \in 1 .. Len(Q) /\ C[j] = Q[j + 1]
    BY <2>3
  <2> QED
    BY <1>3, <2>1, <2>2, <2>3
<1>5. ASSUME NEW j \in 1 .. Len(C)  PROVE C[j] \in Entries /\ C[j].pid \in Procs
  <2>1. CASE j < i /\ j \in 1 .. Len(Q) /\ C[j] = Q[j]
    BY <2>1, EntryOf
  <2>2. CASE /\ j = i /\ i + 1 \in 1 .. Len(Q)
             /\ C[j] = [pid |-> Q[i + 1].pid, key |-> Q[i + 1].key + Q[i].key]
    <3>1. Q[i + 1].pid \in Procs /\ Q[i + 1].key \in Nat /\ Q[i].key \in Nat
      BY <1>1, <2>2
    <3>2. Q[i + 1].key + Q[i].key \in Nat
      BY <3>1
    <3> QED
      BY <2>2, <3>1, <3>2 DEF Entries
  <2>3. CASE j > i /\ j + 1 \in 1 .. Len(Q) /\ C[j] = Q[j + 1]
    <3>1. PICK x \in 1 .. Len(Q) : C[j] = Q[x]
      BY <2>3
    <3> QED
      BY <3>1, EntryOf
  <2> QED
    BY <1>3, <2>1, <2>2, <2>3
<1>6. C \in Seq(Entries)
  <2>1. \A j \in 1 .. Len(C) : C[j] \in Entries
    BY <1>5
  <2>2. \A S : C \in Seq(RawEntries) /\ (\A j \in 1 .. Len(C) : C[j] \in S) => C \in Seq(S)
    BY SeqDef, LenProperties
  <2> QED
    BY <2>1, <2>2 DEF Departed
<1>7. ASSUME NEW j \in 1 .. Len(C), NEW m \in 1 .. Len(C), C[j].pid = C[m].pid  PROVE j = m
  <2>1. PICK x \in 1 .. Len(Q) : x = (IF j < i THEN j ELSE j + 1) /\ C[j].pid = Q[x].pid
    BY <1>4
  <2>2. PICK y \in 1 .. Len(Q) : y = (IF m < i THEN m ELSE m + 1) /\ C[m].pid = Q[y].pid
    BY <1>4
  <2>3. x = y
    BY <1>7, <2>1, <2>2 DEF Delta
  <2>4. j \in Int /\ m \in Int /\ i \in Int
    BY <1>1
  <2> QED
    BY <2>1, <2>2, <2>3, <2>4
<1>8. \A x \in 1 .. Len(Q) : Q[x].pid # p => e[Q[x].pid] = d[Q[x].pid]
  BY <1>1, <1>2
<1>9. ASSUME NEW j \in 1 .. Len(C)  PROVE e[C[j].pid] = C[j].key + Before(C, e, j)
  <2>1. CASE j = 1 \/ j <= i
    <3>1. Before(C, e, j) = Before(Q, d, j)
      <4>1. CASE j = 1
        BY <4>1 DEF Before
      <4>2. CASE j # 1
        <5>1. j - 1 \in 1 .. Len(C) /\ j - 1 < i /\ j - 1 \in 1 .. Len(Q) /\ j - 1 # i
          BY <1>1, <2>1, <4>2
        <5>2. C[j - 1] = Q[j - 1]
          BY <1>3, <5>1
        <5>3. e[Q[j - 1].pid] = d[Q[j - 1].pid]
          BY <1>1, <1>8, <5>1
        <5> QED
          BY <4>2, <5>2, <5>3 DEF Before
      <4> QED
        BY <4>1, <4>2
    <3>2. CASE j < i
      <4>1. j \in 1 .. Len(Q) /\ j # i /\ C[j] = Q[j]
        BY <1>1, <1>3, <3>2
      <4>2. e[C[j].pid] = d[Q[j].pid] /\ d[Q[j].pid] = Q[j].key + Before(Q, d, j)
        BY <1>1, <1>8, <4>1 DEF Delta
      <4> QED
        BY <3>1, <4>1, <4>2
    <3>3. CASE ~(j < i)
      <4>1. j = i
        BY <1>1, <2>1, <3>3
      <4>2. i + 1 \in 1 .. Len(Q) /\ C[j] = [pid |-> Q[i + 1].pid, key |-> Q[i + 1].key + Q[i].key]
        BY <1>3, <4>1
      <4>3. e[C[j].pid] = d[Q[i + 1].pid]
        BY <1>1, <1>8, <4>2
      <4>4. d[Q[i + 1].pid] = Q[i + 1].key + Before(Q, d, i + 1) /\ d[Q[i].pid] = Q[i].key + Before(Q, d, i)
        BY <4>2 DEF Delta
      <4>5. Before(Q, d, i + 1) = d[Q[i].pid]
        <5>1. i + 1 # 1 /\ (i + 1) - 1 = i
          BY <1>1
        <5> QED
          BY <5>1 DEF Before
      <4>6. Q[i + 1].key \in Nat /\ Q[i].key \in Nat /\ Before(Q, d, i) \in Nat
        BY <4>2, EntryOf
      <4>7. C[j].key = Q[i + 1].key + Q[i].key /\ Before(C, e, j) = Before(Q, d, i)
        BY <3>1, <4>1, <4>2
      <4> QED
        BY <4>3, <4>4, <4>5, <4>6, <4>7
    <3> QED
      BY <3>2, <3>3
  <2>2. CASE ~(j = 1 \/ j <= i)
    <3>1. j > i /\ j - 1 \in 1 .. Len(C) /\ j # 1 /\ j + 1 # 1 /\ (j + 1) - 1 = j /\ j \in 1 .. Len(Q)
      BY <1>1, <2>2
    <3>2. j + 1 \in 1 .. Len(Q) /\ j + 1 # i /\ C[j] = Q[j + 1]
      BY <1>1, <1>3, <3>1
    <3>3. e[C[j].pid] = d[Q[j + 1].pid] /\ d[Q[j + 1].pid] = Q[j + 1].key + Before(Q, d, j + 1)
      BY <1>1, <1>8, <3>2 DEF Delta
    <3>4. Before(Q, d, j + 1) = d[Q[j].pid]
      BY <3>1 DEF Before
    <3>5. PICK x \in 1 .. Len(Q) : x = (IF j - 1 < i THEN j - 1 ELSE (j - 1) + 1) /\ C[j - 1].pid = Q[x].pid
      BY <1>4, <3>1
    <3>6. x = j /\ j # i
      BY <1>1, <3>1, <3>5
    <3>7. Before(C, e, j) = d[Q[j].pid]
      BY <1>1, <1>8, <3>1, <3>5, <3>6 DEF Before
    <3> QED
      BY <3>2, <3>3, <3>4, <3>7
  <2> QED
    BY <2>1, <2>2
<1>10. Len(C) > 0 => C[1].key > 0
  <2>1. SUFFICES ASSUME Len(C) > 0  PROVE C[1].key > 0
    OBVIOUS
  <2>2. Q[1].key > 0 /\ 1 \in 1 .. Len(C) /\ 1 \in 1 .. Len(Q)
    BY <1>1, <2>1 DEF Delta
  <2>3. CASE i = 1
    <3>1. i + 1 \in 1 .. Len(Q) /\ C[1] = [pid |-> Q[i + 1].pid, key |-> Q[i + 1].key + Q[i].key]
      BY <1>3, <2>2, <2>3
    <3> QED
      BY <1>1, <2>2, <2>3, <3>1
  <2>4. CASE i # 1
    <3>1. 1 < i
      BY <2>4
    <3> QED
      BY <1>3, <2>2, <3>1
  <2> QED
    BY <2>3, <2>4
<1>11. Sleepers(C) = Sleepers(Q) \ {p}
  <2>1. Sleepers(C) \subseteq Sleepers(Q) \ {p}
    <3>1. \A x \in Sleepers(C) : \E j \in 1 .. Len(C) : x = C[j].pid
      BY DEF Sleepers
    <3>2. ASSUME NEW j \in 1 .. Len(C)  PROVE C[j].pid \in Sleepers(Q) \ {p}
      <4>1. PICK x \in 1 .. Len(Q) : x # i /\ C[j].pid = Q[x].pid
        BY <1>4
      <4> QED
        BY <1>1, <4>1 DEF Sleepers
    <3> QED
      BY <3>1, <3>2
  <2>2. ASSUME NEW x \in Sleepers(Q) \ {p}  PROVE x \in Sleepers(C)
    <3>1. PICK j \in 1 .. Len(Q) : x = Q[j].pid /\ j # i
      BY DEF Sleepers
    <3>2. CASE j < i
      <4>1. j \in 1 .. Len(C)
        BY <1>1, <3>2
      <4>2. C[j].pid = x
        BY <1>3, <3>1, <3>2, <4>1
      <4> QED
        BY <4>1, <4>2 DEF Sleepers
    <3>3. CASE j > i
      <4>1. j - 1 \in 1 .. Len(C) /\ ~(j - 1 < i) /\ (j - 1) + 1 = j
        BY <1>1, <3>3
      <4>2. C[j - 1].pid = x
        BY <1>4, <3>1, <4>1
      <4> QED
        BY <4>1, <4>2 DEF Sleepers
    <3>4. j < i \/ j > i
      BY <1>1, <3>1
    <3> QED
      BY <3>2, <3>3, <3>4
  <2> QED
    BY <2>1, <2>2
<1>12. \A q \in Procs : q \notin Sleepers(C) => e[q] = 0
  BY <1>2, <1>11 DEF Delta
<1> QED
  BY <1>2, <1>6, <1>7, <1>9, <1>10, <1>11, <1>12 DEF Delta

\* unsleep() keeps the list in order.
LEMMA UnsleepDelta ==
  ASSUME Sleeps, NEW p \in Sleepers(clockq), Unsleep(p)
  PROVE  /\ Delta(clockq', due') /\ Sleepers(clockq') = Sleepers(clockq) \ {p}
         /\ slnempty' = (clockq' # <<>>)
         /\ clockq' # <<>> => sltop' = clockq'[1].pid
<1>1. PICK Q, C, d, e : Q = clockq /\ C = clockq' /\ d = due /\ e = due'
  OBVIOUS
<1>2. Delta(Q, d) /\ Q \in Seq(RawEntries) /\ Len(Q) \in Nat
  BY <1>1, RawList DEF Sleeps, Delta
<1>3. PICK i \in 1 .. Len(Q) : p = Q[i].pid
  BY <1>1 DEF Sleepers
<1>4. i = CHOOSE j \in 1 .. Len(Q) : Q[j].pid = p
  BY <1>2, <1>3 DEF Delta
<1>5. /\ C = SubSeq(Q, 1, i - 1) \o RaiseNext(SubSeq(Q, i + 1, Len(Q)), Q[i].key)
      /\ e = [d EXCEPT ![p] = 0]
  BY <1>1, <1>4 DEF Unsleep
<1>6. PICK a, b : a = SubSeq(Q, 1, i - 1) /\ b = SubSeq(Q, i + 1, Len(Q))
  OBVIOUS
<1>7. a \in Seq(RawEntries) /\ Len(a) = i - 1 /\ \A j \in 1 .. i - 1 : a[j] = Q[j]
  BY <1>2, <1>6, SubSeqOf
<1>8. /\ b \in Seq(RawEntries) /\ Len(b) = Len(Q) - i
      /\ \A j \in 1 .. Len(Q) - i : b[j] = Q[i + j]
  BY <1>2, <1>6, SubSeqOf
<1>9. PICK k \in Int, m \in Int : k = Q[i].key /\ m = -k
  <2>1. Q[i].key \in Nat
    BY <1>2, EntryOf, Zenon
  <2>2. Q[i].key \in Int /\ -Q[i].key \in Int
    BY <2>1
  <2> QED
    BY <2>2
<1>10. PICK T : T = RaiseNext(b, k)
  OBVIOUS
<1>11. /\ T \in Seq(RawEntries) /\ Len(T) = Len(b)
       /\ \A j \in 1 .. Len(b) : T[j] = IF j = 1 THEN [pid |-> b[1].pid, key |-> b[1].key + k] ELSE b[j]
  <2>1. b \in Seq(RawEntries)
    BY <1>8
  <2> QED
    BY <1>9, <1>10, <2>1, NextKey
<1>12. C = a \o T
  BY <1>5, <1>6, <1>9, <1>10
<1>13. /\ C \in Seq(RawEntries) /\ Len(C) = i - 1 + (Len(Q) - i)
       /\ \A j \in 1 .. i - 1 : C[j] = a[j]
       /\ \A j \in i - 1 + 1 .. i - 1 + (Len(Q) - i) : C[j] = T[j - (i - 1)]
  <2>1. a \in Seq(RawEntries) /\ T \in Seq(RawEntries)
    BY <1>7, <1>11
  <2>2. PICK u, v : u = Len(a) /\ v = Len(T)
    OBVIOUS
  <2>3. /\ C \in Seq(RawEntries) /\ Len(C) = u + v
        /\ \A j \in 1 .. u : C[j] = a[j]
        /\ \A j \in u + 1 .. u + v : C[j] = T[j - u]
    BY <1>12, <2>1, <2>2, JoinIs
  <2>4. u = i - 1 /\ v = Len(Q) - i
    BY <1>7, <1>8, <1>11, <2>2
  <2> QED
    BY <2>3, <2>4
<1>14. Departed(Q, C, i)
  <2>1. Len(C) = Len(Q) - 1 /\ \A j \in 1 .. i - 1 : C[j] = Q[j]
    BY <1>2, <1>7, <1>13
  <2>2. ASSUME i < Len(Q)  PROVE C[i] = [pid |-> Q[i + 1].pid, key |-> Q[i + 1].key + Q[i].key]
    <3>1. i \in i - 1 + 1 .. i - 1 + (Len(Q) - i) /\ i - (i - 1) = 1 /\ 1 \in 1 .. Len(Q) - i
      BY <1>2, <2>2
    <3>2. C[i] = T[1] /\ b[1] = Q[i + 1]
      BY <1>8, <1>13, <3>1
    <3>3. T[1] = [pid |-> b[1].pid, key |-> b[1].key + k]
      BY <1>8, <1>11, <3>1
    <3> QED
      BY <1>9, <3>2, <3>3
  <2>3. ASSUME NEW j \in i + 1 .. Len(Q) - 1  PROVE C[j] = Q[j + 1]
    <3>1. /\ j \in i - 1 + 1 .. i - 1 + (Len(Q) - i) /\ j - (i - 1) \in 1 .. Len(Q) - i
          /\ j - (i - 1) # 1 /\ i + (j - (i - 1)) = j + 1
      BY <1>2
    <3>2. C[j] = T[j - (i - 1)] /\ T[j - (i - 1)] = b[j - (i - 1)] /\ b[j - (i - 1)] = Q[i + (j - (i - 1))]
      BY <1>8, <1>11, <1>13, <3>1
    <3> QED
      BY <3>1, <3>2
  <2> QED
    BY <1>13, <2>1, <2>2, <2>3 DEF Departed
<1>15. Differs(e, d, p, 0)
  BY <1>2, <1>5 DEF Differs, Delta
<1>16. Delta(C, e) /\ Sleepers(C) = Sleepers(Q) \ {p}
  <2>1. Delta(Q, d) /\ p = Q[i].pid /\ i \in 1 .. Len(Q)
    BY <1>2, <1>3
  <2> QED
    BY <2>1, <1>14, <1>15, DeltaRemove, SMTT(60)
<1>17. slnempty = TRUE
  <2>1. clockq # <<>>
    BY <1>1, <1>2, <1>3, Somebody
  <2> QED
    BY <2>1 DEF Sleeps
<1>18. slnempty' = (slnempty /\ clockq' # <<>>) /\ sltop' = IF clockq' # <<>> THEN clockq'[1].pid ELSE sltop
  BY DEF Unsleep
<1> QED
  BY <1>1, <1>16, <1>17, <1>18

\* The current process goes to sleep.
LEMMA GoToSleepDelta ==
  ASSUME Sleeps, currpid \in Procs, currpid \notin Sleepers(clockq), NEW delay \in Nat \ {0}, NEW st,
         GoToSleep(delay, st)
  PROVE  /\ Delta(clockq', due') /\ Sleepers(clockq') = Sleepers(clockq) \cup {currpid}
         /\ slnempty' = (clockq' # <<>>)
         /\ clockq' # <<>> => sltop' = clockq'[1].pid
<1>1. PICK C, e : C = clockq' /\ e = due'
  OBVIOUS
<1>2. C = Insertd(currpid, delay) /\ e = [due EXCEPT ![currpid] = delay]
  BY <1>1 DEF GoToSleep
<1>3. Delta(C, e) /\ Sleepers(C) = Sleepers(clockq) \cup {currpid} /\ C # <<>>
  BY <1>2, InsertdDelta DEF Sleeps
<1>4. slnempty' = TRUE /\ sltop' = clockq'[1].pid
  BY DEF GoToSleep
<1> QED
  BY <1>1, <1>3, <1>4

\* A tick of everybody's delay.
Ticked(e, d) ==
  e \in [Procs -> Nat] /\ \A p \in Procs : e[p] = IF d[p] > 0 THEN d[p] - 1 ELSE 0

\* The first key goes down and nobody is due.
LEMMA DeltaCount ==
  ASSUME NEW Q, NEW d, Delta(Q, d), NEW e, Ticked(e, d), Len(Q) > 0, Q[1].key > 1,
         NEW C \in Seq(RawEntries), Len(C) = Len(Q),
         C[1] = [pid |-> Q[1].pid, key |-> Q[1].key - 1],
         \A j \in 2 .. Len(Q) : C[j] = Q[j]
  PROVE  Delta(C, e) /\ Sleepers(C) = Sleepers(Q)
<1>1. /\ Len(Q) \in Nat /\ 1 \in 1 .. Len(Q)
      /\ \A j \in 1 .. Len(Q) : /\ Q[j].pid \in Procs /\ Q[j].key \in Nat /\ d[Q[j].pid] \in Nat
                                /\ d[Q[j].pid] > 0 /\ Before(Q, d, j) \in Nat
  <2>1. Len(Q) \in Nat
    BY EntryOf
  <2>2. \A j \in 1 .. Len(Q) : d[Q[j].pid] > 0
    BY StillAsleep
  <2>3. \A j \in 1 .. Len(Q) : /\ Q[j].pid \in Procs /\ Q[j].key \in Nat
                                /\ d[Q[j].pid] \in Nat /\ Before(Q, d, j) \in Nat
    BY EntryOf
  <2> QED
    BY <2>1, <2>2, <2>3
<1>2. /\ d \in [Procs -> Nat] /\ e \in [Procs -> Nat]
      /\ \A p \in Procs : e[p] = IF d[p] > 0 THEN d[p] - 1 ELSE 0
  BY DEF Delta, Ticked
<1>3. ASSUME NEW j \in 1 .. Len(Q)  PROVE C[j].pid = Q[j].pid /\ C[j] \in Entries
  <2>1. CASE j = 1
    <3>1. Q[1].pid \in Procs /\ Q[1].key - 1 \in Nat
      BY <1>1
    <3> QED
      BY <2>1, <3>1 DEF Entries
  <2>2. CASE j # 1
    <3>1. j \in 2 .. Len(Q)
      BY <1>1, <2>2
    <3> QED
      BY <3>1, EntryOf
  <2> QED
    BY <2>1, <2>2
<1>4. C \in Seq(Entries)
  <2>1. \A S : C \in Seq(RawEntries) /\ (\A j \in 1 .. Len(C) : C[j] \in S) => C \in Seq(S)
    BY SeqDef, LenProperties
  <2> QED
    BY <1>3, <2>1
<1>5. \A i, j \in 1 .. Len(C) : C[i].pid = C[j].pid => i = j
  BY <1>3 DEF Delta
<1>6. ASSUME NEW j \in 1 .. Len(C)  PROVE e[C[j].pid] = C[j].key + Before(C, e, j)
  <2>1. d[Q[j].pid] = Q[j].key + Before(Q, d, j) /\ e[C[j].pid] = d[Q[j].pid] - 1
    BY <1>1, <1>2, <1>3 DEF Delta
  <2>2. CASE j = 1
    <3>1. Before(Q, d, j) = 0 /\ Before(C, e, j) = 0
      BY <2>2 DEF Before
    <3> QED
      BY <1>1, <2>1, <2>2, <3>1
  <2>3. CASE j # 1
    <3>1. j - 1 \in 1 .. Len(Q) /\ j \in 2 .. Len(Q)
      BY <1>1, <2>3
    <3>2. e[C[j - 1].pid] = d[Q[j - 1].pid] - 1 /\ d[Q[j - 1].pid] \in Nat
      BY <1>1, <1>2, <1>3, <3>1
    <3>3. Before(C, e, j) = d[Q[j - 1].pid] - 1 /\ Before(Q, d, j) = d[Q[j - 1].pid]
      BY <2>3, <3>2 DEF Before
    <3>4. C[j].key = Q[j].key /\ Q[j].key \in Nat
      BY <1>1, <3>1
    <3> QED
      BY <2>1, <3>2, <3>3, <3>4
  <2> QED
    BY <2>2, <2>3
<1>7. C[1].key > 0
  BY <1>1
<1>8. Sleepers(C) = Sleepers(Q)
  BY <1>3 DEF Sleepers
<1>9. \A p \in Procs : p \notin Sleepers(C) => e[p] = 0
  <2>1. \A p \in Procs : p \notin Sleepers(Q) => d[p] = 0
    BY DEF Delta
  <2> QED
    BY <1>2, <1>8, <2>1
<1> QED
  BY <1>2, <1>4, <1>5, <1>6, <1>7, <1>8, <1>9 DEF Delta

\* C is the list Q that its first n entries, the ones that are due, have left.
DueLeft(Q, C, n) ==
  /\ n \in 1 .. Len(Q) /\ Q[1].key = 1
  /\ \A j \in 2 .. n : Q[j].key = 0
  /\ n < Len(Q) => Q[n + 1].key > 0
  /\ C \in Seq(RawEntries) /\ Len(C) = Len(Q) - n
  /\ \A j \in 1 .. Len(Q) - n : C[j] = Q[n + j]

LEMMA DeltaWake ==
  ASSUME NEW Q, NEW d, Delta(Q, d), NEW e, Ticked(e, d), NEW n, NEW C, DueLeft(Q, C, n)
  PROVE  Delta(C, e) /\ Sleepers(C) = Sleepers(Q) \ {Q[j].pid : j \in 1 .. n}
<1>0. /\ n \in 1 .. Len(Q) /\ Q[1].key = 1
      /\ \A j \in 2 .. n : Q[j].key = 0
      /\ n < Len(Q) => Q[n + 1].key > 0
  BY DEF DueLeft
<1>11. /\ C \in Seq(RawEntries) /\ Len(C) = Len(Q) - n
      /\ \A j \in 1 .. Len(Q) - n : C[j] = Q[n + j]
  BY DEF DueLeft
<1>1. /\ Len(Q) \in Nat /\ 1 \in 1 .. Len(Q)
      /\ \A j \in 1 .. Len(Q) : /\ Q[j].pid \in Procs /\ Q[j].key \in Nat /\ d[Q[j].pid] \in Nat
                                /\ d[Q[j].pid] > 0 /\ Before(Q, d, j) \in Nat
  <2>1. Len(Q) \in Nat /\ 1 \in 1 .. Len(Q)
    BY <1>0, EntryOf
  <2>2. \A j \in 1 .. Len(Q) : d[Q[j].pid] > 0
    BY StillAsleep
  <2>3. \A j \in 1 .. Len(Q) : /\ Q[j].pid \in Procs /\ Q[j].key \in Nat
                                /\ d[Q[j].pid] \in Nat /\ Before(Q, d, j) \in Nat
    BY EntryOf
  <2> QED
    BY <2>1, <2>2, <2>3
<1>2. /\ d \in [Procs -> Nat] /\ e \in [Procs -> Nat]
      /\ \A p \in Procs : e[p] = IF d[p] > 0 THEN d[p] - 1 ELSE 0
  BY DEF Delta, Ticked
<1>3. \A j \in 1 .. n : d[Q[j].pid] = 1
  <2> DEFINE S == {j \in 1 .. n : d[Q[j].pid] # 1}
  <2>1. SUFFICES ASSUME S # {} PROVE FALSE
    OBVIOUS
  <2>2. S \in SUBSET (1 .. n) /\ n \in Nat
    BY <1>0, <1>1
  <2>3. PICK i \in S : \A j \in 1 .. i - 1 : j \notin S
    <3> HIDE DEF S
    <3> QED
      BY <2>1, <2>2, FirstIndex
  <2>4. i \in 1 .. Len(Q) /\ d[Q[i].pid] = Q[i].key + Before(Q, d, i)
    BY <1>0, <1>1, <2>3 DEF Delta
  <2>5. CASE i = 1
    <3>1. Before(Q, d, i) = 0
      BY <2>5 DEF Before
    <3> QED
      BY <1>0, <2>3, <2>4, <2>5, <3>1
  <2>6. CASE i # 1
    <3>1. i - 1 \in 1 .. i - 1 /\ i - 1 \in 1 .. n /\ i \in 2 .. n
      BY <1>0, <1>1, <2>3, <2>6
    <3>2. d[Q[i - 1].pid] = 1
      BY <2>3, <3>1
    <3>3. Before(Q, d, i) = 1
      BY <2>6, <3>2 DEF Before
    <3> QED
      BY <1>0, <2>3, <2>4, <3>1, <3>3
  <2> QED
    BY <2>5, <2>6
<1>4. \A j \in 1 .. Len(C) : n + j \in 1 .. Len(Q) /\ C[j] = Q[n + j]
  BY <1>0, <1>1, <1>11
<1>5. C \in Seq(Entries)
  <2>1. \A S : C \in Seq(RawEntries) /\ (\A j \in 1 .. Len(C) : C[j] \in S) => C \in Seq(S)
    BY SeqDef, LenProperties
  <2>2. \A j \in 1 .. Len(C) : C[j] \in Entries
    BY <1>4, EntryOf
  <2> QED
    BY <1>11, <2>1, <2>2
<1>6. ASSUME NEW i \in 1 .. Len(C), NEW j \in 1 .. Len(C), C[i].pid = C[j].pid  PROVE i = j
  <2>1. PICK x \in 1 .. Len(Q), y \in 1 .. Len(Q) : x = n + i /\ y = n + j /\ Q[x].pid = Q[y].pid
    BY <1>4, <1>6
  <2>2. x = y
    BY <2>1 DEF Delta
  <2> QED
    BY <1>0, <2>1, <2>2
<1>7. ASSUME NEW j \in 1 .. Len(C)  PROVE e[C[j].pid] = C[j].key + Before(C, e, j)
  <2>1. PICK m \in 1 .. Len(Q) : m = n + j
    BY <1>4
  <2>2. /\ d[Q[m].pid] = Q[m].key + Before(Q, d, m) /\ C[j] = Q[m] /\ e[C[j].pid] = d[Q[m].pid] - 1
        /\ Q[m].key \in Nat
    <3>1. d[Q[m].pid] = Q[m].key + Before(Q, d, m)
      BY DEF Delta
    <3>2. C[j] = Q[m]
      BY <1>4, <2>1
    <3>3. e[Q[m].pid] = d[Q[m].pid] - 1
      BY <1>1, <1>2
    <3> QED
      BY <1>1, <3>1, <3>2, <3>3
  <2>3. m # 1 /\ m - 1 \in 1 .. Len(Q)
    BY <1>0, <1>1, <2>1
  <2>4. Before(Q, d, m) = d[Q[m - 1].pid] /\ d[Q[m - 1].pid] \in Nat
    BY <1>1, <2>3 DEF Before
  <2>5. CASE j = 1
    <3>1. m - 1 \in 1 .. n
      BY <1>0, <2>1, <2>5
    <3>2. d[Q[m - 1].pid] = 1
      BY <1>3, <3>1
    <3>3. Before(C, e, j) = 0
      BY <2>5 DEF Before
    <3>4. Before(Q, d, m) = 1
      BY <2>4, <3>2
    <3>5. e[C[j].pid] = Q[m].key + 1 - 1
      BY <2>2, <3>4
    <3> QED
      BY <2>2, <3>3, <3>5
  <2>6. CASE j # 1
    <3>1. j - 1 \in 1 .. Len(C) /\ n + (j - 1) = m - 1
      BY <1>0, <1>11, <2>1, <2>6
    <3>2. C[j - 1] = Q[m - 1]
      BY <1>4, <3>1
    <3>3. e[Q[m - 1].pid] = d[Q[m - 1].pid] - 1
      BY <1>1, <1>2, <2>3
    <3>4. Before(C, e, j) = d[Q[m - 1].pid] - 1
      BY <2>6, <3>2, <3>3 DEF Before
    <3>5. PICK x \in Nat, y \in Nat : x = Q[m].key /\ y = d[Q[m - 1].pid]
      BY <2>2, <2>4
    <3>6. d[Q[m].pid] = x + y
      BY <2>2, <2>4, <3>5
    <3>7. e[C[j].pid] = d[Q[m].pid] - 1 /\ C[j].key = Q[m].key
      BY <2>2
    <3>8. e[C[j].pid] = x + y - 1 /\ C[j].key = x
      BY <3>5, <3>6, <3>7
    <3>9. Before(C, e, j) = y - 1
      BY <3>4, <3>5
    <3> QED
      BY <3>5, <3>8, <3>9
  <2> QED
    BY <2>5, <2>6
<1>8. Len(C) > 0 => C[1].key > 0
  BY <1>0, <1>1, <1>4, <1>11
<1>9. Sleepers(C) = Sleepers(Q) \ {Q[j].pid : j \in 1 .. n}
  <2>1. ASSUME NEW j \in 1 .. Len(C)  PROVE C[j].pid \in Sleepers(Q) \ {Q[x].pid : x \in 1 .. n}
    <3>1. PICK m \in 1 .. Len(Q) : m = n + j /\ C[j] = Q[m]
      BY <1>4
    <3>2. \A x \in 1 .. n : x \in 1 .. Len(Q) /\ x # m
      BY <1>0, <1>1, <3>1
    <3>3. \A x \in 1 .. n : Q[x].pid # Q[m].pid
      BY <3>2 DEF Delta
    <3> QED
      BY <3>1, <3>3 DEF Sleepers
  <2>2. ASSUME NEW j \in 1 .. Len(Q), Q[j].pid \notin {Q[x].pid : x \in 1 .. n}
        PROVE  Q[j].pid \in Sleepers(C)
    <3>1. j - n \in 1 .. Len(C) /\ n + (j - n) = j
      BY <1>0, <1>1, <1>11, <2>2
    <3>2. C[j - n] = Q[j]
      BY <1>4, <3>1
    <3> QED
      BY <3>1, <3>2 DEF Sleepers
  <2> QED
    BY <2>1, <2>2 DEF Sleepers
<1>10. \A p \in Procs : p \notin Sleepers(C) => e[p] = 0
  <2>1. \A p \in Procs : p \notin Sleepers(Q) => d[p] = 0
    BY DEF Delta
  <2>2. \A j \in 1 .. n : e[Q[j].pid] = 0
    BY <1>0, <1>1, <1>2, <1>3
  <2> QED
    BY <1>2, <1>9, <2>1, <2>2
<1> QED
  BY <1>2, <1>5, <1>6, <1>7, <1>8, <1>9, <1>10 DEF Delta

LEMMA AsSeq ==
  ASSUME NEW n \in Nat, NEW S, NEW f \in [1 .. n -> S]
  PROVE  f \in Seq(S) /\ Len(f) = n
<1>1. f \in Seq(S)
  BY SeqDef
<1>2. Len(f) \in Nat /\ DOMAIN f = 1 .. Len(f) /\ DOMAIN f = 1 .. n
  BY <1>1, LenProperties
<1> QED
  BY <1>1, <1>2

\* The entries that are due are the first ones, one at least.
LEMMA ExpiredIs ==
  ASSUME NEW L, Len(L) \in Nat \ {0}, \A j \in 1 .. Len(L) : L[j].key \in Int, L[1].key <= 0
  PROVE  /\ Cardinality(Expired(L)) \in 1 .. Len(L)
         /\ \A j \in 1 .. Cardinality(Expired(L)) : L[j].key <= 0
         /\ Cardinality(Expired(L)) < Len(L) => L[Cardinality(Expired(L)) + 1].key > 0
<1> DEFINE S == {j \in 1 .. Len(L) + 1 : j <= Len(L) => L[j].key > 0}
<1>1. Len(L) + 1 \in S /\ S \in SUBSET (1 .. Len(L) + 1) /\ Len(L) + 1 \in Nat /\ S # {}
  OBVIOUS
<1>2. PICK m \in S : \A j \in 1 .. m - 1 : j \notin S
  <2> HIDE DEF S
  <2> QED
    BY <1>1, FirstIndex
<1>3. m \in 1 .. Len(L) + 1 /\ (m <= Len(L) => L[m].key > 0)
  BY <1>2
<1>4. m # 1
  BY <1>3
<1>5. PICK n : n = m - 1
  OBVIOUS
<1>6. n \in 1 .. Len(L) /\ (n < Len(L) => L[n + 1].key > 0)
  <2>1. n \in 1 .. Len(L) /\ m = n + 1
    BY <1>3, <1>4, <1>5
  <2> QED
    BY <1>3, <2>1
<1>7. ASSUME NEW j \in 1 .. n  PROVE L[j].key <= 0
  <2>1. j \in 1 .. Len(L) /\ j \in 1 .. m - 1 /\ j \in 1 .. Len(L) + 1
    BY <1>5, <1>6
  <2>2. ~(L[j].key > 0) /\ L[j].key \in Int
    BY <1>2, <2>1
  <2> QED
    BY <2>2
<1>8. Expired(L) = 1 .. n
  <2>1. ASSUME NEW i \in 1 .. n  PROVE i \in Expired(L)
    <3>1. i \in 1 .. Len(L) /\ \A j \in 1 .. i : j \in 1 .. n
      BY <1>6
    <3> QED
      BY <1>7, <3>1 DEF Expired
  <2>2. ASSUME NEW i \in Expired(L)  PROVE i \in 1 .. n
    <3>1. i \in 1 .. Len(L) /\ \A j \in 1 .. i : L[j].key <= 0
      BY DEF Expired
    <3>2. CASE i > n
      <4>1. n + 1 \in 1 .. i /\ n < Len(L)
        BY <1>6, <3>1, <3>2
      <4>2. L[n + 1].key > 0 /\ L[n + 1].key <= 0 /\ L[n + 1].key \in Int
        BY <1>6, <3>1, <4>1
      <4> QED
        BY <4>2
    <3> QED
      BY <1>6, <3>1, <3>2
  <2> QED
    BY <2>1, <2>2
<1>9. Cardinality(Expired(L)) = n
  <2>1. Cardinality(1 .. n) = IF 1 > n THEN 0 ELSE n - 1 + 1
    BY <1>6, FS_Interval
  <2> QED
    BY <1>6, <1>8, <2>1
<1> QED
  BY <1>6, <1>7, <1>9

\* A tick keeps the list in order and readies those who leave it.
LEMMA TickDelta ==
  ASSUME Sleeps, Tick
  PROVE  /\ Delta(clockq', due') /\ Ticked(due', due)
         /\ slnempty' = (clockq' # <<>>)
         /\ clockq' # <<>> => sltop' = clockq'[1].pid
         /\ \/ Sleepers(clockq') = Sleepers(clockq) /\ UNCHANGED schedVars
            \/ \E W : /\ Members(W) \subseteq Sleepers(clockq) /\ Ready(W)
                      /\ Sleepers(clockq') = Sleepers(clockq) \ Members(W)
<1>1. PICK Q, d, C, e : Q = clockq /\ d = due /\ C = clockq' /\ e = due'
  OBVIOUS
<1>2. Delta(Q, d) /\ Q \in Seq(RawEntries) /\ Len(Q) \in Nat /\ Len(Q) # 0 /\ sltop = Q[1].pid /\ slnempty
  <2>1. Delta(Q, d) /\ Q \in Seq(RawEntries) /\ Len(Q) \in Nat
    BY <1>1, RawList DEF Sleeps, Delta
  <2>2. slnempty /\ Q # <<>>
    BY <1>1 DEF Tick, Sleeps
  <2> QED
    BY <1>1, <2>1, <2>2, Somebody DEF Sleeps
<1>3. \A j \in 1 .. Len(Q) : /\ Q[j].pid \in Procs /\ Q[j].key \in Nat
                             /\ (Q[j].pid = sltop <=> j = 1)
  <2>1. \A j \in 1 .. Len(Q) : Q[j].pid \in Procs /\ Q[j].key \in Nat
    BY <1>2, EntryOf
  <2>2. 1 \in 1 .. Len(Q)
    BY <1>2
  <2>3. \A j \in 1 .. Len(Q) : Q[j].pid = sltop <=> j = 1
    BY <1>2, <2>2 DEF Delta
  <2> QED
    BY <2>1, <2>3
<1>4. Ticked(e, d)
  <2>1. e = [p \in Procs |-> IF d[p] > 0 THEN d[p] - 1 ELSE 0]
    BY <1>1 DEF Tick
  <2>2. \A p \in Procs : d[p] \in Nat
    BY <1>2 DEF Delta
  <2> QED
    BY <2>1, <2>2 DEF Ticked
<1>5. PICK L : L = Counted
  OBVIOUS
<1>6. \A j \in 1 .. Len(Q) : L[j] = IF j = 1 THEN [pid |-> Q[1].pid, key |-> Q[1].key - 1] ELSE Q[j]
  <2>1. \A j \in 1 .. Len(Q) : L[j] = IF j = 1 THEN [Q[j] EXCEPT !.key = @ - 1] ELSE Q[j]
    BY <1>1, <1>3, <1>5 DEF Counted
  <2>2. [Q[1] EXCEPT !.key = @ - 1] = [pid |-> Q[1].pid, key |-> Q[1].key - 1]
    <3>1. 1 \in 1 .. Len(Q)
      BY <1>2
    <3>2. PICK a, b : a = Q[1].pid /\ b = Q[1].key
      OBVIOUS
    <3>3. Q[1] = [pid |-> a, key |-> b]
      BY <1>2, <3>1, <3>2, EntryOf, Zenon
    <3> QED
      BY <3>3
  <2> QED
    BY <2>1, <2>2
<1>7. L \in Seq(RawEntries) /\ Len(L) = Len(Q)
  <2>1. ASSUME NEW j \in 1 .. Len(Q)  PROVE L[j] \in RawEntries
    <3>1. CASE j = 1
      <4>1. Q[1].pid \in Procs /\ Q[1].key \in Int /\ Q[1].key - 1 \in Int
        BY <1>3, <3>1
      <4> QED
        BY <1>6, <3>1, <4>1 DEF RawEntries
    <3>2. CASE j # 1
      <4>1. Q[j] \in RawEntries
        BY <1>2, ElementOfSeq
      <4> QED
        BY <1>6, <3>2, <4>1
    <3> QED
      BY <3>1, <3>2
  <2>2. L \in [1 .. Len(Q) -> RawEntries]
    BY <1>1, <1>5, <2>1 DEF Counted
  <2> QED
    BY <1>2, <2>2, AsSeq
<1>8. ASSUME NEW j \in 1 .. Len(Q)  PROVE L[j].pid = Q[j].pid /\ L[j].key \in Int
  <2>1. CASE j = 1
    <3>1. L[1] = [pid |-> Q[1].pid, key |-> Q[1].key - 1] /\ Q[1].key \in Nat
      BY <1>3, <1>6, <2>1
    <3> QED
      BY <2>1, <3>1
  <2>2. CASE j # 1
    <3>1. L[j] = Q[j] /\ Q[j].key \in Nat
      BY <1>3, <1>6, <2>2
    <3> QED
      BY <3>1
  <2> QED
    BY <2>1, <2>2
<1>9. 1 \in 1 .. Len(Q) /\ L[1].key = Q[1].key - 1 /\ Q[1].key \in Nat /\ Q[1].key > 0
  <2>1. 1 \in 1 .. Len(Q)
    BY <1>2
  <2>2. L[1] = [pid |-> Q[1].pid, key |-> Q[1].key - 1] /\ Q[1].key \in Nat
    BY <1>3, <1>6, <2>1
  <2>3. Q[1].key > 0
    BY <1>2, <2>1 DEF Delta
  <2> QED
    BY <2>1, <2>2, <2>3
<1>10. (\E i \in 1 .. Len(L) : L[i].pid = sltop /\ L[i].key <= 0) <=> Q[1].key = 1
  <2>1. \A i \in 1 .. Len(L) : L[i].pid = sltop <=> i = 1
    BY <1>3, <1>7, <1>8
  <2> QED
    BY <1>7, <1>9, <2>1
<1>11. CASE Q[1].key # 1
  <2>1. C = L /\ UNCHANGED <<slnempty, sltop, schedVars>>
    BY <1>1, <1>5, <1>10, <1>11 DEF Tick
  <2>2. \A j \in 2 .. Len(Q) : L[j] = Q[j]
    BY <1>6
  <2>3. Delta(L, e) /\ Sleepers(L) = Sleepers(Q)
    <3>1. L[1] = [pid |-> Q[1].pid, key |-> Q[1].key - 1] /\ Len(Q) > 0 /\ Q[1].key > 1
      BY <1>2, <1>6, <1>9, <1>11
    <3> QED
      BY <1>2, <1>4, <1>7, <2>2, <3>1, DeltaCount
  <2>4. L # <<>> /\ L[1].pid = Q[1].pid
    BY <1>2, <1>7, <1>8, <1>9, Somebody
  <2> QED
    BY <1>1, <1>2, <1>4, <2>1, <2>3, <2>4
<1>12. CASE Q[1].key = 1
  <2>1. PICK n : n = Cardinality(Expired(L))
    OBVIOUS
  <2>2. PICK W : W = [i \in 1 .. n |-> L[i].pid]
    OBVIOUS
  <2>3. /\ C = SubSeq(L, n + 1, Len(L)) /\ slnempty' = (clockq' # <<>>)
        /\ sltop' = (IF clockq' # <<>> THEN clockq'[1].pid ELSE sltop) /\ Ready(W)
    <3>1. \E i \in 1 .. Len(L) : L[i].pid = sltop /\ L[i].key <= 0
      BY <1>10, <1>12
    <3> QED
      <4>1. /\ clockq' = SubSeq(L, Cardinality(Expired(L)) + 1, Len(L))
            /\ slnempty' = (clockq' # <<>>)
            /\ sltop' = (IF clockq' # <<>> THEN clockq'[1].pid ELSE sltop)
            /\ Ready([i \in 1 .. Cardinality(Expired(L)) |-> L[i].pid])
        BY <1>5, <3>1 DEF Tick
      <4>2. [i \in 1 .. Cardinality(Expired(L)) |-> L[i].pid] = W
        BY <2>1, <2>2
      <4> QED
        BY <1>1, <2>1, <4>1, <4>2
  <2>4. n \in 1 .. Len(Q) /\ (\A j \in 1 .. n : L[j].key <= 0) /\ (n < Len(Q) => L[n + 1].key > 0)
    <3>1. Len(L) \in Nat \ {0} /\ (\A j \in 1 .. Len(L) : L[j].key \in Int) /\ L[1].key <= 0
      BY <1>2, <1>7, <1>8, <1>9, <1>12
    <3> QED
      BY <1>7, <2>1, <3>1, ExpiredIs
  <2>5. \A j \in 2 .. n : Q[j].key = 0
    <3>1. ASSUME NEW j \in 2 .. n  PROVE Q[j].key = 0
      <4>1. j \in 1 .. n /\ j \in 1 .. Len(Q) /\ j # 1
        BY <1>2, <2>4
      <4>2. L[j] = Q[j] /\ L[j].key <= 0 /\ Q[j].key \in Nat
        BY <1>3, <1>6, <2>4, <4>1
      <4> QED
        BY <4>2
    <3> QED
      BY <3>1
  <2>6. n < Len(Q) => Q[n + 1].key > 0
    <3>1. SUFFICES ASSUME n < Len(Q)  PROVE Q[n + 1].key > 0
      OBVIOUS
    <3>2. n + 1 \in 1 .. Len(Q) /\ n + 1 # 1
      BY <1>2, <2>4, <3>1
    <3>3. L[n + 1] = Q[n + 1]
      BY <1>6, <3>2
    <3> QED
      BY <2>4, <3>1, <3>3
  <2>7. C \in Seq(RawEntries) /\ Len(C) = Len(Q) - n /\ \A j \in 1 .. Len(Q) - n : C[j] = L[n + j]
    <3>1. n + 1 \in Nat \ {0} /\ Len(L) \in Nat /\ Len(L) <= Len(L)
      BY <1>2, <1>7, <2>4
    <3>2. /\ C \in Seq(RawEntries) /\ Len(C) = IF n + 1 <= Len(L) THEN Len(L) - (n + 1) + 1 ELSE 0
          /\ \A j \in 1 .. Len(C) : C[j] = L[n + 1 + j - 1]
      BY <1>7, <2>3, <3>1, SubSeqOf
    <3>3. Len(C) = Len(Q) - n
      BY <1>2, <1>7, <2>4, <3>2
    <3>4. \A j \in 1 .. Len(Q) - n : n + 1 + j - 1 = n + j
      BY <1>2, <2>4
    <3> QED
      BY <3>2, <3>3, <3>4
  <2>8. \A j \in 1 .. Len(Q) - n : C[j] = Q[n + j]
    <3>1. ASSUME NEW j \in 1 .. Len(Q) - n  PROVE L[n + j] = Q[n + j]
      <4>1. n + j \in 1 .. Len(Q) /\ n + j # 1
        BY <1>2, <2>4
      <4> QED
        BY <1>6, <4>1
    <3> QED
      BY <2>7, <3>1
  <2>9. Delta(C, e) /\ Sleepers(C) = Sleepers(Q) \ {Q[j].pid : j \in 1 .. n}
    <3>1. DueLeft(Q, C, n)
      BY <1>12, <2>4, <2>5, <2>6, <2>7, <2>8 DEF DueLeft
    <3>2. Delta(Q, d) /\ Ticked(e, d)
      BY <1>2, <1>4
    <3> QED
      BY <3>1, <3>2, DeltaWake
  <2>10. Members(W) = {Q[j].pid : j \in 1 .. n} /\ Members(W) \subseteq Sleepers(Q)
    <3>1. \A j \in 1 .. n : j \in 1 .. Len(Q)
      BY <1>2, <2>4
    <3>2. \A j \in 1 .. n : W[j] = Q[j].pid
      BY <1>8, <2>2, <3>1
    <3>3. Len(W) = n
      BY <2>2, <2>4
    <3>4. Members(W) = {W[j] : j \in 1 .. n}
      BY <3>3 DEF Members
    <3> QED
      BY <3>1, <3>2, <3>4 DEF Sleepers
  <2> QED
    BY <1>1, <1>4, <2>3, <2>9, <2>10
<1> QED
  BY <1>11, <1>12
-----------------------------------------------------------------------------
(* Sleeping, messages and kill() *)

LEMMA SleepsNext ==
  ASSUME Delta(clockq', due'), slnempty' = (clockq' # <<>>),
         clockq' # <<>> => sltop' = clockq'[1].pid,
         \A p \in All : pstate'[p] \in SleepState <=> p \in Sleepers(clockq')
  PROVE  Sleeps'
  BY Zenon DEF Sleeps

LEMMA MsgsNext ==
  ASSUME Rule, phasmsg' \in [Procs -> BOOLEAN], cont' \in [All -> Calls],
         pnxtkin' \in [Procs -> Procs \cup {BADPID}], cont'[NULLPROC] = None,
         \A p \in All : cont'[p].op = "kill" => cont'[p].arg \in Procs,
         \A p \in Procs : Agrees(pstate'[p], cont'[p].op, phasmsg'[p])
  PROVE  Msgs'
<1>1. \A p \in All : cont'[p].op = "kill" => cont'[p].arg \notin lockq'
  BY DEF Rule, Dying
<1> QED
  BY <1>1, Zenon DEF Msgs

\* Waiting and sleeping follow the states.
LEMMA MovesKeep ==
  ASSUME KInv, NEW p \in All, Stays(p)
  PROVE  /\ pstate'[p] = "PRWAIT" <=> pstate[p] = "PRWAIT"
         /\ pstate'[p] \in SleepState <=> pstate[p] \in SleepState
         /\ \A op, has : Agrees(pstate[p], op, has) => Agrees(pstate'[p], op, has)
<1>1. (pstate'[p] = "PRWAIT" <=> pstate[p] = "PRWAIT") /\ (pstate'[p] \in SleepState <=> pstate[p] \in SleepState)
  BY DEF Stays, Becomes, Running, SleepState
<1>2. pstate'[p] = pstate[p] \/ (pstate[p] \in Running /\ pstate'[p] \in Running)
  BY DEF Stays, Becomes
<1> QED
  BY <1>1, <1>2, StaysAgrees

LEMMA SleeperIs ==
  ASSUME KInv, NEW p \in Sleepers(clockq)
  PROVE  p \in Procs /\ p \in All /\ pstate[p] \in SleepState
<1>1. p \in Procs
  <2>1. PICK i \in 1 .. Len(clockq) : p = clockq[i].pid
    BY DEF Sleepers
  <2> QED
    BY <2>1, EntryOf DEF KInv, Sleeps
<1> QED
  BY <1>1, Ids DEF KInv, Sleeps

LEMMA TickStep ==
  ASSUME KInv, Rule, Tick, UNCHANGED <<semVars, phasmsg, cont, pnxtkin, lockq>>
  PROVE  KInv'
<1>1. /\ Delta(clockq', due') /\ slnempty' = (clockq' # <<>>)
      /\ clockq' # <<>> => sltop' = clockq'[1].pid
      /\ \/ Sleepers(clockq') = Sleepers(clockq) /\ UNCHANGED schedVars
         \/ \E W : /\ Members(W) \subseteq Sleepers(clockq) /\ Ready(W)
                   /\ Sleepers(clockq') = Sleepers(clockq) \ Members(W)
  BY TickDelta DEF KInv
<1>2. PICK G \in SUBSET Sleepers(clockq) :
        /\ Sleepers(clockq') = Sleepers(clockq) \ G /\ Sched'
        /\ \A p \in All : IF p \in G THEN pstate'[p] \in Running ELSE Stays(p)
  <2>1. CASE Sleepers(clockq') = Sleepers(clockq) /\ UNCHANGED schedVars
    <3>1. Sched' /\ \A p \in All : Stays(p)
      BY <2>1, NobodyMoves
    <3>2. {} \in SUBSET Sleepers(clockq) /\ Sleepers(clockq') = Sleepers(clockq) \ {}
      BY <2>1
    <3>3. \A p \in All : IF p \in {} THEN pstate'[p] \in Running ELSE Stays(p)
      BY <3>1
    <3> QED
      BY <3>1, <3>2, <3>3
  <2>2. ASSUME NEW W, Members(W) \subseteq Sleepers(clockq), Ready(W),
               Sleepers(clockq') = Sleepers(clockq) \ Members(W)
        PROVE  /\ Members(W) \in SUBSET Sleepers(clockq) /\ Sched'
               /\ \A p \in All : IF p \in Members(W) THEN pstate'[p] \in Running ELSE Stays(p)
    <3>1. Members(W) \in SUBSET All
      BY <2>2, SleeperIs
    <3> QED
      BY <2>2, <3>1, ReadySched DEF KInv, Members
  <2> QED
    BY <1>1, <2>1, <2>2
<1>3. ASSUME NEW p \in All
      PROVE  /\ pstate'[p] = "PRWAIT" <=> pstate[p] = "PRWAIT"
             /\ pstate'[p] \in SleepState <=> p \in Sleepers(clockq')
  <2>1. CASE p \in G
    <3>1. pstate[p] \in SleepState /\ pstate'[p] \in Running
      BY <1>2, <2>1, SleeperIs
    <3> QED
      BY <1>2, <2>1, <3>1 DEF SleepState, Running
  <2>2. CASE p \notin G
    <3>1. Stays(p) /\ (pstate[p] \in SleepState <=> p \in Sleepers(clockq))
      BY <1>2, <2>2 DEF KInv, Sleeps
    <3> QED
      BY <1>2, <2>2, <3>1, MovesKeep
  <2> QED
    BY <2>1, <2>2
<1>4. Sleeps'
  BY <1>1, <1>3, SleepsNext
<1>5. Waits'
  BY <1>3, WaitsSame DEF KInv
<1>6. Msgs'
  <2>1. ASSUME NEW p \in Procs  PROVE Agrees(pstate'[p], cont[p].op, phasmsg[p])
    <3>1. Agrees(pstate[p], cont[p].op, phasmsg[p]) /\ p \in All
      BY Ids DEF KInv, Msgs
    <3>2. CASE p \in G
      <4>1. pstate[p] \in SleepState /\ pstate'[p] \in Running
        BY <1>2, <3>1, <3>2, SleeperIs
      <4>2. cont[p].op # "receive"
        BY <3>1, <4>1 DEF Agrees, SleepState
      <4> QED
        BY <4>1, <4>2 DEF Agrees, Running
    <3>3. CASE p \notin G
      BY <1>2, <3>1, <3>3, MovesKeep
    <3> QED
      BY <3>2, <3>3
  <2>2. \A p \in All : cont'[p].op = "kill" => cont'[p].arg \notin lockq'
    BY DEF Rule, Dying
  <2> QED
    BY <2>1, <2>2, MsgsSame DEF KInv
<1> QED
  BY <1>2, <1>4, <1>5, <1>6 DEF KInv

\* The caller p begins or ends a call.
LEMMA DoingIs ==
  ASSUME KInv, NEW p \in Procs, NEW op \in {"none", "receive", "recvtim", "kill"}, NEW arg \in All,
         op = "kill" => arg \in Procs, cont' = [cont EXCEPT ![p] = [op |-> op, arg |-> arg]]
  PROVE  /\ cont' \in [All -> Calls] /\ cont'[NULLPROC] = None
         /\ \A q \in All : cont'[q].op = "kill" => cont'[q].arg \in Procs
         /\ \A q \in All : cont'[q].op = IF q = p THEN op ELSE cont[q].op
<1>1. cont \in [All -> Calls] /\ cont[NULLPROC] = None /\ p \in All /\ p # NULLPROC /\ NULLPROC \in All
  BY Ids DEF KInv, Msgs
<1>2. [op |-> op, arg |-> arg] \in Calls
  BY DEF Calls
<1>3. cont' \in [All -> Calls]
  BY <1>1, <1>2
<1>4. \A q \in All : cont'[q] = IF q = p THEN [op |-> op, arg |-> arg] ELSE cont[q]
  BY <1>1
<1>5. \A q \in All : cont[q].op = "kill" => cont[q].arg \in Procs
  BY DEF KInv, Msgs
<1> QED
  BY <1>1, <1>3, <1>4, <1>5

\* The current process goes to sleep in the state st.
LEMMA AsleepMoves ==
  ASSUME KInv, currpid \in Procs, NEW d \in Delays, NEW st \in SleepState, GoToSleep(d, st),
         UNCHANGED <<semVars, lockq>>
  PROVE  /\ Sched' /\ Waits' /\ Sleeps' /\ pstate'[currpid] = st
         /\ \A p \in All \ {currpid} : Stays(p)
<1>1. currpid # NULLPROC /\ currpid \in All /\ pstate[currpid] = "PRCURR" /\ d \in Nat \ {0}
  BY Ids, DelaysAssumption DEF KInv, Sched
<1>2. Sched' /\ pstate'[currpid] = st /\ \A p \in All \ {currpid} : Stays(p)
  BY <1>1, BlockSched DEF KInv, GoToSleep, SleepState, States, Running
<1>3. currpid \notin Sleepers(clockq)
  BY <1>1 DEF KInv, Sleeps, SleepState
<1>4. /\ Delta(clockq', due') /\ Sleepers(clockq') = Sleepers(clockq) \cup {currpid}
      /\ slnempty' = (clockq' # <<>>)
      /\ clockq' # <<>> => sltop' = clockq'[1].pid
  BY <1>1, <1>3, GoToSleepDelta DEF KInv
<1>5. ASSUME NEW p \in All
      PROVE  /\ pstate'[p] = "PRWAIT" <=> pstate[p] = "PRWAIT"
             /\ pstate'[p] \in SleepState <=> p \in Sleepers(clockq')
  <2>1. CASE p = currpid
    BY <1>1, <1>2, <1>4, <2>1 DEF SleepState
  <2>2. CASE p # currpid
    <3>1. Stays(p) /\ (pstate[p] \in SleepState <=> p \in Sleepers(clockq))
      BY <1>2, <2>2 DEF KInv, Sleeps
    <3> QED
      BY <1>4, <2>2, <3>1, MovesKeep
  <2> QED
    BY <2>1, <2>2
<1>6. Sleeps'
  BY <1>4, <1>5, SleepsNext
<1>7. Waits'
  BY <1>5, WaitsSame DEF KInv
<1> QED
  BY <1>2, <1>6, <1>7

LEMMA SleepStep ==
  ASSUME KInv, Rule, Calling, NEW d \in Delays \cup {0}, Sleep(d),
         UNCHANGED <<semVars, phasmsg, cont, pnxtkin, lockq, lockEntries, inwait>>
  PROVE  KInv'
<1>1. CASE d = 0
  BY <1>1, SliceStep DEF Sleep, Others
<1>2. CASE d # 0
  <2>1. d \in Delays /\ GoToSleep(d, "PRSLEEP") /\ "PRSLEEP" \in SleepState
    BY <1>2 DEF Sleep, SleepState
  <2>2. /\ Sched' /\ Waits' /\ Sleeps' /\ pstate'[currpid] = "PRSLEEP"
        /\ \A p \in All \ {currpid} : Stays(p)
    BY <2>1, Caller, AsleepMoves
  <2>3. ASSUME NEW p \in Procs  PROVE Agrees(pstate'[p], cont[p].op, phasmsg[p])
    <3>1. CASE p = currpid
      BY <2>2, <3>1, Caller, IdleAgrees
    <3>2. CASE p # currpid
      BY <2>2, <3>2, Ids, MovesKeep DEF KInv, Msgs
    <3> QED
      BY <3>1, <3>2
  <2>4. \A p \in All : cont'[p].op = "kill" => cont'[p].arg \notin lockq'
    BY DEF Rule, Dying
  <2>5. Msgs'
    BY <2>3, <2>4, MsgsSame DEF KInv
  <2> QED
    BY <2>2, <2>5 DEF KInv
<1> QED
  BY <1>1, <1>2

LEMMA MessageSlot ==
  ASSUME KInv, NEW p \in Procs
  PROVE  /\ phasmsg[p] = TRUE \/ phasmsg[p] = FALSE
         /\ phasmsg \in [Procs -> BOOLEAN] /\ cont \in [All -> Calls] /\ p \in All
         /\ pnxtkin \in [Procs -> Procs \cup {BADPID}] /\ due \in [Procs -> Nat]
         /\ Agrees(pstate[p], cont[p].op, phasmsg[p])
  BY Ids DEF KInv, Msgs, Sleeps, Delta

\* The current process is in a call of its own and the others stay where they are.
LEMMA CallerStep ==
  ASSUME KInv, Rule, NEW c \in Procs, Sched', UNCHANGED <<semVars, clockVars, pnxtkin, lockq>>,
         pstate[c] # "PRWAIT", pstate'[c] # "PRWAIT",
         pstate[c] \notin SleepState, pstate'[c] \notin SleepState,
         \A p \in All \ {c} : Stays(p),
         NEW op \in {"none", "receive", "recvtim", "kill"}, NEW arg \in All,
         op = "kill" => arg \in Procs, cont' = [cont EXCEPT ![c] = [op |-> op, arg |-> arg]],
         NEW has \in BOOLEAN, phasmsg' = [phasmsg EXCEPT ![c] = has],
         Agrees(pstate'[c], op, has)
  PROVE  KInv'
<1>1. ASSUME NEW p \in All
      PROVE  /\ pstate'[p] = "PRWAIT" <=> pstate[p] = "PRWAIT"
             /\ pstate'[p] \in SleepState <=> pstate[p] \in SleepState
  <2>1. CASE p = c
    BY <2>1
  <2>2. CASE p # c
    BY <2>2, MovesKeep
  <2> QED
    BY <2>1, <2>2
<1>2. UNCHANGED <<semVars, lockq>> /\ UNCHANGED clockVars /\ pnxtkin' = pnxtkin
  OBVIOUS
<1>3. Waits'
  BY <1>1, <1>2, WaitsSame DEF KInv
<1>4. Sleeps'
  BY <1>1, <1>2, SleepsSame DEF KInv
<1>5. /\ cont' \in [All -> Calls] /\ cont'[NULLPROC] = None
      /\ \A q \in All : cont'[q].op = "kill" => cont'[q].arg \in Procs
      /\ \A q \in All : cont'[q].op = IF q = c THEN op ELSE cont[q].op
  BY DoingIs
<1>6. phasmsg' \in [Procs -> BOOLEAN] /\ \A p \in Procs : phasmsg'[p] = IF p = c THEN has ELSE phasmsg[p]
  BY MessageSlot, Zenon
<1>7. ASSUME NEW p \in Procs  PROVE Agrees(pstate'[p], cont'[p].op, phasmsg'[p])
  <2>1. CASE p = c
    <3>1. cont'[p].op = op
      BY <1>5, <2>1, Ids, Zenon
    <3>2. phasmsg'[p] = has
      BY <1>6, <2>1, Zenon
    <3>3. Agrees(pstate'[p], op, has)
      BY <2>1, Zenon
    <3> QED
      BY <3>1, <3>2, <3>3, Zenon
  <2>2. CASE p # c
    <3>1. Stays(p) /\ p \in All /\ Agrees(pstate[p], cont[p].op, phasmsg[p])
      BY <2>2, MessageSlot
    <3>2. Agrees(pstate'[p], cont[p].op, phasmsg[p])
      BY <3>1, MovesKeep, Zenon
    <3>3. cont'[p].op = cont[p].op
      BY <1>5, <2>2, <3>1, Zenon
    <3>4. phasmsg'[p] = phasmsg[p]
      BY <1>6, <2>2, Zenon
    <3> QED
      BY <3>2, <3>3, <3>4, Zenon
  <2> QED
    BY <2>1, <2>2
<1>8. Msgs'
  BY <1>2, <1>5, <1>6, <1>7, MessageSlot, MsgsNext
<1> QED
  BY <1>3, <1>4, <1>8 DEF KInv

LEMMA ReceiveStep ==
  ASSUME KInv, Rule, Calling, Receive, UNCHANGED <<semVars, pnxtkin, lockq>>
  PROVE  KInv'
<1>1. currpid \in Procs /\ currpid \in All /\ pstate[currpid] = "PRCURR" /\ currpid # NULLPROC
  BY Caller, Ids
<1>2. cont' = [cont EXCEPT ![currpid] = [op |-> "receive", arg |-> NULLPROC]]
  BY DEF Receive, Doing
<1>3. UNCHANGED <<semVars, clockVars, pnxtkin, lockq>> /\ phasmsg' = phasmsg
  BY DEF Receive
<1>4. phasmsg' = [phasmsg EXCEPT ![currpid] = phasmsg[currpid]] /\ phasmsg[currpid] \in BOOLEAN
  BY <1>1, <1>3, MessageSlot
<1>5. CASE phasmsg[currpid] = TRUE
  <2>1. Sched' /\ \A p \in All : Stays(p)
    BY <1>5, NobodyMoves DEF Receive
  <2>2. pstate'[currpid] \in Running
    BY <1>1, <2>1 DEF Stays, Becomes, Running
  <2>3. Agrees(pstate'[currpid], "receive", phasmsg[currpid])
    BY <1>5, <2>2 DEF Agrees, Running
  <2> QED
    BY <1>1, <1>2, <1>3, <1>4, <2>1, <2>2, <2>3, Ids, CallerStep DEF Running, SleepState
<1>6. CASE phasmsg[currpid] = FALSE
  <2>1. Sched' /\ pstate'[currpid] = "PRRECV" /\ \A p \in All \ {currpid} : Stays(p)
    BY <1>1, <1>6, BlockSched DEF KInv, Receive, States, Running
  <2>2. Agrees(pstate'[currpid], "receive", phasmsg[currpid])
    BY <1>6, <2>1 DEF Agrees
  <2> QED
    BY <1>1, <1>2, <1>3, <1>4, <2>1, <2>2, Ids, CallerStep DEF SleepState
<1> QED
  BY <1>1, <1>5, <1>6, MessageSlot

\* Whoever is not on the list of sleepers has no time left.
LEMMA AwakeDue ==
  ASSUME KInv, NEW p \in Procs, pstate[p] \notin SleepState
  PROVE  due[p] = 0
  BY Ids DEF KInv, Sleeps, Delta

LEMMA ReceiveEndStep ==
  ASSUME KInv, Rule, ReceiveEnd, UNCHANGED <<semVars, pnxtkin, lockq>>
  PROVE  KInv'
<1>1. currpid \in All /\ pstate[currpid] = "PRCURR"
  BY DEF KInv, Sched
<1>2. currpid \in Procs
  BY <1>1, Ids, NoCall DEF ReceiveEnd, KInv, Msgs
<1>3. cont' = [cont EXCEPT ![currpid] = [op |-> "none", arg |-> NULLPROC]]
  BY DEF ReceiveEnd, Done, None
<1>4. due' = due
  BY <1>1, <1>2, AwakeDue, MessageSlot DEF ReceiveEnd, SleepState
<1>5. UNCHANGED <<semVars, clockVars, pnxtkin, lockq>>
  BY <1>4 DEF ReceiveEnd, clockVars
<1>6. Sched' /\ \A p \in All : Stays(p)
  BY NobodyMoves DEF ReceiveEnd
<1>7. pstate'[currpid] = "PRCURR"
  BY <1>1 DEF ReceiveEnd, schedVars
<1>8. Agrees(pstate'[currpid], "none", FALSE)
  BY <1>7 DEF Agrees
<1>9. phasmsg' = [phasmsg EXCEPT ![currpid] = FALSE]
  BY DEF ReceiveEnd
<1> QED
  BY <1>1, <1>2, <1>3, <1>5, <1>6, <1>7, <1>8, <1>9, Ids, CallerStep DEF SleepState

LEMMA RecvclrStep ==
  ASSUME KInv, Rule, Calling, Recvclr, UNCHANGED <<semVars, pnxtkin, lockq>>
  PROVE  KInv'
<1>1. currpid \in Procs /\ currpid \in All /\ pstate[currpid] = "PRCURR" /\ cont[currpid].op = "none"
  BY Caller
<1>2. cont' = [cont EXCEPT ![currpid] = [op |-> "none", arg |-> cont[currpid].arg]] /\ cont[currpid].arg \in All
  <2>1. cont \in [All -> Calls] /\ cont[currpid] \in Calls /\ cont' = cont
    BY <1>1, MessageSlot DEF Recvclr
  <2>2. cont[currpid] = [op |-> "none", arg |-> cont[currpid].arg] /\ cont[currpid].arg \in All
    BY <1>1, <2>1 DEF Calls
  <2> QED
    BY <1>1, <2>1, <2>2
<1>3. UNCHANGED <<semVars, clockVars, pnxtkin, lockq>>
  BY DEF Recvclr
<1>4. Sched' /\ \A p \in All : Stays(p)
  BY NobodyMoves DEF Recvclr
<1>5. pstate'[currpid] = "PRCURR"
  BY <1>1 DEF Recvclr, schedVars
<1>6. Agrees(pstate'[currpid], "none", FALSE)
  BY <1>5 DEF Agrees
<1>7. phasmsg' = [phasmsg EXCEPT ![currpid] = FALSE]
  BY DEF Recvclr
<1> QED
  BY <1>1, <1>2, <1>3, <1>4, <1>5, <1>6, <1>7, CallerStep DEF SleepState

LEMMA RecvtimStep ==
  ASSUME KInv, Rule, Calling, NEW d \in Delays, Recvtim(d), UNCHANGED <<semVars, pnxtkin, lockq>>
  PROVE  KInv'
<1>1. currpid \in Procs /\ currpid \in All /\ pstate[currpid] = "PRCURR" /\ currpid # NULLPROC
  BY Caller, Ids
<1>2. cont' = [cont EXCEPT ![currpid] = [op |-> "recvtim", arg |-> NULLPROC]]
  BY DEF Recvtim, Doing
<1>3. UNCHANGED <<semVars, pnxtkin, lockq>> /\ phasmsg' = phasmsg /\ UNCHANGED <<semVars, lockq>> /\ pnxtkin' = pnxtkin
  BY DEF Recvtim
<1>4. phasmsg' = [phasmsg EXCEPT ![currpid] = phasmsg[currpid]] /\ phasmsg[currpid] \in BOOLEAN
  BY <1>1, <1>3, MessageSlot
<1>5. CASE phasmsg[currpid] = TRUE
  <2>1. UNCHANGED clockVars /\ UNCHANGED schedVars
    BY <1>5 DEF Recvtim
  <2>2. Sched' /\ \A p \in All : Stays(p)
    BY <2>1, NobodyMoves
  <2>3. pstate'[currpid] \in Running
    BY <1>1, <2>2 DEF Stays, Becomes, Running
  <2>4. Agrees(pstate'[currpid], "recvtim", phasmsg[currpid])
    BY <1>5, <2>3 DEF Agrees, Running
  <2>5. UNCHANGED <<semVars, clockVars, pnxtkin, lockq>>
    BY <1>3, <2>1
  <2> QED
    BY <1>1, <1>2, <1>4, <2>2, <2>3, <2>4, <2>5, Ids, CallerStep DEF Running, SleepState
<1>6. CASE phasmsg[currpid] = FALSE
  <2>1. GoToSleep(d, "PRTRECV") /\ "PRTRECV" \in SleepState
    BY <1>6 DEF Recvtim, SleepState
  <2>2. /\ Sched' /\ Waits' /\ Sleeps' /\ pstate'[currpid] = "PRTRECV"
        /\ \A p \in All \ {currpid} : Stays(p)
    BY <1>1, <1>3, <2>1, AsleepMoves
  <2>3. /\ cont' \in [All -> Calls] /\ cont'[NULLPROC] = None
        /\ \A q \in All : cont'[q].op = "kill" => cont'[q].arg \in Procs
        /\ \A q \in All : cont'[q].op = IF q = currpid THEN "recvtim" ELSE cont[q].op
    BY <1>1, <1>2, Ids, DoingIs
  <2>4. ASSUME NEW p \in Procs  PROVE Agrees(pstate'[p], cont'[p].op, phasmsg'[p])
    <3>1. CASE p = currpid
      BY <1>1, <1>3, <1>6, <2>2, <2>3, <3>1 DEF Agrees
    <3>2. CASE p # currpid
      BY <1>3, <2>2, <2>3, <3>2, MessageSlot, MovesKeep
    <3> QED
      BY <3>1, <3>2
  <2>5. phasmsg' \in [Procs -> BOOLEAN] /\ pnxtkin' \in [Procs -> Procs \cup {BADPID}]
    BY <1>1, <1>3, MessageSlot
  <2>6. Msgs'
    BY <2>3, <2>4, <2>5, MsgsNext
  <2> QED
    BY <2>2, <2>6 DEF KInv
<1> QED
  BY <1>1, <1>5, <1>6, MessageSlot

LEMMA TypesOf ==
  ASSUME KInv
  PROVE  /\ cont \in [All -> Calls] /\ cont[NULLPROC] = None
         /\ pnxtkin \in [Procs -> Procs \cup {BADPID}] /\ phasmsg \in [Procs -> BOOLEAN]
         /\ \A p \in All : cont[p].op = "kill" => cont[p].arg \in Procs
  BY DEF KInv, Msgs

\* A message for p wakes p when it waits for one, and nobody else moves.
LEMMA DeliverMoves ==
  ASSUME KInv, NEW p \in Procs \cup {BADPID}, Deliver(p)
  PROVE  /\ Sched' /\ Sleeps' /\ phasmsg' \in [Procs -> BOOLEAN]
         /\ \A q \in All : pstate'[q] = "PRWAIT" <=> pstate[q] = "PRWAIT"
         /\ \A q \in All : pstate[q] \in Running => pstate'[q] \in Running
         /\ \A q \in Procs : Agrees(pstate'[q], cont[q].op, phasmsg'[q])
<1>1. CASE ~Deliverable(p)
  <2>1. phasmsg' = phasmsg /\ UNCHANGED clockVars /\ UNCHANGED schedVars
    BY <1>1 DEF Deliver
  <2>2. Sched' /\ \A q \in All : Stays(q)
    BY <2>1, NobodyMoves
  <2>3. Sleeps'
    BY <2>1, <2>2, MovesKeep, SleepsSame DEF KInv
  <2>4. ASSUME NEW q \in Procs  PROVE Agrees(pstate'[q], cont[q].op, phasmsg'[q])
    BY <2>1, <2>2, MessageSlot, MovesKeep
  <2>5. \A q \in All : pstate[q] \in Running => pstate'[q] \in Running
    BY <2>2 DEF Stays, Becomes
  <2> QED
    BY <2>1, <2>2, <2>3, <2>4, <2>5, MovesKeep, TypesOf
<1>2. CASE Deliverable(p)
  <2>1. p \in Procs /\ p \in All /\ ~phasmsg[p] /\ phasmsg' = [phasmsg EXCEPT ![p] = TRUE]
    BY <1>2, Ids DEF Deliver, Deliverable
  <2>2. phasmsg' \in [Procs -> BOOLEAN] /\ \A q \in Procs : phasmsg'[q] = IF q = p THEN TRUE ELSE phasmsg[q]
    BY <2>1, TypesOf, Zenon
  <2>3. /\ pstate[p] = "PRTRECV" => Unsleep(p)
        /\ pstate[p] # "PRTRECV" => UNCHANGED clockVars
        /\ pstate[p] \in Receiving => Ready(<<p>>)
        /\ pstate[p] \notin Receiving => UNCHANGED schedVars
    BY <1>2 DEF Deliver, StopSleeping
  <2>4. CASE pstate[p] \in Receiving
    <3>1. Sched' /\ pstate'[p] \in Running /\ \A q \in All \ {p} : Stays(q)
      BY <2>1, <2>3, <2>4, ReadyOne DEF KInv
    <3>2. /\ Delta(clockq', due') /\ slnempty' = (clockq' # <<>>)
          /\ clockq' # <<>> => sltop' = clockq'[1].pid
          /\ Sleepers(clockq') = Sleepers(clockq) \ {p}
      <4>1. CASE pstate[p] = "PRTRECV"
        <5>1. p \in Sleepers(clockq) /\ Unsleep(p)
          BY <2>1, <2>3, <4>1 DEF KInv, Sleeps, SleepState
        <5> QED
          BY <5>1, UnsleepDelta DEF KInv
      <4>2. CASE pstate[p] # "PRTRECV"
        <5>1. UNCHANGED clockVars /\ p \notin Sleepers(clockq)
          BY <2>1, <2>3, <2>4, <4>2 DEF KInv, Sleeps, SleepState, Receiving
        <5>2. UNCHANGED <<clockq, slnempty, sltop, due>>
          BY <5>1 DEF clockVars
        <5>3. Sleeps
          BY DEF KInv
        <5> QED
          BY <5>1, <5>2, <5>3, Zenon DEF Sleeps
      <4> QED
        BY <4>1, <4>2
    <3>3. ASSUME NEW q \in All
          PROVE  /\ pstate'[q] = "PRWAIT" <=> pstate[q] = "PRWAIT"
                 /\ pstate'[q] \in SleepState <=> q \in Sleepers(clockq')
                 /\ pstate[q] \in Running => pstate'[q] \in Running
      <4>1. CASE q = p
        BY <2>4, <3>1, <3>2, <4>1 DEF Receiving, Running, SleepState
      <4>2. CASE q # p
        <5>1. Stays(q) /\ (pstate[q] \in SleepState <=> q \in Sleepers(clockq))
          BY <3>1, <4>2 DEF KInv, Sleeps
        <5>2. pstate[q] \in Running => pstate'[q] \in Running
          BY <5>1 DEF Stays, Becomes
        <5> QED
          BY <3>2, <4>2, <5>1, <5>2, MovesKeep
      <4> QED
        BY <4>1, <4>2
    <3>4. Sleeps'
      BY <3>2, <3>3, SleepsNext
    <3>5. ASSUME NEW q \in Procs  PROVE Agrees(pstate'[q], cont[q].op, phasmsg'[q])
      <4>1. CASE q = p
        <5>1. phasmsg'[q] = TRUE
          BY <2>2, <4>1
        <5>2. pstate'[q] \in Running
          BY <3>1, <4>1
        <5> QED
          BY <5>1, <5>2 DEF Agrees, Running
      <4>2. CASE q # p
        <5>1. phasmsg'[q] = phasmsg[q] /\ Stays(q)
          BY <2>2, <3>1, <4>2, Ids, Zenon
        <5> QED
          BY <5>1, MessageSlot, MovesKeep, Zenon
      <4> QED
        BY <4>1, <4>2
    <3> QED
      BY <2>2, <3>1, <3>3, <3>4, <3>5
  <2>5. CASE pstate[p] \notin Receiving
    <3>1. UNCHANGED clockVars /\ UNCHANGED schedVars
      BY <2>3, <2>5 DEF Receiving
    <3>2. Sched' /\ \A q \in All : Stays(q)
      BY <3>1, NobodyMoves
    <3>3. Sleeps'
      BY <3>1, <3>2, MovesKeep, SleepsSame DEF KInv
    <3>4. ASSUME NEW q \in Procs  PROVE Agrees(pstate'[q], cont[q].op, phasmsg'[q])
      <4>1. Agrees(pstate'[q], cont[q].op, phasmsg[q])
        BY <3>2, MessageSlot, MovesKeep, Zenon
      <4>2. CASE q = p
        <5>1. phasmsg'[q] = TRUE /\ pstate'[q] = pstate[q]
          BY <2>2, <3>1, <4>2 DEF schedVars
        <5> QED
          BY <2>5, <4>1, <4>2, <5>1 DEF Agrees, Receiving
      <4>3. CASE q # p
        <5>1. phasmsg'[q] = phasmsg[q]
          BY <2>2, <4>3, Zenon
        <5> QED
          BY <4>1, <5>1, Zenon
      <4> QED
        BY <4>2, <4>3
    <3>5. \A q \in All : pstate[q] \in Running => pstate'[q] \in Running
      BY <3>2 DEF Stays, Becomes
    <3> QED
      BY <2>2, <3>2, <3>3, <3>4, <3>5, MovesKeep
  <2> QED
    BY <2>4, <2>5
<1> QED
  BY <1>1, <1>2

LEMMA SendStep ==
  ASSUME KInv, Rule, NEW p \in Procs, Send(p), UNCHANGED <<semVars, pnxtkin, lockq>>
  PROVE  KInv'
<1>1. /\ Sched' /\ Sleeps' /\ phasmsg' \in [Procs -> BOOLEAN]
      /\ \A q \in All : pstate'[q] = "PRWAIT" <=> pstate[q] = "PRWAIT"
      /\ \A q \in Procs : Agrees(pstate'[q], cont[q].op, phasmsg'[q])
  BY DeliverMoves DEF Send
<1>2. cont' = cont /\ pnxtkin' = pnxtkin /\ UNCHANGED <<semVars, lockq>>
  BY DEF Send
<1>3. Waits'
  BY <1>1, <1>2, WaitsSame DEF KInv
<1>4. Msgs'
  BY <1>1, <1>2, TypesOf, MsgsNext
<1> QED
  BY <1>1, <1>3, <1>4 DEF KInv

LEMMA KillStep ==
  ASSUME KInv, Rule, Calling, NEW p \in Procs, Kill(p)
  PROVE  KInv'
<1>1. currpid \in Procs /\ currpid \in All /\ pstate[currpid] = "PRCURR"
  BY Caller
<1>2. pnxtkin[p] \in Procs \cup {BADPID} /\ Deliver(pnxtkin[p])
  BY TypesOf DEF Kill
<1>3. /\ Sched' /\ Sleeps' /\ phasmsg' \in [Procs -> BOOLEAN]
      /\ \A q \in All : pstate'[q] = "PRWAIT" <=> pstate[q] = "PRWAIT"
      /\ \A q \in All : pstate[q] \in Running => pstate'[q] \in Running
      /\ \A q \in Procs : Agrees(pstate'[q], cont[q].op, phasmsg'[q])
  BY <1>2, DeliverMoves
<1>4. cont' = [cont EXCEPT ![currpid] = [op |-> "kill", arg |-> p]] /\ p \in All
  BY Ids DEF Kill, Doing
<1>5. pnxtkin' = pnxtkin /\ UNCHANGED <<semVars, lockq>>
  BY DEF Kill
<1>6. /\ cont' \in [All -> Calls] /\ cont'[NULLPROC] = None
      /\ \A q \in All : cont'[q].op = "kill" => cont'[q].arg \in Procs
      /\ \A q \in All : cont'[q].op = IF q = currpid THEN "kill" ELSE cont[q].op
  BY <1>1, <1>4, DoingIs
<1>7. ASSUME NEW q \in Procs  PROVE Agrees(pstate'[q], cont'[q].op, phasmsg'[q])
  <2>1. CASE q = currpid
    <3>1. cont'[q].op = "kill"
      BY <1>1, <1>6, <2>1
    <3>2. pstate'[q] \in Running
      BY <1>1, <1>3, <2>1 DEF Running
    <3> QED
      BY <3>1, <3>2 DEF Agrees, Running
  <2>2. CASE q # currpid
    <3>1. cont'[q].op = cont[q].op
      BY <1>6, <2>2, Ids
    <3> QED
      BY <1>3, <3>1, Zenon
  <2> QED
    BY <2>1, <2>2
<1>8. Waits'
  BY <1>3, <1>5, WaitsSame DEF KInv
<1>9. Msgs'
  BY <1>3, <1>5, <1>6, <1>7, TypesOf, MsgsNext
<1> QED
  BY <1>3, <1>8, <1>9 DEF KInv

\* The process that is killed leaves the CPU or the ready list.
LEMMA KilledMoves ==
  ASSUME KInv, KillEnd, NEW p, p = cont[currpid].arg
  PROVE  /\ Sched' /\ p \in Procs /\ p \in All /\ currpid \in Procs /\ p \notin lockq
         /\ pstate'[p] = "PRFREE" /\ \A q \in All \ {p} : Stays(q)
<1>1. cont[currpid].op = "kill" /\ currpid \in All
  BY DEF KInv, Sched, KillEnd
<1>2. currpid \in Procs /\ p \in Procs /\ p \in All /\ p \notin lockq
  BY <1>1, Ids, NoCall DEF KInv, Msgs
<1>3. CASE p = currpid
  <2>1. Block("PRFREE") /\ currpid # NULLPROC
    BY <1>2, <1>3, Ids DEF KillEnd
  <2>2. Sched' /\ pstate'[currpid] = "PRFREE" /\ \A q \in All \ {currpid} : Stays(q)
    BY <2>1, BlockSched DEF KInv, States, Running
  <2> QED
    BY <1>2, <1>3, <2>2
<1>4. CASE p # currpid
  <2>1. /\ pstate' = [pstate EXCEPT ![p] = "PRFREE"] /\ currpid' = currpid
        /\ rdy' = IF pstate[p] = "PRREADY" THEN Remove(rdy, {p}) ELSE rdy
    BY <1>4 DEF KillEnd
  <2>2. Sched /\ p # NULLPROC
    BY <1>2, Ids DEF KInv
  <2>3. \A q \in All : pstate'[q] = IF q = p THEN "PRFREE" ELSE pstate[q]
    BY <2>1, <2>2 DEF Sched
  <2>4. Pids(rdy') = Pids(rdy) \ {p}
    <3>1. CASE pstate[p] = "PRREADY"
      BY <2>1, <3>1, PidsRemove
    <3>2. CASE pstate[p] # "PRREADY"
      BY <1>2, <2>1, <2>2, <3>2 DEF Sched
    <3> QED
      BY <3>1, <3>2
  <2>5. Sched'
    <3>1. pstate' \in [All -> States]
      BY <2>1, <2>2 DEF Sched, States
    <3>2. currpid' \in All /\ Pids(rdy') \subseteq All
      BY <2>1, <2>2, <2>4 DEF Sched
    <3>3. \A q \in All : (pstate'[q] = "PRCURR" <=> q = currpid') /\ (pstate'[q] = "PRREADY" <=> q \in Pids(rdy'))
      BY <1>4, <2>1, <2>2, <2>3, <2>4 DEF Sched
    <3>4. pstate'[NULLPROC] \in Running
      BY <2>2, <2>3, Ids DEF Sched
    <3> QED
      BY <3>1, <3>2, <3>3, <3>4 DEF Sched
  <2> QED
    BY <1>2, <2>3, <2>5 DEF Stays, Becomes
<1> QED
  BY <1>3, <1>4

\* It leaves the queue of its semaphore, whose count is raised.
LEMMA KilledWaits ==
  ASSUME KInv, KillEnd
  PROVE  Waits'
<1>1. PICK p : p = cont[currpid].arg
  OBVIOUS
<1>2. /\ Sched' /\ p \in Procs /\ p \in All /\ p \notin lockq
      /\ pstate'[p] = "PRFREE" /\ \A q \in All \ {p} : Stays(q)
  BY <1>1, KilledMoves
<1>3. CASE pstate[p] # "PRWAIT"
  <2>1. UNCHANGED <<semVars, lockq>>
    BY <1>1, <1>3 DEF KillEnd
  <2>2. \A q \in All : pstate'[q] = "PRWAIT" <=> pstate[q] = "PRWAIT"
    <3>1. ASSUME NEW q \in All PROVE pstate'[q] = "PRWAIT" <=> pstate[q] = "PRWAIT"
      <4>1. CASE q = p
        BY <1>2, <1>3, <4>1
      <4>2. CASE q # p
        BY <1>2, <4>2, MovesKeep
      <4> QED
        BY <4>1, <4>2
    <3> QED
      BY <3>1
  <2> QED
    BY <2>1, <2>2, WaitsSame DEF KInv
<1>4. CASE pstate[p] = "PRWAIT"
  <2>1. PICK s : s = psem[p]
    OBVIOUS
  <2>2. s \in Sems /\ p \in Members(semq[s])
    BY <1>2, <1>4, <2>1 DEF KInv, Waits
  <2>3. /\ semcnt' = [semcnt EXCEPT ![s] = semcnt[s] + 1]
        /\ semq' = [t \in Sems |-> Without(semq[t], p)]
        /\ sstate' = sstate /\ psem' = psem /\ lockq' = lockq /\ Bar(p)
    BY <1>1, <1>2, <1>4, <2>1 DEF KillEnd, LeaveQueue, Unwait
  <2>4. /\ \A t \in Sems : semq[t] \in Seq(All) /\ Distinct(semq[t])
        /\ \A t \in Sems : Len(semq[t]) = IF sstate[t] = "SUSED" /\ semcnt[t] < 0 THEN -semcnt[t] ELSE 0
        /\ semcnt \in [Sems -> Int] /\ sstate \in [Sems -> {"SFREE", "SUSED"}]
        /\ psem \in [All -> Sems] /\ pwaitret \in [All -> {"OK", "DELETED"}] /\ lockq \subseteq All
    BY DEF KInv, Waits
  <2>5. ASSUME NEW t \in Sems
        PROVE  /\ semq'[t] \in Seq(All) /\ Distinct(semq'[t]) /\ Members(semq'[t]) = Members(semq[t]) \ {p}
               /\ Len(semq'[t]) = IF p \in Members(semq[t]) THEN Len(semq[t]) - 1 ELSE Len(semq[t])
    <3>1. semq'[t] = Without(semq[t], p)
      BY <2>3
    <3> QED
      BY <2>4, <3>1, WithoutMembers
  <2>6. \A t \in Sems : p \in Members(semq[t]) <=> t = s
    BY <2>1, <2>2, OnQueue
  <2>7. \A t \in Sems : semcnt'[t] = IF t = s THEN semcnt[s] + 1 ELSE semcnt[t]
    BY <2>2, <2>3, <2>4
  <2>8. ASSUME NEW t \in Sems
        PROVE  Len(semq'[t]) = IF sstate'[t] = "SUSED" /\ semcnt'[t] < 0 THEN -semcnt'[t] ELSE 0
    <3>1. CASE t = s
      <4>1. Len(semq'[t]) = Len(semq[t]) - 1
        BY <2>5, <2>6, <3>1
      <4>2. Len(semq[t]) # 0
        BY <2>2, <3>1 DEF Members
      <4>3. sstate[t] = "SUSED" /\ semcnt[t] < 0 /\ Len(semq[t]) = -semcnt[t] /\ semcnt[t] \in Int
        BY <2>4, <4>2
      <4>4. semcnt'[t] = semcnt[t] + 1 /\ sstate'[t] = "SUSED"
        BY <2>3, <2>7, <3>1, <4>3
      <4> QED
        BY <4>1, <4>3, <4>4
    <3>2. CASE t # s
      <4>1. Len(semq'[t]) = Len(semq[t])
        BY <2>5, <2>6, <3>2
      <4>2. semcnt'[t] = semcnt[t] /\ sstate'[t] = sstate[t]
        BY <2>3, <2>7, <3>2
      <4> QED
        BY <2>4, <4>1, <4>2
    <3> QED
      BY <3>1, <3>2
  <2>9. ASSUME NEW t \in Sems, NEW q \in Members(semq'[t])
        PROVE  pstate'[q] = "PRWAIT" /\ psem'[q] = t /\ q \notin lockq'
    <3>1. q # p /\ q \in Members(semq[t])
      BY <2>5
    <3>2. q \in All /\ pstate[q] = "PRWAIT" /\ psem[q] = t /\ q \notin lockq
      BY <3>1, OnQueue DEF KInv, Waits
    <3> QED
      BY <1>2, <2>3, <3>1, <3>2, MovesKeep
  <2>10. \A q \in lockq' : pstate'[q] = "PRWAIT"
    BY <1>2, <2>3, <2>4, MovesKeep DEF KInv, Waits
  <2>11. ASSUME NEW q \in All, pstate'[q] = "PRWAIT"
         PROVE  q \in lockq' \/ q \in Members(semq'[psem'[q]])
    <3>1. q # p
      BY <1>2, <2>11
    <3>2. pstate[q] = "PRWAIT"
      BY <1>2, <2>11, <3>1, MovesKeep
    <3>3. q \in lockq \/ q \in Members(semq[psem[q]])
      BY <3>2 DEF KInv, Waits
    <3>4. psem[q] \in Sems /\ psem'[q] = psem[q]
      BY <2>3, <2>4
    <3> QED
      BY <2>3, <2>5, <3>1, <3>3, <3>4
  <2>12. semcnt' \in [Sems -> Int] /\ semq' \in [Sems -> Seq(All)]
    <3>1. semcnt' \in [Sems -> Int]
      BY <2>2, <2>3, <2>4
    <3>2. \A t \in Sems : Without(semq[t], p) \in Seq(All)
      BY <2>3, <2>5
    <3> QED
      BY <2>3, <3>1, <3>2
  <2>13. sstate' \in [Sems -> {"SFREE", "SUSED"}] /\ psem' \in [All -> Sems]
    BY <2>3, <2>4
  <2>14. pwaitret' \in [All -> {"OK", "DELETED"}] /\ lockq' \subseteq All
    BY <2>3, <2>4 DEF Bar
  <2>15. \A t \in Sems : Distinct(semq'[t])
    BY <2>5
  <2> QED
    BY <2>8, <2>9, <2>10, <2>11, <2>12, <2>13, <2>14, <2>15, Zenon DEF Waits
<1> QED
  BY <1>3, <1>4

\* The killed process leaves the list of sleepers.
LEMMA KilledSleeps ==
  ASSUME KInv, KillEnd
  PROVE  Sleeps'
<1>1. PICK p : p = cont[currpid].arg
  OBVIOUS
<1>2. /\ Sched' /\ p \in Procs /\ p \in All
      /\ pstate'[p] = "PRFREE" /\ \A q \in All \ {p} : Stays(q)
  BY <1>1, KilledMoves
<1>3. /\ Delta(clockq', due') /\ slnempty' = (clockq' # <<>>)
      /\ clockq' # <<>> => sltop' = clockq'[1].pid
      /\ Sleepers(clockq') = Sleepers(clockq) \ {p}
  <2>1. CASE pstate[p] \in SleepState
    <3>1. p \in Sleepers(clockq) /\ Unsleep(p)
      BY <1>1, <1>2, <2>1 DEF KillEnd, KInv, Sleeps, SleepState
    <3> QED
      BY <3>1, UnsleepDelta DEF KInv
  <2>2. CASE pstate[p] \notin SleepState
    <3>1. due' = [due EXCEPT ![p] = 0] /\ UNCHANGED <<clockq, slnempty, sltop>>
      BY <1>1, <2>2 DEF KillEnd, SleepState
    <3>2. due' = due
      BY <1>2, <2>2, <3>1, AwakeDue, MessageSlot
    <3>3. p \notin Sleepers(clockq)
      BY <1>2, <2>2 DEF KInv, Sleeps
    <3>4. Sleeps /\ clockq' = clockq /\ slnempty' = slnempty /\ sltop' = sltop
      BY <3>1 DEF KInv
    <3> QED
      BY <3>2, <3>3, <3>4, Zenon DEF Sleeps
  <2> QED
    BY <2>1, <2>2
<1>4. ASSUME NEW q \in All  PROVE pstate'[q] \in SleepState <=> q \in Sleepers(clockq')
  <2>1. CASE q = p
    BY <1>2, <1>3, <2>1 DEF SleepState
  <2>2. CASE q # p
    <3>1. Stays(q) /\ (pstate[q] \in SleepState <=> q \in Sleepers(clockq))
      BY <1>2, <2>2 DEF KInv, Sleeps
    <3> QED
      BY <1>3, <2>2, <3>1, MovesKeep
  <2> QED
    BY <2>1, <2>2
<1> QED
  BY <1>3, <1>4, SleepsNext

LEMMA KillEndStep ==
  ASSUME KInv, Rule, KillEnd
  PROVE  KInv'
<1>1. PICK p : p = cont[currpid].arg
  OBVIOUS
<1>2. /\ Sched' /\ p \in Procs /\ p \in All /\ currpid \in Procs /\ currpid \in All
      /\ pstate'[p] = "PRFREE" /\ \A q \in All \ {p} : Stays(q)
  BY <1>1, KilledMoves, Ids
<1>3. phasmsg' = phasmsg /\ pnxtkin' = pnxtkin
  BY DEF KillEnd
<1>4. cont' = [cont EXCEPT ![p] = None, ![currpid] = None]
  BY <1>1 DEF KillEnd
<1>5. cont' \in [All -> Calls]
  BY <1>2, <1>4, NoCall, TypesOf
<1>6. \A q \in All : cont'[q] = IF q = p \/ q = currpid THEN None ELSE cont[q]
  BY <1>2, <1>4, TypesOf
<1>7. \A q \in All : cont'[q].op = "kill" => cont'[q].arg \in Procs
  BY <1>6, NoCall, TypesOf
<1>8. cont'[NULLPROC] = None
  BY <1>6, Ids, TypesOf
<1>9. ASSUME NEW q \in Procs  PROVE Agrees(pstate'[q], cont'[q].op, phasmsg'[q])
  <2>1. CASE q = p
    <3>1. pstate'[q] = "PRFREE" /\ cont'[q].op = "none"
      BY <1>2, <1>6, <2>1, NoCall
    <3> QED
      BY <3>1 DEF Agrees
  <2>2. CASE q # p /\ q = currpid
    <3>1. pstate'[q] \in Running /\ cont'[q].op = "none"
      <4>1. Stays(q) /\ pstate[q] = "PRCURR"
        BY <1>2, <2>2 DEF KInv, Sched
      <4> QED
        BY <1>2, <1>6, <2>2, <4>1, NoCall DEF Stays, Becomes, Running
    <3> QED
      BY <3>1 DEF Agrees, Running
  <2>3. CASE q # p /\ q # currpid
    <3>1. Agrees(pstate'[q], cont[q].op, phasmsg[q])
      BY <1>2, <2>3, MessageSlot, MovesKeep, Zenon
    <3>2. cont'[q] = cont[q] /\ phasmsg'[q] = phasmsg[q]
      BY <1>3, <1>6, <2>3, Ids
    <3> QED
      BY <3>1, <3>2, Zenon
  <2> QED
    BY <2>1, <2>2, <2>3
<1>10. Msgs'
  BY <1>3, <1>5, <1>7, <1>8, <1>9, TypesOf, MsgsNext
<1> QED
  BY <1>2, <1>10, KilledWaits, KilledSleeps DEF KInv

\* Nothing of what KInv speaks of changes.
LEMMA NothingStep ==
  ASSUME KInv, UNCHANGED <<semVars, lockq>>, UNCHANGED clockVars, UNCHANGED schedVars,
         UNCHANGED <<phasmsg, cont, pnxtkin>>
  PROVE  KInv'
<1>1. Sched' /\ \A p \in All : Stays(p)
  BY NobodyMoves
<1>2. Waits' /\ Sleeps'
  BY <1>1, MovesKeep, WaitsSame, SleepsSame DEF KInv
<1>3. \A p \in Procs : Agrees(pstate'[p], cont[p].op, phasmsg[p])
  BY <1>1, MessageSlot, MovesKeep, Zenon
<1>4. \A p \in All : cont'[p].op = "kill" => cont'[p].arg \notin lockq'
  BY DEF KInv, Msgs
<1>5. Msgs'
  BY <1>3, <1>4, MsgsSame DEF KInv
<1> QED
  BY <1>1, <1>2, <1>5 DEF KInv

\* lock() of a free lock writes to the entry of its caller only.
LEMMA LockTakenStep == ASSUME KInv, Rule, NEW l \in Locks, LockTaken(l) PROVE KInv'
<1>1. /\ UNCHANGED <<semVars, lockq>> /\ UNCHANGED clockVars /\ UNCHANGED schedVars
      /\ UNCHANGED <<phasmsg, cont, pnxtkin>>
  BY DEF LockTaken
<1> QED
  BY <1>1, NothingStep

\* wait() that returns.
LEMMA WaitEndStep == ASSUME KInv, Rule, WaitEnd PROVE KInv'
<1>1. /\ UNCHANGED <<semVars, lockq>> /\ UNCHANGED clockVars /\ UNCHANGED schedVars
      /\ UNCHANGED <<phasmsg, cont, pnxtkin>>
  BY DEF WaitEnd
<1> QED
  BY <1>1, NothingStep

LEMMA KStep == KInv /\ [Next /\ Rule]_vars => KInv'
<1> SUFFICES ASSUME KInv, [Next /\ Rule]_vars PROVE KInv'
  OBVIOUS
<1>1. CASE UNCHANGED vars
  <2>1. /\ UNCHANGED <<semVars, lockq>> /\ UNCHANGED clockVars /\ UNCHANGED schedVars
        /\ UNCHANGED <<phasmsg, cont, pnxtkin>>
    BY <1>1 DEF vars, semVars, clockVars, schedVars
  <2> QED
    BY <2>1, NothingStep
<1>2. CASE Rule /\ Continue
  BY <1>2, ReceiveEndStep, WaitEndStep, KillEndStep DEF Continue
<1>3. CASE Rule /\ Interrupt
  BY <1>3, TickStep, SliceStep DEF Interrupt, ClockTick
<1>4. CASE Rule /\ Call
  <2>1. Rule /\ Calling /\ currpid \in Procs /\ currpid # NULLPROC
    BY <1>4, Caller, Ids DEF Call
  <2>2. CASE /\ SemCall \/ \E s \in Sems : Wait(s)
             /\ UNCHANGED <<clockVars, phasmsg, cont, pnxtkin, lockq>>
    BY <2>1, <2>2, SemStep
  <2>3. CASE (\E p \in Procs : Send(p)) /\ UNCHANGED <<semVars, pnxtkin, lockq>>
    BY <2>1, <2>3, SendStep
  <2>4. CASE (Receive \/ Recvclr \/ \E d \in Delays : Recvtim(d)) /\ UNCHANGED <<semVars, pnxtkin, lockq>>
    BY <2>1, <2>4, ReceiveStep, RecvclrStep, RecvtimStep
  <2>5. CASE /\ \E d \in Delays \cup {0} : Sleep(d)
             /\ UNCHANGED <<semVars, phasmsg, cont, pnxtkin, lockq, lockEntries, inwait>>
    BY <2>1, <2>5, SleepStep
  <2>6. CASE (\E p \in Procs : Suspend(p) \/ Resume(p)) /\ Others
    BY <2>1, <2>6, SuspendStep, ResumeStep
  <2>7. CASE \E p \in Procs : Create(p)
    BY <2>1, <2>7, CreateStep
  <2>8. CASE \E p \in Procs : Setnok(currpid, p)
    BY <2>1, <2>8, SetnokStep
  <2>9. CASE \E p \in Procs : Kill(p)
    BY <2>1, <2>9, KillStep
  <2>10. CASE (\E l \in Locks : LockTaken(l) \/ LockWait(l)) \/ \E p \in Procs : LockGranted(p)
    BY <2>1, <2>10, LockWaitStep, LockTakenStep, LockGrantedStep
  <2> QED
    BY <1>4, <2>2, <2>3, <2>4, <2>5, <2>6, <2>7, <2>8, <2>9, <2>10 DEF Call
<1> QED
  BY <1>1, <1>2, <1>3, <1>4 DEF Next

LEMMA KAlways == ClientSpec => []KInv
BY KInit, KStep, PTL DEF ClientSpec
-----------------------------------------------------------------------------
(* What follows from the invariant *)

\* A list on which nobody is twice has as many entries as processes.
LEMMA AsManyAsleep ==
  ASSUME KInv
  PROVE  Cardinality(Sleepers(clockq)) = Len(clockq)
<1>1. /\ clockq \in Seq(Entries) /\ Len(clockq) \in Nat
      /\ \A i, j \in 1 .. Len(clockq) : clockq[i].pid = clockq[j].pid => i = j
  BY LenProperties DEF KInv, Sleeps, Delta
<1> DEFINE n == Len(clockq)
           S == Sleepers(clockq)
           f == [i \in 1 .. n |-> clockq[i].pid]
<1>2. f \in [1 .. n -> S]
  BY DEF Sleepers
<1>3. \A i, j \in 1 .. n : f[i] = f[j] => i = j
  BY <1>1
<1>4. \A p \in S : \E i \in 1 .. n : f[i] = p
  BY DEF Sleepers
<1>5. n \in Nat
  BY <1>1
<1> HIDE DEF f, n, S
<1>6. f \in Bijection(1 .. n, S)
  BY <1>2, <1>3, <1>4, Fun_IsBij
<1>7. ExistsBijection(1 .. n, S)
  BY <1>6, Fun_ExistsBij, Zenon
<1>8. Cardinality(S) = n
  BY <1>5, <1>7, FS_CountingElements
<1> QED
  BY <1>8 DEF n, S

LEMMA OnOneList == KInv => OnItsList
<1> SUFFICES ASSUME KInv PROVE OnItsList
  OBVIOUS
<1>1. Sched /\ Waits /\ Sleeps
  BY DEF KInv
<1>2. Asleep = Sleepers(clockq) /\ \A s \in Sems : On(s) = Members(semq[s])
  BY DEF Asleep, Sleepers, On, Members
<1>3. \A p \in All : pstate[p] \in SleepState <=> p \in Asleep
  BY <1>1, <1>2 DEF Sleeps
<1>4. ASSUME NEW p \in All
      PROVE  pstate[p] = "PRWAIT" <=> p \in lockq \/ \E s \in Sems : p \in On(s)
  <2>1. pstate[p] = "PRWAIT" => p \in lockq \/ (psem[p] \in Sems /\ p \in On(psem[p]))
    BY <1>1, <1>2 DEF Waits
  <2>2. p \in lockq => pstate[p] = "PRWAIT"
    BY <1>1 DEF Waits
  <2>3. \A s \in Sems : p \in On(s) => pstate[p] = "PRWAIT"
    BY <1>2, OnQueue
  <2> QED
    BY <2>1, <2>2, <2>3
<1>5. ASSUME NEW p \in All
      PROVE  Cardinality({s \in Sems : p \in On(s)}) + (IF p \in lockq THEN 1 ELSE 0) <= 1
  <2> DEFINE T == {s \in Sems : p \in On(s)}
  <2>1. T = {} \/ (T = {psem[p]} /\ p \notin lockq)
    <3>1. \A s \in T : s = psem[p] /\ p \notin lockq
      BY <1>1, <1>2 DEF Waits
    <3> QED
      BY <3>1
  <2>2. Cardinality(T) = 0 \/ (Cardinality(T) = 1 /\ p \notin lockq)
    BY <2>1, FS_EmptySet, FS_Singleton
  <2> HIDE DEF T
  <2>3. Cardinality(T) + (IF p \in lockq THEN 1 ELSE 0) <= 1
    BY <2>2
  <2> QED
    BY <2>3 DEF T
<1>6. Cardinality(Asleep) = Len(clockq)
  BY <1>2, AsManyAsleep
<1>7. \A p \in All : (pstate[p] = "PRCURR" <=> p = currpid) /\ (pstate[p] = "PRREADY" <=> p \in Pids(rdy))
  BY <1>1 DEF Sched
<1> QED
  BY <1>3, <1>4, <1>5, <1>6, <1>7 DEF OnItsList

LEMMA WokenInTime == KInv => ReceiverWoken
<1> SUFFICES ASSUME KInv PROVE ReceiverWoken
  OBVIOUS
<1>1. ASSUME NEW p \in Procs, pstate[p] \in {"PRRECV", "PRTRECV"}  PROVE ~phasmsg[p]
  BY <1>1, MessageSlot DEF Agrees
<1>2. ASSUME NEW p \in Procs, pstate[p] \in {"PRCURR", "PRREADY", "PRSUSP"}, ~phasmsg[p]
      PROVE  cont[p].op # "receive" /\ due[p] = 0
  <2>1. due[p] = 0
    BY <1>2, AwakeDue DEF SleepState
  <2>2. phasmsg[p] = FALSE /\ Agrees(pstate[p], cont[p].op, phasmsg[p])
    BY <1>2, MessageSlot
  <2> QED
    BY <1>2, <2>1, <2>2 DEF Agrees
<1> QED
  BY <1>1, <1>2 DEF ReceiverWoken

\* Only the caller of recvtim() begins to wait for a message with a time-out.
LEMMA OnlyRecvtim ==
  ASSUME KInv, [Next]_vars, NEW p \in Procs, p # currpid, cont[p].op = "none"
  PROVE  cont'[p].op # "recvtim"
<1>1. cont \in [All -> Calls] /\ p \in All /\ currpid \in All /\ None.op # "recvtim"
  BY TypesOf, Ids, NoCall DEF KInv, Sched
<1>2. CASE cont' = cont
  BY <1>2
<1>3. ASSUME NEW c, cont' = [cont EXCEPT ![currpid] = c]  PROVE cont'[p].op # "recvtim"
  BY <1>1, <1>3
<1>4. CASE KillEnd
  <2>1. cont' = [cont EXCEPT ![cont[currpid].arg] = None, ![currpid] = None]
    BY <1>4 DEF KillEnd
  <2>2. cont'[p] = None \/ cont'[p] = cont[p]
    BY <1>1, <2>1
  <2> QED
    BY <1>1, <2>2
<1>5. CASE ReceiveEnd
  BY <1>3, <1>5 DEF ReceiveEnd, Done
<1>6. CASE Interrupt
  BY <1>2, <1>6 DEF Interrupt, ClockTick, Others
<1>7. CASE Call
  <2>1. (\E q \in Procs : Send(q)) \/ Recvclr => cont' = cont
    BY DEF Send, Recvclr
  <2>2. Receive \/ (\E d \in Delays : Recvtim(d)) \/ (\E q \in Procs : Kill(q))
          => \E c : cont' = [cont EXCEPT ![currpid] = c]
    BY DEF Receive, Recvtim, Kill, Doing
  <2>3. (\E q \in Procs : Create(q)) \/ (\E q \in Procs : Setnok(currpid, q)) => cont' = cont
    BY DEF Create, Setnok
  <2>4. (\E l \in Locks : LockTaken(l) \/ LockWait(l)) \/ (\E q \in Procs : LockGranted(q))
          => cont' = cont
    BY DEF LockTaken, LockWait, LockGranted
  <2>5. cont' = cont \/ \E c : cont' = [cont EXCEPT ![currpid] = c]
    BY <1>7, <2>1, <2>2, <2>3, <2>4, Zenon DEF Call, Others
  <2> QED
    BY <1>2, <1>3, <2>5
<1>8. CASE WaitEnd
  BY <1>2, <1>8 DEF WaitEnd
<1> QED
  BY <1>2, <1>4, <1>5, <1>6, <1>7, <1>8 DEF Next, Continue, vars

LEMMA DelayStep ==
  ASSUME KInv, KInv', [Next]_vars
  PROVE  /\ KeysAddUp'
         /\ \A p \in Procs : pstate[p] = "PRSLEEP" /\ pstate'[p] # "PRFREE" =>
              (pstate'[p] = "PRSLEEP" <=> due'[p] > 0)
<1>1. /\ Delta(clockq', due') /\ slnempty' = (clockq' # <<>>)
      /\ clockq' # <<>> => sltop' = clockq'[1].pid
      /\ \A p \in All : pstate'[p] \in SleepState <=> p \in Sleepers(clockq')
  BY DEF KInv, Sleeps
<1>2. KeysAddUp'
  <2>1. \A i \in 1 .. Len(clockq') :
          due'[clockq'[i].pid] = clockq'[i].key + (IF i = 1 THEN 0 ELSE due'[clockq'[i - 1].pid])
    BY <1>1 DEF Delta, Before
  <2> QED
    BY <1>1, <2>1 DEF KeysAddUp
<1>3. ASSUME NEW p \in Procs, pstate[p] = "PRSLEEP", pstate'[p] # "PRFREE"
      PROVE  pstate'[p] = "PRSLEEP" <=> due'[p] > 0
  <2>1. pstate'[p] \in SleepState <=> due'[p] > 0
    <3>1. p \in Sleepers(clockq') => due'[p] > 0
      BY <1>1, StillAsleep DEF Sleepers
    <3>2. p \notin Sleepers(clockq') => due'[p] = 0
      BY <1>1 DEF Delta
    <3> QED
      BY <1>1, <3>1, <3>2, Ids
  <2>2. pstate'[p] # "PRTRECV"
    <3>1. p # currpid /\ cont[p].op = "none"
      <4>1. pstate[currpid] = "PRCURR"
        BY DEF KInv, Sched
      <4> QED
        BY <1>3, <4>1, WaiterIdle, Ids
    <3>2. cont'[p].op # "recvtim"
      BY <3>1, OnlyRecvtim
    <3>3. Agrees(pstate'[p], cont'[p].op, phasmsg'[p])
      BY DEF KInv, Msgs
    <3> QED
      BY <3>2, <3>3 DEF Agrees
  <2> QED
    BY <2>1, <2>2 DEF SleepState
<1> QED
  BY <1>2, <1>3

\* Under any calls in any order, with time-outs, kills and clock interrupts in
\* between, every process is on the list its state names and on no other: current,
\* ready (ready.c, resched.c), asleep (insertd.c, unsleep.c) or on the queue of one
\* semaphore or lock (wait.c, kill.c).
THEOREM ListTheorem == ClientSpec => []OnItsList
BY KAlways, OnOneList, PTL

\* A receiver is never left asleep with a message in its slot, and goes on without
\* one only when its delay is over: send() takes a receiver off the sleeping list
\* before it makes it ready (send.c, receive.c, recvtim.c).
THEOREM ReceiverTheorem == ClientSpec => []ReceiverWoken
BY KAlways, WokenInTime, PTL

\* Who sleeps sleeps through its delay and no longer, whoever else goes to sleep,
\* is awakened early or is killed in the meantime (insertd.c, unsleep.c, wakeup.c,
\* clkint.S).
THEOREM DelayTheorem == ClientSpec => DelayKept
<1>1. KInv /\ KInv' /\ [Next /\ Rule]_vars =>
        [/\ KeysAddUp'
         /\ \A p \in Procs : pstate[p] = "PRSLEEP" /\ pstate'[p] # "PRFREE" =>
              (pstate'[p] = "PRSLEEP" <=> due'[p] > 0)]_vars
  BY DelayStep
<1> QED
  BY <1>1, KAlways, PTL DEF ClientSpec, DelayKept
-----------------------------------------------------------------------------
(* The semaphores implement SemAbs *)

\* Whoever is on the queue of a semaphore is in a wait() that has not returned.
InCall == \A s \in Sems : Members(semq[s]) \subseteq inwait

LEMMA QueuesShrink ==
  ASSUME KInv, SemCall, NEW s \in Sems
  PROVE  Members(semq'[s]) \subseteq Members(semq[s])
<1>1. semq \in [Sems -> Seq(All)]
  BY DEF KInv, Waits
<1>2. ASSUME NEW t \in Sems, NEW Q, semq' = [semq EXCEPT ![t] = Q], Members(Q) \subseteq Members(semq[t])
      PROVE  Members(semq'[s]) \subseteq Members(semq[s])
  BY <1>1, <1>2
<1>3. ASSUME NEW Q \in Seq(All), NEW k \in Nat
      PROVE  Members(SubSeq(Q, k + 1, Len(Q))) \subseteq Members(Q)
  BY <1>3 DEF Members
<1>4. ASSUME NEW t \in Sems, NEW n \in Int, n > 0 PROVE Awakened(t, n) \in Nat
  BY <1>4, QueueOf DEF Awakened
<1>5. PICK t \in Sems :
        \/ Sdelete(t) \/ WaitPass(t) \/ Signal(t)
        \/ \E n \in Counts : Screate(t, n) \/ Signaln(t, n) \/ Sreset(t, n)
  BY DEF SemCall
<1>6. CASE semq' = semq
  BY <1>6
<1>7. CASE semq' = [semq EXCEPT ![t] = <<>>]
  <2>1. Members(<<>>) \subseteq Members(semq[t])
    BY DEF Members
  <2> QED
    BY <1>2, <1>7, <2>1
<1>8. ASSUME NEW k \in Nat, semq' = [semq EXCEPT ![t] = SubSeq(semq[t], k + 1, Len(semq[t]))]
      PROVE  Members(semq'[s]) \subseteq Members(semq[s])
  <2>1. semq[t] \in Seq(All)
    BY <1>1
  <2>2. Members(SubSeq(semq[t], k + 1, Len(semq[t]))) \subseteq Members(semq[t])
    BY <1>3, <2>1
  <2> QED
    BY <1>2, <1>8, <2>2
<1>9. CASE Sdelete(t) \/ \E n \in Counts : Sreset(t, n)
  BY <1>7, <1>9 DEF Sdelete, Sreset
<1>10. CASE WaitPass(t) \/ \E n \in Counts : Screate(t, n)
  BY <1>6, <1>10 DEF WaitPass, Screate
<1>11. CASE Signal(t)
  <2>1. PICK k \in Nat : k = Awakened(t, 1)
    BY <1>4
  <2> QED
    BY <1>8, <1>11, <2>1 DEF Signal
<1>12. CASE \E n \in Counts : Signaln(t, n)
  <2>1. PICK n \in Counts : Signaln(t, n)
    BY <1>12
  <2>2. n \in Int /\ n > 0
    BY <2>1, SemsAssumption DEF Signaln
  <2>3. PICK k \in Nat : k = Awakened(t, n)
    BY <1>4, <2>2
  <2> QED
    BY <1>8, <2>1, <2>3 DEF Signaln
<1> QED
  BY <1>5, <1>9, <1>10, <1>11, <1>12

\* What kill() does to the queues and to inwait.
LEMMA KilledGone ==
  ASSUME KInv, KillEnd, NEW p, p = cont[currpid].arg, NEW s \in Sems
  PROVE  Members(semq'[s]) \subseteq Members(semq[s]) \ {p} /\ inwait' = inwait \ {p}
<1>1. inwait' = inwait \ {p}
  BY DEF KillEnd
<1>2. p \in Procs /\ p \in All /\ p \notin lockq
  BY KilledMoves
<1>3. CASE pstate[p] = "PRWAIT"
  <2>1. semq' = [t \in Sems |-> Without(semq[t], p)]
    BY <1>3 DEF KillEnd, LeaveQueue, Unwait
  <2>2. semq[s] \in Seq(All) /\ Distinct(semq[s])
    BY QueueOf
  <2>3. Members(Without(semq[s], p)) = Members(semq[s]) \ {p}
    BY <2>2, WithoutMembers
  <2> QED
    BY <1>1, <2>1, <2>3
<1>4. CASE pstate[p] # "PRWAIT"
  <2>1. semq' = semq
    BY <1>4 DEF KillEnd, semVars
  <2>2. p \notin Members(semq[s])
    BY <1>4, OnQueue
  <2> QED
    BY <1>1, <2>1, <2>2
<1> QED
  BY <1>3, <1>4

LEMMA InCallStep == KInv /\ InCall /\ [Next]_vars => InCall'
<1> SUFFICES ASSUME KInv, InCall, [Next]_vars, NEW s \in Sems
             PROVE  Members(semq'[s]) \subseteq inwait'
  BY DEF InCall
<1>1. Members(semq[s]) \subseteq inwait
  BY DEF InCall
<1>2. CASE UNCHANGED <<semq, inwait>>
  BY <1>1, <1>2
<1>3. CASE SemCall /\ UNCHANGED inwait
  BY <1>1, <1>3, QueuesShrink
<1>4. CASE \E t \in Sems : Wait(t)
  <2>1. PICK t \in Sems : Wait(t)
    BY <1>4
  <2>2. semq' = [semq EXCEPT ![t] = Append(semq[t], currpid)] /\ inwait' = inwait \cup {currpid}
    BY <2>1 DEF Wait, WaitBlock, Enqueued
  <2>3. semq[t] \in Seq(All) /\ currpid \in All /\ semq \in [Sems -> Seq(All)]
    BY DEF KInv, Sched, Waits
  <2>4. Members(Append(semq[t], currpid)) \subseteq Members(semq[t]) \cup {currpid}
    BY <2>3 DEF Members
  <2> QED
    BY <1>1, <2>2, <2>3, <2>4
<1>5. CASE KillEnd
  BY <1>1, <1>5, KilledGone
<1>6. CASE WaitEnd
  <2>1. currpid \notin Members(semq[s])
    BY OnQueue DEF KInv, Sched
  <2> QED
    BY <1>1, <1>6, <2>1 DEF WaitEnd, semVars
<1>7. CASE Interrupt
  BY <1>2, <1>7 DEF Interrupt, ClockTick, Others, semVars
<1>8. CASE Call
  <2>1. \/ SemCall /\ UNCHANGED inwait
        \/ \E t \in Sems : Wait(t)
        \/ UNCHANGED <<semq, inwait>>
    BY <1>8 DEF Call, Others, Create, Setnok, Kill, LockTaken, LockWait, LockGranted, semVars
  <2> QED
    BY <1>2, <1>3, <1>4, <2>1
<1> QED
  BY <1>2, <1>5, <1>6, <1>7, <1>8 DEF Next, Continue, vars, semVars

LEMMA InCallAlways == ClientSpec => []InCall
<1>1. Init => InCall
  BY DEF Init, SemInit, InCall, Members
<1> QED
  BY <1>1, InCallStep, KAlways, PTL DEF ClientSpec

\* The answers of the specification, after what happens to one process.
LEMMA AnswerIs ==
  ASSUME KInv, NEW p \in All
  PROVE  Answer \in [All -> {"none", "OK", "DELETED"}] /\ (Answer[p] # "none" <=> p \in inwait)
  BY DEF Answer, KInv, Waits

LEMMA AnswerSame ==
  ASSUME UNCHANGED <<pwaitret, inwait>>
  PROVE  Answer' = Answer
  BY DEF Answer

LEMMA AnswerNone ==
  ASSUME KInv, NEW p \in All, inwait' = inwait \ {p}, \A q \in All \ {p} : pwaitret'[q] = pwaitret[q]
  PROVE  Answer' = [Answer EXCEPT ![p] = "none"]
  BY DEF Answer

\* The count of the specification.
Positive(st, n) == IF st = "SUSED" /\ n > 0 THEN n ELSE 0
Cnt == [s \in Sems |-> IF sstate[s] = "SUSED" /\ semcnt[s] > 0 THEN semcnt[s] ELSE 0]

LEMMA CountIs ==
  ASSUME KInv, NEW s \in Sems
  PROVE  Cnt \in [Sems -> Int] /\ Cnt[s] = Positive(sstate[s], semcnt[s])
<1>1. semcnt \in [Sems -> Int]
  BY DEF KInv, Waits
<1> QED
  BY <1>1 DEF Cnt, Positive

LEMMA CountNext ==
  ASSUME KInv, NEW s \in Sems, NEW st, NEW n \in Int,
         sstate' = [sstate EXCEPT ![s] = st], semcnt' = [semcnt EXCEPT ![s] = n]
  PROVE  Cnt' = [Cnt EXCEPT ![s] = Positive(st, n)]
<1>1. semcnt \in [Sems -> Int] /\ sstate \in [Sems -> {"SFREE", "SUSED"}]
  BY DEF KInv, Waits
<1>2. \A t \in Sems : semcnt'[t] = IF t = s THEN n ELSE semcnt[t]
  BY <1>1
<1>3. \A t \in Sems : sstate'[t] = IF t = s THEN st ELSE sstate[t]
  BY <1>1
<1>4. Cnt' = [t \in Sems |-> Positive(sstate'[t], semcnt'[t])]
  BY DEF Cnt, Positive
<1>5. Cnt = [t \in Sems |-> Positive(sstate[t], semcnt[t])]
  BY DEF Cnt, Positive
<1>6. \A t \in Sems : Positive(sstate'[t], semcnt'[t])
                        = IF t = s THEN Positive(st, n) ELSE Positive(sstate[t], semcnt[t])
  BY <1>2, <1>3
<1> HIDE DEF Positive
<1> QED
  BY <1>4, <1>5, <1>6

LEMMA CountSame ==
  ASSUME UNCHANGED <<sstate, semcnt>>
  PROVE  Cnt' = Cnt
  BY DEF Cnt

LEMMA WaitIsP ==
  ASSUME KInv, NEW s \in Sems, (WaitPass(s) /\ UNCHANGED inwait) \/ Wait(s)
  PROVE  Abs!P(currpid, s)
<1>1. semcnt[s] \in Int /\ semcnt \in [Sems -> Int] /\ sstate \in [Sems -> {"SFREE", "SUSED"}]
  BY DEF KInv, Waits
<1>2. /\ sstate[s] = "SUSED" /\ sstate' = [sstate EXCEPT ![s] = "SUSED"]
      /\ semcnt' = [semcnt EXCEPT ![s] = semcnt[s] - 1]
  BY <1>1 DEF WaitPass, WaitBlock, Wait
<1>3. Cnt' = [Cnt EXCEPT ![s] = Positive("SUSED", semcnt[s] - 1)]
  <2>1. PICK m \in Int : m = semcnt[s] - 1
    BY <1>1
  <2>2. Cnt' = [Cnt EXCEPT ![s] = Positive("SUSED", m)]
    BY <1>2, <2>1, CountNext
  <2> QED
    BY <2>1, <2>2
<1>4. Cnt[s] = Positive("SUSED", semcnt[s]) /\ Cnt \in [Sems -> Int]
  BY <1>2, CountIs
<1>5. CASE WaitPass(s) /\ UNCHANGED inwait
  <2>1. semcnt[s] > 0 /\ semq' = semq /\ Answer' = Answer
    BY <1>5, AnswerSame DEF WaitPass
  <2>2. Cnt[s] = semcnt[s] /\ Cnt[s] > 0
    BY <1>1, <1>4, <2>1 DEF Positive
  <2>3. Positive("SUSED", semcnt[s] - 1) = Cnt[s] - 1
    BY <1>1, <2>1, <2>2 DEF Positive
  <2>4. Cnt' = [Cnt EXCEPT ![s] = Cnt[s] - 1]
    BY <1>3, <2>3
  <2> QED
    BY <2>1, <2>2, <2>4 DEF Abs!P, Cnt
<1>6. CASE Wait(s)
  <2>1. /\ semcnt[s] <= 0
        /\ semq' = [semq EXCEPT ![s] = Append(semq[s], currpid)]
        /\ pwaitret' = [pwaitret EXCEPT ![currpid] = "OK"] /\ inwait' = inwait \cup {currpid}
    BY <1>6 DEF WaitBlock, Enqueued, Wait
  <2>5. Answer' = [Answer EXCEPT ![currpid] = "OK"]
    BY <2>1 DEF Answer, KInv, Waits
  <2>2. Cnt[s] = 0 /\ ~(Cnt[s] > 0)
    BY <1>1, <1>4, <2>1 DEF Positive
  <2>3. Positive("SUSED", semcnt[s] - 1) = 0
    BY <1>1, <2>1 DEF Positive
  <2>4. Cnt' = Cnt
    BY <1>3, <1>4, <2>2, <2>3
  <2> QED
    BY <2>1, <2>2, <2>4, <2>5 DEF Abs!P, Cnt
<1> QED
  BY <1>5, <1>6

LEMMA RaiseIsV ==
  ASSUME KInv, NEW s \in Sems, sstate[s] = "SUSED", NEW n \in Nat,
         NEW m \in Int, m = semcnt[s] + n, semcnt' = [semcnt EXCEPT ![s] = m],
         sstate' = [sstate EXCEPT ![s] = "SUSED"],
         NEW k, k = Awakened(s, n), UNCHANGED <<pwaitret, inwait>>,
         semq' = [semq EXCEPT ![s] = SubSeq(semq[s], k + 1, Len(semq[s]))]
  PROVE  Abs!V(s, n)
<1>1. /\ semcnt[s] \in Int /\ sstate \in [Sems -> {"SFREE", "SUSED"}] /\ Len(semq[s]) \in Nat
      /\ Len(semq[s]) = IF semcnt[s] < 0 THEN -semcnt[s] ELSE 0
  BY QueueOf DEF KInv, Waits
<1>2. k = IF n < Len(semq[s]) THEN n ELSE Len(semq[s])
  BY AwakenedIs
<1>3. Cnt' = [Cnt EXCEPT ![s] = Positive("SUSED", semcnt[s] + n)]
  <2>1. Cnt' = [Cnt EXCEPT ![s] = Positive("SUSED", m)]
    BY CountNext
  <2> QED
    BY <2>1
<1>4. Cnt[s] = Positive("SUSED", semcnt[s])
  BY CountIs
<1>5. Positive("SUSED", semcnt[s] + n) = Cnt[s] + (n - k)
  <2>1. CASE semcnt[s] < 0
    <3>1. Cnt[s] = 0 /\ Len(semq[s]) = -semcnt[s]
      BY <1>1, <1>4, <2>1 DEF Positive
    <3>2. CASE n < Len(semq[s])
      BY <1>1, <1>2, <3>1, <3>2 DEF Positive
    <3>3. CASE ~(n < Len(semq[s]))
      BY <1>1, <1>2, <3>1, <3>3 DEF Positive
    <3> QED
      BY <3>2, <3>3
  <2>2. CASE ~(semcnt[s] < 0)
    <3>1. Cnt[s] = semcnt[s] /\ k = 0
      BY <1>1, <1>2, <1>4, <2>2 DEF Positive
    <3> QED
      BY <1>1, <2>2, <3>1 DEF Positive
  <2> QED
    BY <2>1, <2>2
<1>6. Cnt' = [Cnt EXCEPT ![s] = Cnt[s] + (n - k)]
  BY <1>3, <1>5
<1> QED
  BY <1>2, <1>6, AnswerSame DEF Abs!V, Cnt

LEMMA SignalIsV ==
  ASSUME KInv, NEW s \in Sems, Signal(s), UNCHANGED inwait
  PROVE  Abs!V(s, 1)
<1> DEFINE k == Awakened(s, 1)
<1>1. /\ sstate[s] = "SUSED" /\ semcnt' = [semcnt EXCEPT ![s] = semcnt[s] + 1]
      /\ semq' = [semq EXCEPT ![s] = SubSeq(semq[s], k + 1, Len(semq[s]))]
      /\ sstate' = sstate /\ pwaitret' = pwaitret
  BY DEF Signal
<1>2. PICK m \in Int : m = semcnt[s] + 1
  BY QueueOf
<1>3. sstate' = [sstate EXCEPT ![s] = "SUSED"]
  BY <1>1 DEF KInv, Waits
<1> HIDE DEF k
<1> QED
  BY <1>1, <1>2, <1>3, RaiseIsV DEF k

LEMMA SignalnIsV ==
  ASSUME KInv, NEW s \in Sems, NEW n \in Counts, Signaln(s, n), UNCHANGED inwait
  PROVE  Abs!V(s, n)
<1> DEFINE k == Awakened(s, n)
<1>1. /\ sstate[s] = "SUSED" /\ semcnt' = [semcnt EXCEPT ![s] = semcnt[s] + n]
      /\ semq' = [semq EXCEPT ![s] = SubSeq(semq[s], k + 1, Len(semq[s]))]
      /\ sstate' = sstate /\ pwaitret' = pwaitret
  BY DEF Signaln
<1>2. n \in Nat
  BY SemsAssumption DEF Signaln
<1>3. PICK m \in Int : m = semcnt[s] + n
  BY <1>2, QueueOf
<1>4. sstate' = [sstate EXCEPT ![s] = "SUSED"]
  BY <1>1 DEF KInv, Waits
<1> QED
  BY <1>1, <1>2, <1>3, <1>4, RaiseIsV

LEMMA SdeleteIsDelete ==
  ASSUME KInv, InCall, NEW s \in Sems, Sdelete(s), UNCHANGED inwait
  PROVE  Abs!Delete(s)
<1>1. semcnt \in [Sems -> Int] /\ sstate' = [sstate EXCEPT ![s] = "SFREE"] /\ semcnt' = semcnt
  BY DEF Sdelete, KInv, Waits
<1>2. semcnt[s] \in Int /\ semcnt' = [semcnt EXCEPT ![s] = semcnt[s]]
  BY <1>1
<1>3. Cnt' = [Cnt EXCEPT ![s] = Positive("SFREE", semcnt[s])]
  BY <1>1, <1>2, CountNext
<1>4. Cnt' = [Cnt EXCEPT ![s] = 0]
  BY <1>3 DEF Positive
<1>5. semq' = [semq EXCEPT ![s] = <<>>]
  BY DEF Sdelete
<1>6. pwaitret' = [c \in All |-> IF c \in {semq[s][i] : i \in 1 .. Len(semq[s])} THEN "DELETED" ELSE pwaitret[c]]
  BY DEF Sdelete, DeletedAnswer
<1>7. {semq[s][i] : i \in 1 .. Len(semq[s])} \subseteq inwait
  BY DEF InCall, Members
<1>8. Answer' = [c \in All |-> IF c \in {semq[s][i] : i \in 1 .. Len(semq[s])} THEN "DELETED" ELSE Answer[c]]
  BY <1>6, <1>7 DEF Answer
<1> QED
  BY <1>4, <1>5, <1>8 DEF Abs!Delete, Abs!Members, Cnt

LEMMA SetsCount ==
  ASSUME KInv, NEW s \in Sems, NEW n \in Counts, Screate(s, n) \/ Sreset(s, n), UNCHANGED inwait
  PROVE  Abs!Set(s, n)
<1>1. n \in Nat
  BY SemsAssumption DEF Screate, Sreset
<1>2. sstate \in [Sems -> {"SFREE", "SUSED"}] /\ semq \in [Sems -> Seq(All)]
  BY DEF KInv, Waits
<1>3. /\ sstate' = [sstate EXCEPT ![s] = "SUSED"] /\ semcnt' = [semcnt EXCEPT ![s] = n]
      /\ Answer' = Answer
  BY <1>2, AnswerSame DEF Screate, Sreset
<1>4. Cnt' = [Cnt EXCEPT ![s] = Positive("SUSED", n)]
  <2>1. n \in Int
    BY <1>1
  <2> QED
    BY <1>3, <2>1, CountNext
<1>5. Cnt' = [Cnt EXCEPT ![s] = n]
  <2>1. Positive("SUSED", n) = n
    BY <1>1 DEF Positive
  <2> QED
    BY <1>4, <2>1
<1>6. semq' = [semq EXCEPT ![s] = <<>>]
  <2>1. CASE Screate(s, n)
    <3>1. sstate[s] = "SFREE" /\ semq' = semq
      BY <2>1 DEF Screate, NewSem
    <3>2. Len(semq[s]) = 0
      BY <3>1, QueueOf
    <3>3. semq[s] = <<>>
      BY <1>2, <3>2, Somebody
    <3> QED
      BY <1>2, <3>1, <3>3
  <2>2. CASE Sreset(s, n)
    BY <2>2 DEF Sreset
  <2> QED
    BY <2>1, <2>2
<1> QED
  BY <1>3, <1>5, <1>6 DEF Abs!Set, Cnt

LEMMA KilledLeaves ==
  ASSUME KInv, KillEnd, NEW p, p = cont[currpid].arg, pstate[p] = "PRWAIT"
  PROVE  Abs!Leave(p, psem[p]) /\ p \in All /\ psem[p] \in Sems
<1>1. p \in Procs /\ p \in All /\ p \notin lockq
  BY KilledMoves
<1>2. PICK s : s = psem[p]
  OBVIOUS
<1>3. s \in Sems /\ p \in Members(semq[s])
  BY <1>1, <1>2 DEF KInv, Waits
<1>4. /\ semcnt' = [semcnt EXCEPT ![s] = semcnt[s] + 1]
      /\ semq' = [t \in Sems |-> Without(semq[t], p)]
      /\ sstate' = sstate /\ Bar(p) /\ inwait' = inwait \ {p}
  BY <1>2 DEF KillEnd, LeaveQueue, Unwait
<1>5. PICK i \in 1 .. Len(semq[s]) : semq[s][i] = p
  BY <1>3 DEF Members
<1>6. \A t \in Sems : semq[t] \in Seq(All) /\ Distinct(semq[t])
  BY QueueOf
<1>7. Without(semq[s], p) = Gone(semq[s], i)
  BY <1>3, <1>5, <1>6, WithoutIs
<1>8. ASSUME NEW t \in Sems, t # s  PROVE Without(semq[t], p) = semq[t]
  <2>1. p \notin Members(semq[t])
    BY <1>2, <1>8, OnQueue
  <2> QED
    BY <1>6, <2>1, WithoutIs
<1>9. semq' = [semq EXCEPT ![s] = Gone(semq[s], i)]
  <2>1. semq \in [Sems -> Seq(All)]
    BY DEF KInv, Waits
  <2> QED
    BY <1>4, <1>7, <1>8, <2>1
<1>10. Cnt' = Cnt
  <2>1. semcnt[s] \in Int /\ semcnt[s] < 0 /\ sstate[s] = "SUSED"
    <3>1. Len(semq[s]) # 0
      BY <1>5
    <3> QED
      BY <1>3, <3>1, QueueOf
  <2>2. sstate' = [sstate EXCEPT ![s] = "SUSED"]
    BY <1>3, <1>4, <2>1 DEF KInv, Waits
  <2>3. Cnt' = [Cnt EXCEPT ![s] = Positive("SUSED", semcnt[s] + 1)]
    <3>1. PICK m \in Int : m = semcnt[s] + 1
      BY <2>1
    <3>2. Cnt' = [Cnt EXCEPT ![s] = Positive("SUSED", m)]
      BY <1>3, <1>4, <2>2, <3>1, CountNext
    <3> QED
      BY <3>1, <3>2
  <2>4. Positive("SUSED", semcnt[s] + 1) = 0 /\ Cnt[s] = 0 /\ Cnt \in [Sems -> Int]
    BY <1>3, <2>1, CountIs DEF Positive
  <2> QED
    BY <2>3, <2>4
<1>11. Answer' = [Answer EXCEPT ![p] = "none"]
  <2>1. \A q \in All \ {p} : pwaitret'[q] = pwaitret[q]
    BY <1>4 DEF Bar, KInv, Waits
  <2> QED
    BY <1>1, <1>4, <2>1, AnswerNone
<1> QED
  BY <1>1, <1>2, <1>3, <1>5, <1>9, <1>10, <1>11 DEF Abs!Leave, Gone, Cnt

\* Whoever is in a wait() and on no queue has its answer; it returns or is killed.
LEMMA Returns ==
  ASSUME KInv, NEW p \in All, p \in inwait, pstate[p] # "PRWAIT", inwait' = inwait \ {p},
         UNCHANGED semVars
  PROVE  Abs!Return(p)
<1>1. UNCHANGED <<sstate, semcnt, semq, pwaitret>>
  BY DEF semVars
<1>2. \A s \in Sems : p \notin Members(semq[s])
  BY OnQueue
<1>3. Answer[p] # "none" /\ Answer' = [Answer EXCEPT ![p] = "none"]
  BY <1>1, AnswerIs, AnswerNone
<1> QED
  BY <1>1, <1>2, <1>3, CountSame DEF Abs!Return, Abs!Members, Members, Cnt

LEMMA WaitEndReturns == ASSUME KInv, WaitEnd PROVE Abs!Return(currpid)
<1>1. /\ currpid \in All /\ currpid \in inwait /\ pstate[currpid] # "PRWAIT"
      /\ inwait' = inwait \ {currpid} /\ UNCHANGED semVars
  BY DEF WaitEnd, KInv, Sched
<1> QED
  BY <1>1, Returns

LEMMA CountingInit == Init => Abs!Init
  BY DEF Init, SemInit, Abs!Init, Answer

LEMMA CountingStep ==
  ASSUME KInv, InCall, [Next]_vars
  PROVE  [Abs!Next]_<<Cnt, semq, Answer>>
<1>1. CASE UNCHANGED <<sstate, semcnt, semq, pwaitret, inwait>>
  BY <1>1, CountSame, AnswerSame
<1>2. \A s \in Sems, n \in Counts \cup {1} : n # 0 /\ Abs!V(s, n) => Abs!Next
  BY DEF Abs!Next
<1>3. \A s \in Sems, n \in Counts \cup {1} : Abs!Set(s, n) => Abs!Next
  BY DEF Abs!Next
<1>4. \A s \in Sems : Abs!Delete(s) => Abs!Next
  BY DEF Abs!Next
<1>5. \A s \in Sems, c \in All : Abs!P(c, s) \/ Abs!Leave(c, s) \/ Abs!Return(c) => Abs!Next
  BY DEF Abs!Next
<1>6. currpid \in All /\ 0 \in Sems /\ 1 \in Counts \cup {1} /\ 1 # 0
  BY Ids DEF KInv, Sched
<1>7. CASE SemCall /\ UNCHANGED inwait
  <2>1. PICK s \in Sems :
    \/ Sdelete(s) \/ WaitPass(s) \/ Signal(s)
    \/ \E n \in Counts : Screate(s, n) \/ Signaln(s, n) \/ Sreset(s, n)
    BY <1>7 DEF SemCall
  <2>2. ASSUME NEW n \in Counts, Screate(s, n) \/ Signaln(s, n) \/ Sreset(s, n)
        PROVE  Abs!Next
    <3>1. Signaln(s, n) => n # 0
      BY SemsAssumption DEF Signaln
    <3> QED
      BY <1>2, <1>3, <1>7, <2>2, <3>1, SignalnIsV, SetsCount
  <2>3. CASE Sdelete(s) \/ WaitPass(s) \/ Signal(s)
    BY <1>2, <1>4, <1>5, <1>6, <1>7, <2>3, SdeleteIsDelete, WaitIsP, SignalIsV
  <2> QED
    BY <2>1, <2>2, <2>3
<1>8. CASE \E s \in Sems : Wait(s)
  BY <1>5, <1>6, <1>8, WaitIsP
<1>9. CASE KillEnd
  <2>1. PICK p : p = cont[currpid].arg
    OBVIOUS
  <2>2. CASE pstate[p] = "PRWAIT"
    BY <1>5, <1>9, <2>1, <2>2, KilledLeaves
  <2>3. CASE pstate[p] # "PRWAIT"
    <3>1. p \in All /\ inwait' = inwait \ {p} /\ UNCHANGED semVars
      BY <1>9, <2>1, <2>3, KilledMoves DEF KillEnd
    <3>2. CASE p \in inwait
      BY <1>5, <1>6, <2>3, <3>1, <3>2, Returns
    <3>3. CASE p \notin inwait
      BY <1>1, <3>1, <3>3 DEF semVars
    <3> QED
      BY <3>2, <3>3
  <2> QED
    BY <2>2, <2>3
<1>10. CASE WaitEnd
  BY <1>5, <1>6, <1>10, WaitEndReturns
<1>11. CASE ReceiveEnd /\ UNCHANGED <<semVars, pnxtkin, lockq, lockEntries, inwait>>
  BY <1>1, <1>11 DEF semVars
<1>12. CASE Interrupt
  BY <1>1, <1>12 DEF Interrupt, ClockTick, Others, semVars
<1>13. CASE Calling /\ \E l \in Locks : LockWait(l)
  <2>1. /\ UNCHANGED <<sstate, semcnt, semq, inwait>> /\ currpid \notin inwait
        /\ pwaitret' = [pwaitret EXCEPT ![currpid] = "OK"]
    BY <1>13 DEF LockWait, Calling, Interruptible
  <2>2. Answer' = Answer
    BY <2>1 DEF Answer, KInv, Waits
  <2> QED
    BY <2>1, <2>2, CountSame
<1>14. CASE Call
  <2>1. \/ SemCall /\ UNCHANGED inwait
        \/ \E s \in Sems : Wait(s)
        \/ Calling /\ \E l \in Locks : LockWait(l)
        \/ UNCHANGED <<sstate, semcnt, semq, pwaitret, inwait>>
    BY <1>14 DEF Call, Others, Create, Setnok, Kill, LockTaken, LockGranted, semVars
  <2> QED
    BY <1>1, <1>7, <1>8, <1>13, <2>1
<1> QED
  BY <1>1, <1>9, <1>10, <1>11, <1>12, <1>14 DEF Next, Continue, vars

\* The semaphores are counting semaphores with FIFO queues: each call is the one
\* of the specification, and each wait() returns with the answer of what ended its
\* waiting, also when waiters are killed, when a semaphore is deleted and created
\* again, and when it is reset (wait.c, signal.c, signaln.c, screate.c, sdelete.c,
\* sreset.c, kill.c).
THEOREM CountingTheorem == ClientSpec => Counting
<1>1. KInv /\ InCall /\ [Next /\ Rule]_vars => [Abs!Next]_<<Cnt, semq, Answer>>
  BY CountingStep
<1>2. KInv /\ InCall /\ [Next /\ Rule]_vars =>
        [/\ WaitEnd => Abs!Return(currpid)
         /\ \A s \in Sems : Wait(s) => Abs!P(currpid, s)
         /\ UNCHANGED inwait => \A s \in Sems :
              /\ WaitPass(s) => Abs!P(currpid, s)
              /\ Signal(s) => Abs!V(s, 1)
              /\ Sdelete(s) => Abs!Delete(s)
              /\ \A n \in Counts : (Signaln(s, n) => Abs!V(s, n)) /\ (Sreset(s, n) => Abs!Set(s, n))]_vars
  BY WaitEndReturns, WaitIsP, SignalIsV, SdeleteIsDelete, SignalnIsV, SetsCount
<1>3. Abs!Spec <=> Abs!Init /\ [][Abs!Next]_<<Cnt, semq, Answer>>
  BY DEF Abs!Spec, Cnt
<1> QED
  BY <1>1, <1>2, <1>3, KAlways, InCallAlways, CountingInit, PTL DEF ClientSpec, Counting
=============================================================================
