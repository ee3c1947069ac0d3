--------------------------- MODULE ProcessesProof ---------------------------
(***************************************************************************)
(* What resched() keeps of the states of processes and the ready list, for *)
(* any processes and priorities, as long as the null process never blocks. *)
(***************************************************************************)
EXTENDS Processes, ListProof

States == {"PRFREE", "PRSUSP", "PRREADY", "PRCURR", "PRWAIT", "PRSLEEP", "PRRECV", "PRTRECV"}
Running == {"PRCURR", "PRREADY"}

\* The processes that are not blocked are where their states say, and the null
\* process is one of them.
Sched ==
  /\ pstate \in [All -> States] /\ currpid \in All /\ Pids(rdy) \subseteq All
  /\ \A p \in All : pstate[p] = "PRCURR" <=> p = currpid
  /\ \A p \in All : pstate[p] = "PRREADY" <=> p \in Pids(rdy)
  /\ pstate[NULLPROC] \in Running

\* p gets the state st, except that resched() may choose another process.
Becomes(p, st) == pstate'[p] = st \/ (pstate'[p] \in Running /\ st \in Running)
Stays(p) == Becomes(p, pstate[p])

LEMMA ReschedSched ==
  ASSUME NEW ps \in [All -> States], NEW rd, currpid \in All,
         Pids(rd) \subseteq All,
         \A p \in All : ps[p] = "PRREADY" <=> p \in Pids(rd),
         \A p \in All : ps[p] = "PRCURR" => p = currpid,
         ps[NULLPROC] \in Running,
         Resched(ps, rd)
  PROVE  Sched' /\ \A p \in All : Becomes(p, ps[p])
<1> DEFINE stays  == ps[currpid] = "PRCURR" /\ \A e \in rd : e.key < PPrio(currpid)
           queued == IF ps[currpid] = "PRCURR" THEN Insert(rd, currpid, PPrio(currpid)) ELSE rd
           old    == IF ps[currpid] = "PRCURR" THEN [ps EXCEPT ![currpid] = "PRREADY"] ELSE ps
<1>1. CASE stays /\ pstate' = ps /\ rdy' = rd /\ currpid' = currpid
  BY <1>1 DEF States, Sched, Becomes
<1>2. Pids(queued) = IF ps[currpid] = "PRCURR" THEN Pids(rd) \cup {currpid} ELSE Pids(rd)
  BY PidsInsert
<1>3. /\ old \in [All -> States]
      /\ \A p \in All : old[p] = "PRREADY" <=> p \in Pids(queued)
      /\ \A p \in All : old[p] # "PRCURR" /\ (old[p] = ps[p] \/ (old[p] \in Running /\ ps[p] \in Running))
  BY <1>2 DEF States, Running
<1>4. NULLPROC \in Pids(queued) /\ Pids(queued) \subseteq All
  BY <1>2, <1>3 DEF Running, All
<1>5. queued # {}
  BY <1>4 DEF Pids
<1> HIDE DEF queued, old
<1>6. CASE \E e \in queued :
              /\ IsLast(queued, e)
              /\ currpid' = e.pid
              /\ rdy' = Remove(queued, {e.pid})
              /\ pstate' = [old EXCEPT ![e.pid] = "PRCURR"]
  <2>1. PICK e \in queued :
              /\ currpid' = e.pid
              /\ rdy' = Remove(queued, {e.pid})
              /\ pstate' = [old EXCEPT ![e.pid] = "PRCURR"]
    BY <1>6
  <2>2. e.pid \in Pids(queued)
    BY DEF Pids
  <2>3. Pids(rdy') = Pids(queued) \ {e.pid}
    BY <2>1, PidsRemove
  <2>4. \A p \in All : pstate'[p] = IF p = e.pid THEN "PRCURR" ELSE old[p]
    BY <1>3, <2>1
  <2>5. pstate' \in [All -> States]
    BY <1>3, <2>1 DEF States
  <2>6. old[e.pid] = "PRREADY"
    BY <1>3, <1>4, <2>2
  <2>7. \A p \in All : Becomes(p, ps[p])
    BY <1>3, <2>4, <2>6 DEF Becomes, Running
  <2>8. Sched'
    <3>1. currpid' \in All /\ Pids(rdy') \subseteq All
      BY <1>4, <2>1, <2>2, <2>3
    <3>2. \A p \in All : (pstate'[p] = "PRCURR" <=> p = currpid') /\ (pstate'[p] = "PRREADY" <=> p \in Pids(rdy'))
      BY <1>3, <2>1, <2>3, <2>4
    <3>3. pstate'[NULLPROC] \in Running
      BY <2>7 DEF Becomes, All
    <3> QED
      BY <2>5, <3>1, <3>2, <3>3 DEF Sched
  <2> QED
    BY <2>7, <2>8
<1> QED
  BY <1>1, <1>5, <1>6 DEF Resched, queued, old

\* The current process blocks or ends.
LEMMA BlockSched ==
  ASSUME Sched, currpid # NULLPROC, NEW st \in States \ Running, Block(st)
  PROVE  /\ Sched' /\ pstate'[currpid] = st
         /\ \A p \in All \ {currpid} : Stays(p)
<1> DEFINE ps == [pstate EXCEPT ![currpid] = st]
<1>1. /\ ps \in [All -> States] /\ currpid \in All
      /\ \A p \in All : ps[p] = IF p = currpid THEN st ELSE pstate[p]
  BY DEF Sched
<1>2. Resched(ps, rdy)
  BY DEF Block
<1> HIDE DEF ps
<1>3. Sched' /\ \A p \in All : Becomes(p, ps[p])
  BY <1>1, <1>2, ReschedSched DEF Sched, Running, All
<1> QED
  BY <1>1, <1>3 DEF Becomes, Stays

\* Processes are readied in turn.
LEMMA ReadySched ==
  ASSUME Sched, NEW s, NEW S \in SUBSET All, S = {s[i] : i \in 1 .. Len(s)}, Ready(s)
  PROVE  Sched' /\ \A p \in All : IF p \in S THEN pstate'[p] \in Running ELSE Stays(p)
<1> DEFINE ps == [p \in All |-> IF p \in S THEN "PRREADY" ELSE pstate[p]]
           E  == { [pid |-> s[i], key |-> PPrio(s[i]), turn |-> i] : i \in 1 .. Len(s) }
           rd == InsertAll(rdy, E)
<1>1. Pids(E) = S
  <2>1. \A x \in E : x.pid \in S
    OBVIOUS
  <2>2. ASSUME NEW p \in S  PROVE \E x \in E : x.pid = p
    <3>1. PICK i \in 1 .. Len(s) : s[i] = p
      OBVIOUS
    <3>2. [pid |-> s[i], key |-> PPrio(s[i]), turn |-> i] \in E
      OBVIOUS
    <3> QED
      BY <3>1, <3>2
  <2> HIDE DEF E
  <2> QED
    BY <2>1, <2>2, PidsOf
<1>2. Pids(rd) = Pids(rdy) \cup S
  BY <1>1, PidsInsertAll
<1>3. /\ ps \in [All -> States]
      /\ \A p \in All : ps[p] = IF p \in S THEN "PRREADY" ELSE pstate[p]
  BY DEF Sched, States
<1>4. Resched(ps, rd)
  BY DEF Ready
<1> HIDE DEF ps, rd
<1>5. Sched' /\ \A p \in All : Becomes(p, ps[p])
  BY <1>2, <1>3, <1>4, ReschedSched DEF Sched, Running, All
<1> QED
  BY <1>3, <1>5 DEF Becomes, Stays, Running

LEMMA SliceSched ==
  ASSUME Sched, SliceEnd
  PROVE  Sched' /\ \A p \in All : Stays(p)
  BY ReschedSched DEF Sched, SliceEnd, Stays

LEMMA SchedSame ==
  ASSUME Sched, UNCHANGED schedVars
  PROVE  Sched' /\ \A p \in All : Stays(p)
  BY DEF Sched, schedVars, Stays, Becomes

LEMMA SchedInitial == SchedInit => Sched
<1> SUFFICES ASSUME SchedInit PROVE Sched
  OBVIOUS
<1> DEFINE E == { [pid |-> p, key |-> PPrio(p), turn |-> p] : p \in All \ {currpid} }
<1>1. currpid \in Procs /\ rdy = InsertAll({}, E)
  BY DEF SchedInit
<1>2. Pids(E) = All \ {currpid}
  <2>1. \A x \in E : x.pid \in All \ {currpid}
    OBVIOUS
  <2>2. ASSUME NEW p \in All \ {currpid}  PROVE \E x \in E : x.pid = p
    <3>1. [pid |-> p, key |-> PPrio(p), turn |-> p] \in E
      OBVIOUS
    <3> QED
      BY <3>1
  <2> HIDE DEF E
  <2> QED
    BY <2>1, <2>2, PidsOf
<1> HIDE DEF E
<1>3. Pids(rdy) = All \ {currpid}
  <2>1. Pids({}) = {}
    BY DEF Pids
  <2> QED
    BY <1>1, <1>2, <2>1, PidsInsertAll
<1>4. pstate = [p \in All |-> IF p = currpid THEN "PRCURR" ELSE "PRREADY"]
  BY DEF SchedInit
<1> QED
  BY <1>1, <1>3, <1>4, ProcsAssumption DEF Sched, States, Running, All
=============================================================================
