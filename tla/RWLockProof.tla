---------------------------- MODULE RWLockProof ----------------------------
(***************************************************************************)
(* Proofs about the locks for every number of processes and locks, every   *)
(* priority and every argument list.                                       *)
(* Where processes are and who holds what:                                 *)
(*   PlacementTheorem   Spec => []Placement: under any sequence of calls a *)
(*                      process is on the list that its state names        *)
(*   ExclusionTheorem   ClientSpec => []MutualExclusion                    *)
(*   AgreementTheorem   ClientSpec => []Agreement                          *)
(* What a step does to those who wait:                                     *)
(*   WakeupTheorem      Spec => WakeupMeansSomething                       *)
(*   OvertakeTheorem    Spec => NoOvertake                                 *)
(* Why somebody waits.  release() loses a wakeup when the grace test fails *)
(* between a reader and a writer of equal priority; StuckTheorem says that *)
(* this is the only way.  Under Close, where no test fails:                *)
(*   HolderTheorem      a lock that is waited for has a holder             *)
(*   ReasonTheorem      a reader waits for a writer                        *)
(*   PolicyTheorem      the locks implement RWLockAbs                      *)
(* Inheritance, for which findProcessWithLock() is taken pass by pass:     *)
(*   TypeTheorem        Spec => []TypeOK                                   *)
(*   InheritsTheorem    under Close and without chprio(), for clients of   *)
(*                      one lock at a time: some holder of a lock runs at  *)
(*                      the priority of those who wait for it              *)
(* The first four look at lists through Pids; the order of a list matters  *)
(* from OvertakeTheorem on.  What pinh holds matters for the last two      *)
(* only.                                                                   *)
(***************************************************************************)
EXTENDS RWLockClient, ListProof

States == {"PRFREE", "PRSUSP", "PRREADY", "PRCURR", "PRWAIT", "PRSLEEP"}
-----------------------------------------------------------------------------
\* The part of the types that Placement rests on.
Shape ==
  /\ pstate \in [All -> States]
  /\ lockid \in [All -> Locks \cup {NOTINWQ}]
  /\ waitq = [l \in Locks |-> waitq[l]]
  /\ currpid \in All
  /\ Pids(rdy) \subseteq All
  /\ \A l \in Locks : Pids(waitq[l]) \subseteq All
  /\ \A p \in All : pstate[p] = "PRWAIT" => lockid[p] \in Locks

\* resched() makes a ready process current, or keeps the current one, and
\* leaves the other processes where they are.
LEMMA ReschedPlaces ==
  ASSUME NEW ps \in [All -> States], NEW rd, currpid \in All,
         Pids(rd) \subseteq All,
         \A p \in All : ps[p] = "PRREADY" <=> p \in Pids(rd),
         \A p \in All : ps[p] = "PRCURR" => p = currpid,
         Resched(ps, rd)
  PROVE  /\ pstate' \in [All -> States]
         /\ currpid' \in All
         /\ Pids(rdy') \subseteq All
         /\ \A p \in All : pstate'[p] = "PRREADY" <=> p \in Pids(rdy')
         /\ \A p \in All : pstate'[p] = "PRCURR" <=> p = currpid'
         /\ \A p \in All : pstate'[p] = "PRWAIT" <=> ps[p] = "PRWAIT"
<1> DEFINE oprio  == FindPrio(currpid, pinh')
           stays  == ps[currpid] = "PRCURR" /\ \A e \in rd : e.key < oprio
           queued == IF ps[currpid] = "PRCURR" THEN Insert(rd, currpid, oprio) ELSE rd
           old    == IF ps[currpid] = "PRCURR" THEN [ps EXCEPT ![currpid] = "PRREADY"] ELSE ps
<1>1. CASE stays /\ pstate' = ps /\ rdy' = rd /\ currpid' = currpid
  BY <1>1 DEF States
<1>2. CASE \E e \in queued :
              /\ IsLast(queued, e)
              /\ currpid' = e.pid
              /\ rdy' = Remove(queued, {e.pid})
              /\ pstate' = [old EXCEPT ![e.pid] = "PRCURR"]
  <2>1. PICK e \in queued :
              /\ currpid' = e.pid
              /\ rdy' = Remove(queued, {e.pid})
              /\ pstate' = [old EXCEPT ![e.pid] = "PRCURR"]
    BY <1>2
  <2>2. Pids(queued) = IF ps[currpid] = "PRCURR" THEN Pids(rd) \cup {currpid} ELSE Pids(rd)
    BY PidsInsert
  <2>3. old \in [All -> States]
    BY DEF States
  <2>4. e.pid \in Pids(queued) /\ Pids(queued) \subseteq All
    BY <2>1, <2>2 DEF Pids
  <2>5. Pids(rdy') = Pids(queued) \ {e.pid}
    BY <2>1, PidsRemove
  <2>6. \A p \in All : old[p] = "PRREADY" <=> p \in Pids(queued)
    BY <2>2
  <2>7. \A p \in All : old[p] # "PRCURR" /\ (old[p] = "PRWAIT" <=> ps[p] = "PRWAIT")
    OBVIOUS
  <2> HIDE DEF queued, old
  <2>8. \A p \in All : pstate'[p] = IF p = e.pid THEN "PRCURR" ELSE old[p]
    BY <2>1, <2>3
  <2>9. pstate' \in [All -> States]
    BY <2>1, <2>3 DEF States
  <2>10. old[e.pid] = "PRREADY"
    BY <2>4, <2>6
  <2> QED
    BY <2>1, <2>4, <2>5, <2>6, <2>7, <2>8, <2>9, <2>10
<1> QED
  BY <1>1, <1>2 DEF Resched
PInv == Shape /\ Placement

\* An action that changes the wait queues and lockid consistently and then
\* calls resched() keeps the invariant.
LEMMA ReschedKeeps ==
  ASSUME NEW ps \in [All -> States], NEW rd, currpid \in All,
         Pids(rd) \subseteq All,
         \A p \in All : ps[p] = "PRREADY" <=> p \in Pids(rd),
         \A p \in All : ps[p] = "PRCURR" => p = currpid,
         Resched(ps, rd),
         lockid' \in [All -> Locks \cup {NOTINWQ}],
         waitq' = [l \in Locks |-> waitq'[l]],
         \A l \in Locks : Pids(waitq'[l]) \subseteq All,
         \A p \in All : ps[p] = "PRWAIT" => lockid'[p] \in Locks,
         \A p \in All, l \in Locks :
           p \in Pids(waitq'[l]) <=> ps[p] = "PRWAIT" /\ lockid'[p] = l
  PROVE  PInv'
<1> USE ReschedPlaces
<1>1. Shape'
  BY DEF Shape
<1>2. Placement'
  BY DEF Placement
<1> QED
  BY <1>1, <1>2 DEF PInv

\* An action that ends in resched() and leaves the wait queues alone.
LEMMA ReschedOnly ==
  ASSUME PInv, NEW ps \in [All -> States], NEW rd,
         Pids(rd) \subseteq All,
         \A p \in All : ps[p] = "PRREADY" <=> p \in Pids(rd),
         \A p \in All : ps[p] = "PRCURR" => p = currpid,
         \A p \in All : ps[p] = "PRWAIT" <=> pstate[p] = "PRWAIT",
         Resched(ps, rd), UNCHANGED <<lockid, waitq>>
  PROVE  PInv'
<1>1. /\ lockid' = lockid /\ waitq' = waitq
  OBVIOUS
<1>2. /\ lockid' \in [All -> Locks \cup {NOTINWQ}]
      /\ waitq' = [l \in Locks |-> waitq'[l]]
      /\ \A l \in Locks : Pids(waitq'[l]) \subseteq All
      /\ currpid \in All
      /\ \A p \in All : ps[p] = "PRWAIT" => lockid'[p] \in Locks
  BY <1>1 DEF PInv, Shape
<1>3. \A p \in All, l \in Locks :
        p \in Pids(waitq'[l]) <=> ps[p] = "PRWAIT" /\ lockid'[p] = l
  BY <1>1 DEF PInv, Placement
<1> QED
  BY <1>2, <1>3, ReschedKeeps

\* ready() of processes that are not waiting for a lock, then resched().
LEMMA ReadyKeeps ==
  ASSUME PInv, NEW S \in SUBSET All, NEW E, Pids(E) = S,
         \A p \in S : pstate[p] \notin {"PRWAIT", "PRCURR"},
         Resched(ReadyState(S), InsertAll(rdy, E)), UNCHANGED <<lockid, waitq>>
  PROVE  PInv'
<1> DEFINE ps == ReadyState(S)
           rd == InsertAll(rdy, E)
<1>1. Pids(rd) = Pids(rdy) \cup S
  BY PidsInsertAll
<1>2. /\ ps \in [All -> States]
      /\ \A p \in All : ps[p] = IF p \in S THEN "PRREADY" ELSE pstate[p]
  BY DEF PInv, Shape, ReadyState, States
<1> HIDE DEF ps, rd
<1>3. /\ Pids(rd) \subseteq All
      /\ \A p \in All : ps[p] = "PRREADY" <=> p \in Pids(rd)
      /\ \A p \in All : ps[p] = "PRCURR" => p = currpid
      /\ \A p \in All : ps[p] = "PRWAIT" <=> pstate[p] = "PRWAIT"
  BY <1>1, <1>2 DEF PInv, Shape, Placement
<1>4. Resched(ps, rd)
  BY DEF ps, rd
<1> QED
  BY <1>2, <1>3, <1>4, ReschedOnly
-----------------------------------------------------------------------------
(* Every action keeps PInv *)

PVars == <<pstate, lockid, waitq, rdy, currpid>>

LEMMA PInvStutter ==
  ASSUME PInv, UNCHANGED PVars
  PROVE  PInv'
  BY DEF PInv, Shape, Placement, PVars

LEMMA PInvInit == Init => PInv
<1> SUFFICES ASSUME Init PROVE PInv
  OBVIOUS
<1>1. Started \subseteq All /\ NULLPROC \in All
  BY ProcsAssumption DEF All
<1>2. currpid \in Started /\ NULLPROC \notin Started
  BY ProcsAssumption DEF Init, NULLPROC
<1>3. Pids(rdy) = (Started \cup {NULLPROC}) \ {currpid}
  <2> DEFINE S == (Started \cup {NULLPROC}) \ {currpid}
             E == { [pid |-> p, key |-> pprio[p], turn |-> -p] : p \in S }
  <2>1. rdy = InsertAll({}, E)
    BY Zenon DEF Init
  <2> HIDE DEF S
  <2>2. \A p \in S : [pid |-> p, key |-> pprio[p], turn |-> -p] \in E
    OBVIOUS
  <2>3. Pids(E) = S
    <3>1. \A p \in S : \E x \in E : x.pid = p
      BY <2>2
    <3>2. \A x \in E : x.pid \in S
      OBVIOUS
    <3> QED
      BY <3>1, <3>2, PidsOf
  <2> USE DEF S
  <2>4. Pids({}) = {}
    BY DEF Pids
  <2> QED
    BY <2>1, <2>3, <2>4, PidsInsertAll
<1>4. \A l \in Locks : waitq[l] = {} /\ Pids(waitq[l]) = {}
  BY DEF Init, Pids
<1>5. pstate = [p \in All |-> IF p = currpid THEN "PRCURR"
                              ELSE IF p \in Started \cup {NULLPROC} THEN "PRREADY"
                              ELSE "PRFREE"]
  BY DEF Init
<1>6. lockid \in [All -> Locks \cup {NOTINWQ}]
  BY ProcsAssumption DEF Init, Locks
<1>7. Shape
  BY <1>1, <1>2, <1>3, <1>4, <1>5, <1>6 DEF Init, Shape, States
<1>8. Placement
  BY <1>1, <1>2, <1>3, <1>4, <1>5 DEF Placement
<1> QED
  BY <1>7, <1>8 DEF PInv
\* The current process is neither ready nor waiting.
LEMMA Current ==
  ASSUME PInv
  PROVE  /\ currpid \in All /\ pstate[currpid] = "PRCURR"
         /\ currpid \notin Pids(rdy)
         /\ \A l \in Locks : currpid \notin Pids(waitq[l])
  BY DEF PInv, Shape, Placement

\* The current process blocks or ends, and resched() is called.
LEMMA LeaveKeeps ==
  ASSUME PInv, NEW s \in {"PRSLEEP", "PRFREE"},
         Resched([pstate EXCEPT ![currpid] = s], rdy), UNCHANGED <<lockid, waitq>>
  PROVE  PInv'
<1> DEFINE ps == [pstate EXCEPT ![currpid] = s]
<1>1. /\ ps \in [All -> States] /\ Pids(rdy) \subseteq All
      /\ \A p \in All : ps[p] = "PRREADY" <=> p \in Pids(rdy)
      /\ \A p \in All : ps[p] = "PRCURR" => p = currpid
      /\ \A p \in All : ps[p] = "PRWAIT" <=> pstate[p] = "PRWAIT"
  BY Current DEF PInv, Shape, Placement, States
<1> HIDE DEF ps
<1>2. Resched(ps, rdy)
  BY DEF ps
<1> QED
  BY <1>1, <1>2, ReschedOnly

LEMMA PInvSleep == ASSUME PInv, Sleep  PROVE PInv'
  BY LeaveKeeps DEF Sleep, procVars, lockVars

LEMMA PInvExit == ASSUME PInv, Exit  PROVE PInv'
  BY LeaveKeeps DEF Exit, procVars, lockVars

LEMMA PInvClkInt == ASSUME PInv, ClkInt  PROVE PInv'
<1>1. /\ pstate \in [All -> States] /\ Pids(rdy) \subseteq All
      /\ \A p \in All : pstate[p] = "PRREADY" <=> p \in Pids(rdy)
      /\ \A p \in All : pstate[p] = "PRCURR" => p = currpid
  BY DEF PInv, Shape, Placement
<1>2. Resched(pstate, rdy) /\ UNCHANGED <<lockid, waitq>>
  BY DEF ClkInt, procVars, lockVars
<1> QED
  BY <1>1, <1>2, ReschedOnly

LEMMA PInvWakeup ==
  ASSUME PInv, NEW S \in SUBSET Procs, Wakeup(S)
  PROVE  PInv'
<1>1. PICK order : Resched(ReadyState(S), InsertAll(rdy,
         { [pid |-> p, key |-> FindPrio(p, pinh), turn |-> order[p]] : p \in S }))
  BY Zenon DEF Wakeup, ReadyList
<1> DEFINE E == { [pid |-> p, key |-> FindPrio(p, pinh), turn |-> order[p]] : p \in S }
<1>2. Resched(ReadyState(S), InsertAll(rdy, E))
  BY <1>1
<1>3. \A p \in S : [pid |-> p, key |-> FindPrio(p, pinh), turn |-> order[p]] \in E
  OBVIOUS
<1>4. \A x \in E : x.pid \in S
  OBVIOUS
<1>5. \A p \in S : \E x \in E : x.pid = p
  BY <1>3
<1> HIDE DEF E
<1>6. Pids(E) = S
  BY <1>4, <1>5, PidsOf
<1>7. /\ S \in SUBSET All
      /\ \A p \in S : pstate[p] \notin {"PRWAIT", "PRCURR"}
      /\ UNCHANGED <<lockid, waitq>>
  BY DEF Wakeup, All, procVars, lockVars
<1> QED
  BY <1>2, <1>6, <1>7, ReadyKeeps

LEMMA PInvResume ==
  ASSUME PInv, NEW p \in Procs, Resume(p)
  PROVE  PInv'
<1> DEFINE E == { [pid |-> q, key |-> FindPrio(q, pinh), turn |-> 0] : q \in {p} }
<1>1. Resched(ReadyState({p}), InsertAll(rdy, E))
  BY DEF Resume, ReadyList
<1>2. [pid |-> p, key |-> FindPrio(p, pinh), turn |-> 0] \in E
  OBVIOUS
<1>3. \A x \in E : x.pid \in {p}
  OBVIOUS
<1>4. \A q \in {p} : \E x \in E : x.pid = q
  BY <1>2
<1> HIDE DEF E
<1>5. Pids(E) = {p}
  BY <1>3, <1>4, PidsOf
<1>6. /\ {p} \in SUBSET All
      /\ \A q \in {p} : pstate[q] \notin {"PRWAIT", "PRCURR"}
      /\ UNCHANGED <<lockid, waitq>>
  BY DEF Resume, All, procVars, lockVars
<1> QED
  BY <1>1, <1>5, <1>6, ReadyKeeps

LEMMA PInvCreate ==
  ASSUME PInv, NEW p \in Procs, NEW prio, Create(p, prio)
  PROVE  PInv'
<1>1. p \in All /\ pstate[p] = "PRFREE" /\ pstate' = [pstate EXCEPT ![p] = "PRSUSP"]
  BY DEF Create, Alive, All
<1>2. UNCHANGED <<lockid, waitq, rdy, currpid>>
  BY DEF Create, lockVars
<1> QED
  BY <1>1, <1>2 DEF PInv, Shape, Placement, States

LEMMA PInvKillIdle ==
  ASSUME PInv, NEW p \in Procs, KillIdle(p)
  PROVE  PInv'
<1>1. /\ p \in All /\ pstate[p] \in {"PRREADY", "PRSLEEP", "PRSUSP"}
      /\ pstate' = [pstate EXCEPT ![p] = "PRFREE"]
      /\ Pids(rdy') = Pids(rdy) \ {p}
  BY PidsRemove DEF KillIdle, All
<1>2. UNCHANGED <<lockid, waitq, currpid>>
  BY DEF KillIdle, procVars, lockVars
<1> QED
  BY <1>1, <1>2 DEF PInv, Shape, Placement, States

LEMMA PInvKillWaiter ==
  ASSUME PInv, NEW p \in Procs, KillWaiter(p)
  PROVE  PInv'
<1> DEFINE l == lockid[p]
<1>1. /\ p \in All /\ pstate[p] = "PRWAIT"
      /\ pstate' = [pstate EXCEPT ![p] = "PRFREE"]
      /\ waitq' = [waitq EXCEPT ![l] = Remove(@, {p})]
      /\ lockid' = [lockid EXCEPT ![p] = NOTINWQ]
      /\ UNCHANGED <<rdy, currpid>>
  BY DEF KillWaiter, All
<1>2. l \in Locks
  BY <1>1 DEF PInv, Shape
<1>3. \A k \in Locks : Pids(waitq'[k]) = IF k = l THEN Pids(waitq[k]) \ {p} ELSE Pids(waitq[k])
  BY <1>1, <1>2, PidsRemove DEF PInv, Shape
<1>4. waitq' = [k \in Locks |-> waitq'[k]]
  BY <1>1, <1>2 DEF PInv, Shape
<1> HIDE DEF l
<1>5. /\ \A q \in All : pstate'[q] = IF q = p THEN "PRFREE" ELSE pstate[q]
      /\ \A q \in All : lockid'[q] = IF q = p THEN NOTINWQ ELSE lockid[q]
  BY <1>1 DEF PInv, Shape
<1>6. /\ p \in All /\ pstate[p] = "PRWAIT" /\ rdy' = rdy /\ currpid' = currpid
      /\ pstate' \in [All -> States] /\ lockid' \in [All -> Locks \cup {NOTINWQ}]
  BY <1>1 DEF PInv, Shape, States
<1>7. Shape'
  BY <1>3, <1>4, <1>5, <1>6 DEF PInv, Shape
<1>8. lockid[p] = l
  BY DEF l
<1>9. Placement'
  <2>1. \A q \in All : pstate'[q] = "PRCURR" <=> q = currpid'
    BY <1>5, <1>6 DEF PInv, Placement
  <2>2. \A q \in All : pstate'[q] = "PRREADY" <=> q \in Pids(rdy')
    BY <1>5, <1>6 DEF PInv, Placement
  <2>3. ASSUME NEW q \in All, NEW k \in Locks
        PROVE  q \in Pids(waitq'[k]) <=> pstate'[q] = "PRWAIT" /\ lockid'[q] = k
    <3>1. q \in Pids(waitq[k]) <=> pstate[q] = "PRWAIT" /\ lockid[q] = k
      BY DEF PInv, Placement
    <3>2. q \in Pids(waitq'[k]) <=> q \in Pids(waitq[k]) /\ (k = l => q # p)
      BY <1>3
    <3> QED
      BY <3>1, <3>2, <1>5, <1>8
  <2> QED
    BY <2>1, <2>2, <2>3 DEF Placement
<1> QED
  BY <1>7, <1>9 DEF PInv
\* Waiters of one lock leave its queue and are readied: ldelete() and a
\* hand-over.
LEMMA AdmitKeeps ==
  ASSUME PInv, NEW l \in Locks, NEW G \in SUBSET Pids(waitq[l]), NEW E, Pids(E) = G,
         lockid' = OffQueue(G),
         waitq' = [k \in Locks |-> waitq'[k]],
         \A k \in Locks : Pids(waitq'[k]) = IF k = l THEN Pids(waitq[k]) \ G ELSE Pids(waitq[k]),
         Resched(ReadyState(G), InsertAll(rdy, E))
  PROVE  PInv'
<1> DEFINE ps == ReadyState(G)
           rd == InsertAll(rdy, E)
<1>1. G \subseteq All /\ \A p \in G : pstate[p] = "PRWAIT" /\ lockid[p] = l
  BY DEF PInv, Shape, Placement
<1>2. /\ ps \in [All -> States]
      /\ \A p \in All : ps[p] = IF p \in G THEN "PRREADY" ELSE pstate[p]
  BY DEF PInv, Shape, ReadyState, States
<1>3. Pids(rd) = Pids(rdy) \cup G
  BY PidsInsertAll
<1>4. Resched(ps, rd)
  OBVIOUS
<1> HIDE DEF ps, rd
<1>5. /\ Pids(rd) \subseteq All
      /\ \A p \in All : ps[p] = "PRREADY" <=> p \in Pids(rd)
      /\ \A p \in All : ps[p] = "PRCURR" => p = currpid
  BY <1>1, <1>2, <1>3 DEF PInv, Shape, Placement
<1>6. /\ lockid' \in [All -> Locks \cup {NOTINWQ}]
      /\ \A p \in All : lockid'[p] = IF p \in G THEN NOTINWQ ELSE lockid[p]
  BY DEF PInv, Shape, OffQueue
<1>7. /\ currpid \in All
      /\ \A k \in Locks : Pids(waitq'[k]) \subseteq All
      /\ \A p \in All : ps[p] = "PRWAIT" => lockid'[p] \in Locks
  BY <1>2, <1>6 DEF PInv, Shape
<1>8. ASSUME NEW p \in All, NEW k \in Locks
      PROVE  p \in Pids(waitq'[k]) <=> ps[p] = "PRWAIT" /\ lockid'[p] = k
  <2>1. p \in Pids(waitq[k]) <=> pstate[p] = "PRWAIT" /\ lockid[p] = k
    BY DEF PInv, Placement
  <2>2. p \in Pids(waitq'[k]) <=> p \in Pids(waitq[k]) /\ (k = l => p \notin G)
    OBVIOUS
  <2> QED
    BY <1>1, <1>2, <1>6, <2>1, <2>2
<1> QED
  BY <1>2, <1>4, <1>5, <1>6, <1>7, <1>8, ReschedKeeps

LEMMA PInvLdelete ==
  ASSUME PInv, NEW l \in Locks, Ldelete(l)
  PROVE  PInv'
<1> DEFINE woken   == Pids(waitq[l])
           turn(p) == Cardinality({e \in waitq[l] : \E f \in waitq[l] : f.pid = p /\ Ahead(f, e)})
           E == { [pid |-> p, key |-> FindPrio(p, pinh), turn |-> turn(p)] : p \in woken }
<1>1. lockid' = OffQueue(woken) /\ waitq' = [waitq EXCEPT ![l] = {}]
  BY DEF Ldelete
<1>2. Pids({}) = {}
  BY DEF Pids
<1>3. /\ waitq' = [k \in Locks |-> waitq'[k]]
      /\ \A k \in Locks : Pids(waitq'[k]) = IF k = l THEN Pids(waitq[k]) \ woken ELSE Pids(waitq[k])
  BY <1>1, <1>2 DEF PInv, Shape
<1>4. CASE woken = {}
  <2>1. UNCHANGED <<pstate, rdy, currpid>>
    BY <1>4 DEF Ldelete, schedVars
  <2>2. lockid' = lockid
    BY <1>1, <1>4 DEF PInv, Shape, OffQueue
  <2>3. \A k \in Locks : Pids(waitq'[k]) = Pids(waitq[k])
    BY <1>3, <1>4
  <2> QED
    BY <1>3, <2>1, <2>2, <2>3 DEF PInv, Shape, Placement
<1>5. CASE woken # {}
  <2>1. Resched(ReadyState(woken), InsertAll(rdy, E))
    BY <1>5, Zenon DEF Ldelete, ReadyList
  <2> HIDE DEF turn
  <2>2. \A p \in woken : [pid |-> p, key |-> FindPrio(p, pinh), turn |-> turn(p)] \in E
    OBVIOUS
  <2>3. \A x \in E : x.pid \in woken
    OBVIOUS
  <2>4. \A p \in woken : \E x \in E : x.pid = p
    BY <2>2
  <2> HIDE DEF E
  <2>5. Pids(E) = woken
    BY <2>3, <2>4, PidsOf
  <2> QED
    BY <1>1, <1>3, <2>1, <2>5, AdmitKeeps
<1> QED
  BY <1>4, <1>5

LEMMA PInvLockFree ==
  ASSUME PInv, NEW l \in Locks, NEW type, LockFree(l, type)
  PROVE  PInv'
<1>1. lockid' = [lockid EXCEPT ![currpid] = NOTINWQ] /\ UNCHANGED <<pstate, waitq, rdy, currpid>>
  BY DEF LockFree, schedVars
<1> QED
  BY <1>1, Current DEF PInv, Shape, Placement

LEMMA PInvLockWait ==
  ASSUME PInv, NEW l \in Locks, NEW type, NEW priority, LockWait(l, type, priority)
  PROVE  PInv'
<1> DEFINE ps == [pstate EXCEPT ![currpid] = "PRWAIT"]
<1>1. /\ lockid' = [lockid EXCEPT ![currpid] = l]
      /\ waitq' = [waitq EXCEPT ![l] = Insert(@, currpid, priority)]
      /\ Resched(ps, rdy)
  BY DEF LockWait
<1>2. /\ ps \in [All -> States]
      /\ \A p \in All : ps[p] = IF p = currpid THEN "PRWAIT" ELSE pstate[p]
  BY DEF PInv, Shape, States
<1> HIDE DEF ps
<1>3. /\ Pids(rdy) \subseteq All
      /\ \A p \in All : ps[p] = "PRREADY" <=> p \in Pids(rdy)
      /\ \A p \in All : ps[p] = "PRCURR" => p = currpid
  BY <1>2, Current DEF PInv, Shape, Placement
<1>4. /\ waitq' = [k \in Locks |-> waitq'[k]]
      /\ \A k \in Locks : Pids(waitq'[k]) =
                           IF k = l THEN Pids(waitq[k]) \cup {currpid} ELSE Pids(waitq[k])
  BY <1>1, PidsInsert DEF PInv, Shape
<1>5. /\ lockid' \in [All -> Locks \cup {NOTINWQ}]
      /\ \A p \in All : lockid'[p] = IF p = currpid THEN l ELSE lockid[p]
  BY <1>1 DEF PInv, Shape
<1>6. /\ currpid \in All
      /\ \A k \in Locks : Pids(waitq'[k]) \subseteq All
      /\ \A p \in All : ps[p] = "PRWAIT" => lockid'[p] \in Locks
  BY <1>2, <1>4, <1>5 DEF PInv, Shape
<1>7. ASSUME NEW p \in All, NEW k \in Locks
      PROVE  p \in Pids(waitq'[k]) <=> ps[p] = "PRWAIT" /\ lockid'[p] = k
  <2>1. p \in Pids(waitq[k]) <=> pstate[p] = "PRWAIT" /\ lockid[p] = k
    BY DEF PInv, Placement
  <2>2. p \in Pids(waitq'[k]) <=> p \in Pids(waitq[k]) \/ (k = l /\ p = currpid)
    BY <1>4
  <2> QED
    BY <1>2, <1>5, <2>1, <2>2, Current
<1> QED
  BY <1>1, <1>2, <1>3, <1>4, <1>5, <1>6, <1>7, ReschedKeeps
\* A release admits waiters of the lock only: the readers it chooses or one
\* writer.
LEMMA AdmittedKinds ==
  ASSUME NEW l
  PROVE  \/ Admitted(l) \subseteq Readers(l)
         \/ \E w \in Writers(l) : Admitted(l) = {w}
<1> DEFINE t == CHOOSE t \in waitq[l] : IsLast(waitq[l], t)
<1>1. Admitted(l) = IF t \in Writers(l) THEN WriterFirst(l, t) ELSE ReaderFirst(l, t)
  BY Zenon DEF Admitted
<1> HIDE DEF t
<1>2. ReaderFirst(l, t) \subseteq Readers(l)
  BY DEF ReaderFirst
<1>3. Favoured(Readers(l), t) \subseteq Readers(l)
  BY DEF Favoured, Prefix
<1>4. WriterFirst(l, t) = {t} \/ WriterFirst(l, t) \subseteq Readers(l)
  BY <1>3, Zenon DEF WriterFirst
<1> QED
  BY <1>1, <1>2, <1>4

LEMMA AdmittedWaits ==
  ASSUME NEW l
  PROVE  Pids(Admitted(l)) \subseteq Pids(waitq[l])
<1>1. Readers(l) \subseteq waitq[l] /\ Writers(l) \subseteq waitq[l]
  BY DEF Readers, Writers
<1> QED
  BY <1>1, AdmittedKinds DEF Pids

LEMMA PInvHandOver ==
  ASSUME PInv, NEW l \in Locks, ReleaseHandOver(l)
  PROVE  PInv'
<1> DEFINE G == Pids(Admitted(l))
           turn(p) == Cardinality({e \in waitq[l] : \E f \in waitq[l] : f.pid = p /\ Ahead(e, f)})
           E == { [pid |-> p, key |-> FindPrio(p, pinh), turn |-> turn(p)] : p \in G }
<1>1. /\ lockid' = OffQueue(G)
      /\ waitq' = [waitq EXCEPT ![l] = Remove(@, G)]
      /\ Resched(ReadyState(G), InsertAll(rdy, E))
  BY Zenon DEF ReleaseHandOver, ReadyList
<1> HIDE DEF turn
<1>2. \A p \in G : [pid |-> p, key |-> FindPrio(p, pinh), turn |-> turn(p)] \in E
  OBVIOUS
<1>3. \A x \in E : x.pid \in G
  OBVIOUS
<1>4. \A p \in G : \E x \in E : x.pid = p
  BY <1>2
<1> HIDE DEF E
<1>5. Pids(E) = G
  BY <1>3, <1>4, PidsOf
<1>6. G \in SUBSET Pids(waitq[l])
  BY AdmittedWaits
<1> HIDE DEF G
<1>7. /\ waitq' = [k \in Locks |-> waitq'[k]]
      /\ \A k \in Locks : Pids(waitq'[k]) = IF k = l THEN Pids(waitq[k]) \ G ELSE Pids(waitq[k])
  BY <1>1, PidsRemove DEF PInv, Shape
<1> QED
  BY <1>1, <1>5, <1>6, <1>7, AdmitKeeps

LEMMA PInvRelease ==
  ASSUME PInv, NEW l, NEW more, Release(l, more)
  PROVE  PInv'
<1>1. CASE ReleaseRefused(l)
  BY <1>1, PInvStutter DEF ReleaseRefused, PVars, schedVars
<1>2. CASE ReleaseShared(l)
  BY <1>2, PInvStutter DEF ReleaseShared, NobodyAdmitted, PVars, schedVars
<1>3. CASE ReleaseFree(l)
  BY <1>3, PInvStutter DEF ReleaseFree, NobodyAdmitted, PVars, schedVars
<1>4. CASE ReleaseHandOver(l)
  <2>1. l \in Locks
    BY <1>4 DEF ReleaseHandOver, Releasable
  <2> QED
    BY <1>4, <2>1, PInvHandOver
<1> QED
  BY <1>1, <1>2, <1>3, <1>4 DEF Release

LEMMA PInvLock ==
  ASSUME PInv, NEW l \in Locks, LockCall(l)
  PROVE  PInv'
<1>1. CASE \E type \in Types : LockFree(l, type)
  BY <1>1, PInvLockFree
<1>2. CASE \E priority \in WaitPrios : LockJoin(l, priority)
  BY <1>2, PInvStutter DEF LockJoin, PVars, schedVars
<1>3. CASE \E type \in Types, priority \in WaitPrios : LockWait(l, type, priority)
  BY <1>3, PInvLockWait
<1> QED
  BY <1>1, <1>2, <1>3 DEF LockCall

LEMMA PInvScheduling ==
  ASSUME PInv, Scheduling
  PROVE  PInv'
<1>1. CASE Sleep
  BY <1>1, PInvSleep
<1>2. CASE \E S \in SUBSET Procs : Wakeup(S)
  BY <1>2, PInvWakeup
<1>3. CASE ClkInt
  BY <1>3, PInvClkInt
<1>4. CASE \E p \in Procs, v \in NewPrios : Chprio(p, v)
  BY <1>4, PInvStutter DEF Chprio, PVars, schedVars, lockVars
<1>5. CASE \E p \in Procs, v \in Prios : Create(p, v)
  BY <1>5, PInvCreate
<1>6. CASE \E p \in Procs : Resume(p)
  BY <1>6, PInvResume
<1> QED
  BY <1>1, <1>2, <1>3, <1>4, <1>5, <1>6 DEF Scheduling

LEMMA PInvNext == PInv /\ [Next]_vars => PInv'
<1> SUFFICES ASSUME PInv, [Next]_vars PROVE PInv'
  OBVIOUS
<1>1. CASE \E l \in Locks : Lcreate(l)
  BY <1>1, PInvStutter DEF Lcreate, PVars, procVars, schedVars
<1>2. CASE \E l \in Locks : Ldelete(l)
  BY <1>2, PInvLdelete
<1>3. CASE \E l \in Locks : LockCall(l)
  BY <1>3, PInvLock
<1>4. CASE ReleaseCall
  BY <1>4, PInvRelease DEF ReleaseCall, Releaseall
<1>5. CASE ReleaseNext
  BY <1>5, PInvRelease DEF ReleaseNext
<1>6. CASE Scheduling
  BY <1>6, PInvScheduling
<1>7. CASE Exit
  BY <1>7, PInvExit
<1>8. CASE \E p \in Procs : KillIdle(p) \/ KillWaiter(p)
  BY <1>8, PInvKillIdle, PInvKillWaiter
<1>9. CASE UNCHANGED vars
  BY <1>9, PInvStutter DEF vars, PVars
<1> QED
  BY <1>1, <1>2, <1>3, <1>4, <1>5, <1>6, <1>7, <1>8, <1>9 DEF Next

\* Under any sequence of calls, kills, deletions and clock interrupts every
\* process is where its state says: current, on the ready list, or on the wait
\* queue of the lock that its lockid names, and nowhere else.
THEOREM PlacementTheorem == Spec => []Placement
<1>1. PInv => Placement
  BY DEF PInv
<1> QED
  BY <1>1, PInvInit, PInvNext, PTL DEF Spec
-----------------------------------------------------------------------------
(* The locks of rule-abiding clients *)

LTypes ==
  /\ locksState \in [All -> [Locks -> Types \cup {"EMPTY", "DELETED"}]]
  /\ lproc \in [Locks -> SUBSET All]
  /\ lstate \in [Locks -> {"LFREE", "LCREATE", "LUSED"}]
  /\ ltype \in [Locks -> Types \cup {"EMPTY"}]

\* What holds of one lock: the processes whose locksState names a type for it
\* hold it or wait for it and not both, it is in use while it is held, its
\* holders have the lock's type, and a writer holds it alone.
Owned(l) ==
  /\ \A p \in All : locksState[p][l] \in Types <=> p \in lproc[l] \cup Pids(waitq[l])
  /\ lproc[l] # {} => lstate[l] = "LUSED"
  /\ \A p \in lproc[l] : locksState[p][l] = ltype[l] /\ p \notin Pids(waitq[l])
  /\ ltype[l] = "WRITE" => \A p, q \in lproc[l] : p = q

CInv == PInv /\ LTypes /\ \A l \in Locks : Owned(l)

LTables == <<locksState, lproc, lstate, ltype, waitq>>

LEMMA CInvInit == Init => CInv
<1> SUFFICES ASSUME Init PROVE CInv
  OBVIOUS
<1>1. LTypes
  BY DEF Init, LTypes
<1>2. Pids({}) = {}
  BY DEF Pids
<1>3. ASSUME NEW l \in Locks  PROVE Owned(l)
  BY <1>2 DEF Init, Owned, Types
<1> QED
  BY <1>1, <1>3, PInvInit DEF CInv

\* A step that leaves the lock tables alone.
LEMMA CInvSame ==
  ASSUME CInv, PInv', UNCHANGED LTables
  PROVE  CInv'
<1>1. LTypes'
  BY DEF CInv, LTypes, LTables
<1>2. ASSUME NEW l \in Locks  PROVE Owned(l)'
  BY DEF CInv, Owned, LTables
<1> QED
  BY <1>1, <1>2 DEF CInv

\* A step that changes one lock.
LEMMA CInvOne ==
  ASSUME CInv, PInv', LTypes', NEW l \in Locks, Owned(l)',
         \A k \in Locks \ {l} :
           /\ \A p \in All : locksState'[p][k] = locksState[p][k]
           /\ lproc'[k] = lproc[k] /\ lstate'[k] = lstate[k] /\ ltype'[k] = ltype[k]
           /\ Pids(waitq'[k]) = Pids(waitq[k])
  PROVE  CInv'
<1>1. ASSUME NEW k \in Locks \ {l}  PROVE Owned(k)'
  <2>1. lproc'[k] \subseteq All
    BY DEF CInv, LTypes, All
  <2> QED
    BY <2>1 DEF CInv, Owned
<1> QED
  BY <1>1 DEF CInv

LEMMA CInvLcreate ==
  ASSUME CInv, PInv', NEW l \in Locks, Lcreate(l)
  PROVE  CInv'
<1>1. /\ lstate[l] = "LFREE" /\ lstate' = [lstate EXCEPT ![l] = "LCREATE"]
      /\ UNCHANGED <<locksState, lproc, ltype, waitq>>
  BY DEF Lcreate, NewLock, procVars
<1>2. LTypes'
  BY <1>1 DEF CInv, LTypes
<1>3. lproc[l] = {}
  BY <1>1 DEF CInv, Owned
<1>4. Owned(l)'
  BY <1>1, <1>3 DEF CInv, Owned
<1>5. \A k \in Locks \ {l} : lstate'[k] = lstate[k]
  BY <1>1 DEF CInv, LTypes
<1> QED
  BY <1>1, <1>2, <1>4, <1>5, CInvOne

LEMMA CInvLdelete ==
  ASSUME CInv, PInv', NEW l \in Locks, Unused(l), Ldelete(l)
  PROVE  CInv'
<1>1. lproc[l] = {} /\ waitq[l] = {} /\ Pids(waitq[l]) = {}
  BY DEF Unused, Pids
<1>2. /\ lstate' = [lstate EXCEPT ![l] = "LFREE"]
      /\ ltype' = [ltype EXCEPT ![l] = "EMPTY"]
      /\ lproc' = [lproc EXCEPT ![l] = @ \ {currpid}]
      /\ waitq' = [waitq EXCEPT ![l] = {}]
      /\ locksState' = [p \in All |-> locksState[p]]
  BY <1>1 DEF Ldelete
<1>3. locksState' = locksState /\ waitq' = waitq /\ lproc' = lproc
  <2>1. waitq = [k \in Locks |-> waitq[k]]
    BY DEF CInv, PInv, Shape
  <2>2. locksState \in [All -> [Locks -> Types \cup {"EMPTY", "DELETED"}]] /\ lproc \in [Locks -> SUBSET All]
    BY DEF CInv, LTypes
  <2>3. locksState' = locksState
    BY <1>2, <2>2
  <2>4. waitq' = waitq
    BY <1>1, <1>2, <2>1
  <2>5. lproc' = lproc
    BY <1>1, <1>2, <2>2
  <2> QED
    BY <2>3, <2>4, <2>5
<1>4. LTypes'
  BY <1>2, <1>3 DEF CInv, LTypes
<1>5. Owned(l)'
  BY <1>1, <1>3 DEF CInv, Owned
<1>6. \A k \in Locks \ {l} : lstate'[k] = lstate[k] /\ ltype'[k] = ltype[k]
  BY <1>2 DEF CInv, LTypes
<1> QED
  BY <1>3, <1>4, <1>5, <1>6, CInvOne

\* The caller of lock() is a process, and not on a wait queue.
LEMMA Caller ==
  ASSUME CInv, Running
  PROVE  currpid \in Procs /\ currpid \in All /\ \A l \in Locks : currpid \notin Pids(waitq[l])
  BY Current DEF CInv, Running, All

LEMMA CInvLockFree ==
  ASSUME CInv, PInv', NEW l \in Locks, NEW type \in Types, LockFree(l, type)
  PROVE  CInv'
<1>1. /\ lstate[l] \in {"LCREATE", "LFREE"}
      /\ lstate' = [lstate EXCEPT ![l] = "LUSED"]
      /\ ltype' = [ltype EXCEPT ![l] = type]
      /\ lproc' = [lproc EXCEPT ![l] = @ \cup {currpid}]
      /\ locksState' = [locksState EXCEPT ![currpid][l] = type]
      /\ waitq' = waitq
  BY DEF LockFree
<1>2. currpid \in Procs /\ currpid \in All /\ currpid \notin Pids(waitq[l])
  BY Caller DEF LockFree
<1>3. lproc[l] = {}
  BY <1>1 DEF CInv, Owned
<1>4. LTypes'
  BY <1>1, <1>2 DEF CInv, LTypes
<1>5. \A p \in All, k \in Locks :
        locksState'[p][k] = IF p = currpid /\ k = l THEN type ELSE locksState[p][k]
  BY <1>1, <1>2 DEF CInv, LTypes
<1>6. lproc'[l] = {currpid} /\ lstate'[l] = "LUSED" /\ ltype'[l] = type
  BY <1>1, <1>3 DEF CInv, LTypes
<1>7. Owned(l)'
  BY <1>1, <1>2, <1>3, <1>5, <1>6 DEF CInv, Owned
<1>8. \A k \in Locks \ {l} : lproc'[k] = lproc[k] /\ lstate'[k] = lstate[k] /\ ltype'[k] = ltype[k]
  BY <1>1 DEF CInv, LTypes
<1> QED
  BY <1>1, <1>4, <1>5, <1>7, <1>8, CInvOne

LEMMA CInvLockJoin ==
  ASSUME CInv, PInv', NEW l \in Locks, NEW priority, LockJoin(l, priority)
  PROVE  CInv'
<1>1. /\ lstate[l] = "LUSED" /\ ltype[l] = "READ"
      /\ lproc' = [lproc EXCEPT ![l] = @ \cup {currpid}]
      /\ locksState' = [locksState EXCEPT ![currpid][l] = "READ"]
      /\ UNCHANGED <<lstate, ltype, waitq>>
  BY DEF LockJoin
<1>2. currpid \in Procs /\ currpid \in All /\ currpid \notin Pids(waitq[l])
  BY Caller DEF LockJoin
<1>3. LTypes'
  BY <1>1, <1>2 DEF CInv, LTypes, Types
<1>4. \A p \in All, k \in Locks :
        locksState'[p][k] = IF p = currpid /\ k = l THEN "READ" ELSE locksState[p][k]
  BY <1>1, <1>2 DEF CInv, LTypes
<1>5. lproc'[l] = lproc[l] \cup {currpid} /\ lproc'[l] \subseteq All
  BY <1>1, <1>2 DEF CInv, LTypes, All
<1>6. Owned(l)'
  BY <1>1, <1>2, <1>4, <1>5 DEF CInv, Owned, Types
<1>7. \A k \in Locks \ {l} : lproc'[k] = lproc[k]
  BY <1>1 DEF CInv, LTypes
<1> QED
  BY <1>1, <1>3, <1>4, <1>6, <1>7, CInvOne

LEMMA CInvLockWait ==
  ASSUME CInv, PInv', NEW l \in Locks, NEW type \in Types, NEW priority,
         Fresh(l), LockWait(l, type, priority)
  PROVE  CInv'
<1>1. /\ lstate[l] = "LUSED"
      /\ waitq' = [waitq EXCEPT ![l] = Insert(@, currpid, priority)]
      /\ locksState' = [locksState EXCEPT ![currpid][l] = type]
      /\ UNCHANGED <<lproc, lstate, ltype>>
  BY DEF LockWait, MustWait
<1>2. currpid \in All /\ currpid \notin lproc[l]
  BY Caller DEF LockWait, Fresh
<1>3. LTypes'
  BY <1>1, <1>2 DEF CInv, LTypes
<1>4. \A p \in All, k \in Locks :
        locksState'[p][k] = IF p = currpid /\ k = l THEN type ELSE locksState[p][k]
  BY <1>1, <1>2 DEF CInv, LTypes
<1>5. \A k \in Locks : Pids(waitq'[k]) =
                       IF k = l THEN Pids(waitq[k]) \cup {currpid} ELSE Pids(waitq[k])
  <2>1. waitq = [k \in Locks |-> waitq[k]]
    BY DEF CInv, PInv, Shape
  <2> QED
    BY <1>1, <2>1, PidsInsert
<1>6. lproc[l] \subseteq All
  BY DEF CInv, LTypes, All
<1>7. Owned(l)'
  <2>1. Owned(l)
    BY DEF CInv
  <2>2. /\ lproc'[l] = lproc[l] /\ lstate'[l] = lstate[l] /\ ltype'[l] = ltype[l]
        /\ Pids(waitq'[l]) = Pids(waitq[l]) \cup {currpid}
        /\ \A p \in All : locksState'[p][l] = IF p = currpid THEN type ELSE locksState[p][l]
    BY <1>1, <1>4, <1>5
  <2>3. \A p \in All : locksState'[p][l] \in Types <=> p \in lproc'[l] \cup Pids(waitq'[l])
    BY <2>1, <2>2 DEF Owned
  <2>4. \A p \in lproc'[l] : locksState'[p][l] = ltype'[l] /\ p \notin Pids(waitq'[l])
    BY <1>2, <1>6, <2>1, <2>2 DEF Owned
  <2> QED
    BY <2>1, <2>2, <2>3, <2>4 DEF Owned
<1> QED
  BY <1>1, <1>3, <1>4, <1>5, <1>7, CInvOne
\* What release() knows of its caller once the checks have passed: it holds the
\* lock, and when it passes the lock on it is the only holder.
LEMMA Releaser ==
  ASSUME CInv, NEW l, Releasable(currpid, l)
  PROVE  /\ l \in Locks /\ currpid \in lproc[l] /\ currpid \in All
         /\ lstate[l] = "LUSED" /\ currpid \notin Pids(waitq[l])
         /\ ltype[l] \in Types
         /\ PassesOn(l) => lproc[l] = {currpid}
         /\ ~PassesOn(l) => ltype[l] = "READ"
<1>1. l \in Locks /\ locksState[currpid][l] \notin {"DELETED", "EMPTY"}
  BY DEF Releasable
<1>2. currpid \in All /\ currpid \notin Pids(waitq[l])
  BY <1>1, Current DEF CInv
<1>3. locksState[currpid][l] \in Types
  BY <1>1, <1>2 DEF CInv, LTypes
<1>4. Owned(l)
  BY <1>1 DEF CInv
<1>5. currpid \in lproc[l]
  BY <1>2, <1>3, <1>4 DEF Owned
<1>6. lstate[l] = "LUSED" /\ ltype[l] \in Types
  BY <1>3, <1>4, <1>5 DEF Owned
<1>7. ASSUME PassesOn(l)  PROVE lproc[l] = {currpid}
  <2>1. CASE ltype[l] = "WRITE"
    BY <1>4, <1>5, <2>1 DEF Owned
  <2>2. CASE Cardinality(lproc[l]) = 1
    <3>1. lproc[l] \in SUBSET All
      BY <1>1 DEF CInv, LTypes
    <3>2. IsFiniteSet(All)
      BY ProcsAssumption, FS_AddElement DEF All
    <3>. IsFiniteSet(lproc[l])
      BY <3>1, <3>2, FS_Subset
    <3>3. \E x : lproc[l] = {x}
      BY <2>2, FS_Singleton
    <3> QED
      BY <1>5, <3>3
  <2> QED
    BY <1>7, <2>1, <2>2 DEF PassesOn
<1>8. ~PassesOn(l) => ltype[l] = "READ"
  BY <1>6 DEF PassesOn, Types
<1> QED
  BY <1>1, <1>2, <1>5, <1>6, <1>7, <1>8

\* The tables after GiveUp(currpid, l).
LEMMA GivenUp ==
  ASSUME CInv, NEW l \in Locks, currpid \in All, GiveUp(currpid, l)
  PROVE  /\ locksState' \in [All -> [Locks -> Types \cup {"EMPTY", "DELETED"}]]
         /\ lproc' \in [Locks -> SUBSET All]
         /\ \A p \in All, k \in Locks :
              locksState'[p][k] = IF p = currpid /\ k = l THEN "EMPTY" ELSE locksState[p][k]
         /\ \A k \in Locks : lproc'[k] = IF k = l THEN lproc[k] \ {currpid} ELSE lproc[k]
  BY DEF CInv, LTypes, GiveUp

LEMMA CInvShared ==
  ASSUME CInv, PInv', NEW l, ReleaseShared(l)
  PROVE  CInv'
<1>1. l \in Locks /\ currpid \in All /\ currpid \notin Pids(waitq[l]) /\ ltype[l] = "READ"
  BY Releaser DEF ReleaseShared
<1>2. /\ GiveUp(currpid, l)
      /\ lstate' = [lstate EXCEPT ![l] = "LUSED"]
      /\ ltype' = [ltype EXCEPT ![l] = "READ"]
      /\ waitq' = waitq
  BY DEF ReleaseShared, NobodyAdmitted
<1>3. LTypes'
  BY <1>1, <1>2, GivenUp DEF CInv, LTypes, Types
<1>4. lstate'[l] = "LUSED" /\ ltype'[l] = "READ"
  BY <1>1, <1>2 DEF CInv, LTypes
<1>5. Owned(l)'
  <2>1. Owned(l)
    BY <1>1 DEF CInv
  <2>2. lproc'[l] = lproc[l] \ {currpid} /\ lproc[l] \subseteq All
    BY <1>1, <1>2, GivenUp DEF CInv, LTypes, All
  <2>3. \A p \in All : locksState'[p][l] = IF p = currpid THEN "EMPTY" ELSE locksState[p][l]
    BY <1>1, <1>2, GivenUp
  <2> QED
    BY <1>1, <1>2, <1>4, <2>1, <2>2, <2>3 DEF Owned, Types
<1>6. \A k \in Locks \ {l} : lstate'[k] = lstate[k] /\ ltype'[k] = ltype[k]
  BY <1>2 DEF CInv, LTypes
<1>7. ASSUME NEW k \in Locks \ {l}
      PROVE  lproc'[k] = lproc[k] /\ \A p \in All : locksState'[p][k] = locksState[p][k]
  <2>1. \A p \in All, j \in Locks :
          locksState'[p][j] = IF p = currpid /\ j = l THEN "EMPTY" ELSE locksState[p][j]
    BY <1>1, <1>2, GivenUp
  <2>2. \A j \in Locks : lproc'[j] = IF j = l THEN lproc[j] \ {currpid} ELSE lproc[j]
    BY <1>1, <1>2, GivenUp
  <2> QED
    BY <2>1, <2>2
<1> QED
  BY <1>1, <1>2, <1>3, <1>5, <1>6, <1>7, CInvOne

LEMMA CInvFree ==
  ASSUME CInv, PInv', NEW l, ReleaseFree(l)
  PROVE  CInv'
<1>1. l \in Locks /\ currpid \in All /\ currpid \notin Pids(waitq[l]) /\ lproc[l] = {currpid}
  BY Releaser DEF ReleaseFree
<1>2. /\ GiveUp(currpid, l)
      /\ lstate' = [lstate EXCEPT ![l] = "LFREE"]
      /\ ltype' = ltype /\ waitq' = waitq
  BY DEF ReleaseFree, NobodyAdmitted
<1>3. LTypes'
  BY <1>1, <1>2, GivenUp DEF CInv, LTypes
<1>4. lproc'[l] = {}
  BY <1>1, <1>2, GivenUp
<1>5. Owned(l)'
  <2>1. Owned(l)
    BY <1>1 DEF CInv
  <2>2. \A p \in All : locksState'[p][l] = IF p = currpid THEN "EMPTY" ELSE locksState[p][l]
    BY <1>1, <1>2, GivenUp
  <2> QED
    BY <1>1, <1>2, <1>4, <2>1, <2>2 DEF Owned, Types
<1>6. \A k \in Locks \ {l} : lstate'[k] = lstate[k]
  BY <1>2 DEF CInv, LTypes
<1>7. ASSUME NEW k \in Locks \ {l}
      PROVE  lproc'[k] = lproc[k] /\ \A p \in All : locksState'[p][k] = locksState[p][k]
  BY <1>1, <1>2, GivenUp
<1> QED
  BY <1>1, <1>2, <1>3, <1>5, <1>6, <1>7, CInvOne

LEMMA CInvHandOver ==
  ASSUME CInv, PInv', NEW l, ReleaseHandOver(l)
  PROVE  CInv'
<1> DEFINE G == Pids(Admitted(l))
           type == IF Admitted(l) \subseteq Readers(l) THEN "READ" ELSE "WRITE"
<1>1. l \in Locks /\ currpid \in All /\ currpid \notin Pids(waitq[l]) /\ lproc[l] = {currpid}
  BY Releaser DEF ReleaseHandOver
<1>2. /\ locksState' = [locksState EXCEPT ![currpid][l] = "EMPTY"]
      /\ lproc' = [lproc EXCEPT ![l] = (@ \ {currpid}) \cup G]
      /\ waitq' = [waitq EXCEPT ![l] = Remove(@, G)]
  BY Zenon DEF ReleaseHandOver
<1>3. IF G = {} THEN lstate' = lstate /\ ltype' = ltype
      ELSE lstate' = [lstate EXCEPT ![l] = "LUSED"] /\ ltype' = [ltype EXCEPT ![l] = type]
  BY DEF ReleaseHandOver
<1>4. Owned(l) /\ G \subseteq Pids(waitq[l]) /\ Pids(waitq[l]) \subseteq All
  BY <1>1, AdmittedWaits DEF CInv, PInv, Shape
<1>5. \A p \in G : locksState[p][l] = type
  <2>1. \A p \in G : locksState[p][l] \in Types
    BY <1>4 DEF Owned
  <2>2. CASE Admitted(l) \subseteq Readers(l)
    BY <2>2 DEF Readers, Pids
  <2>3. CASE ~(Admitted(l) \subseteq Readers(l))
    <3>1. PICK w \in Writers(l) : Admitted(l) = {w}
      BY <2>3, AdmittedKinds
    <3>2. G = {w.pid} /\ locksState[w.pid][l] # "READ"
      BY <3>1 DEF Pids, Writers, Readers
    <3> QED
      BY <2>1, <2>3, <3>2 DEF Types
  <2> QED
    BY <2>2, <2>3
<1>6. type = "WRITE" => \A p, q \in G : p = q
  BY AdmittedKinds DEF Pids
<1> HIDE DEF G, type
<1>7. /\ \A p \in All, k \in Locks :
            locksState'[p][k] = IF p = currpid /\ k = l THEN "EMPTY" ELSE locksState[p][k]
      /\ \A k \in Locks : lproc'[k] = IF k = l THEN G ELSE lproc[k]
  BY <1>1, <1>2, <1>4 DEF CInv, LTypes
<1>8. \A k \in Locks : Pids(waitq'[k]) = IF k = l THEN Pids(waitq[k]) \ G ELSE Pids(waitq[k])
  <2>1. waitq = [k \in Locks |-> waitq[k]]
    BY DEF CInv, PInv, Shape
  <2> QED
    BY <1>1, <1>2, <2>1, PidsRemove
<1>9. G # {} => lstate'[l] = "LUSED" /\ ltype'[l] = type
  BY <1>1, <1>3 DEF CInv, LTypes
<1>10. LTypes'
  <2>1. type \in Types
    BY DEF type, Types
  <2>2. lstate' \in [Locks -> {"LFREE", "LCREATE", "LUSED"}] /\ ltype' \in [Locks -> Types \cup {"EMPTY"}]
    BY <1>1, <1>3, <2>1 DEF CInv, LTypes
  <2>3. /\ locksState' \in [All -> [Locks -> Types \cup {"EMPTY", "DELETED"}]]
        /\ lproc' \in [Locks -> SUBSET All]
    BY <1>1, <1>2, <1>4 DEF CInv, LTypes
  <2> QED
    BY <2>2, <2>3 DEF LTypes
<1>11. Owned(l)'
  <2>1. /\ \A p \in All : locksState'[p][l] = IF p = currpid THEN "EMPTY" ELSE locksState[p][l]
        /\ lproc'[l] = G
        /\ Pids(waitq'[l]) = Pids(waitq[l]) \ G
    BY <1>1, <1>7, <1>8
  <2>2. \A p \in All : locksState'[p][l] \in Types <=> p \in lproc'[l] \cup Pids(waitq'[l])
    BY <1>1, <1>4, <2>1 DEF Owned, Types
  <2>3. \A p \in lproc'[l] : locksState'[p][l] = ltype'[l] /\ p \notin Pids(waitq'[l])
    BY <1>1, <1>4, <1>5, <1>9, <2>1
  <2>4. ltype'[l] = "WRITE" => \A p, q \in lproc'[l] : p = q
    BY <1>6, <1>9, <2>1
  <2> QED
    BY <1>9, <2>1, <2>2, <2>3, <2>4 DEF Owned
<1>12. \A k \in Locks \ {l} : lstate'[k] = lstate[k] /\ ltype'[k] = ltype[k]
  BY <1>3 DEF CInv, LTypes
<1>13. ASSUME NEW k \in Locks \ {l}
       PROVE  /\ lproc'[k] = lproc[k] /\ Pids(waitq'[k]) = Pids(waitq[k])
              /\ \A p \in All : locksState'[p][k] = locksState[p][k]
  BY <1>7, <1>8
<1> QED
  BY <1>1, <1>10, <1>11, <1>12, <1>13, CInvOne

LEMMA CInvRelease ==
  ASSUME CInv, PInv', NEW l, NEW more, Release(l, more)
  PROVE  CInv'
<1>1. CASE ReleaseRefused(l)
  BY <1>1, CInvSame DEF ReleaseRefused, LTables
<1> QED
  BY <1>1, CInvShared, CInvFree, CInvHandOver DEF Release

LEMMA CInvLock ==
  ASSUME CInv, PInv', NEW l \in Locks, Fresh(l), LockCall(l)
  PROVE  CInv'
  BY CInvLockFree, CInvLockJoin, CInvLockWait DEF LockCall

LEMMA CInvNext == CInv /\ [ClientNext]_vars => CInv'
<1> SUFFICES ASSUME CInv, [ClientNext]_vars PROVE CInv'
  OBVIOUS
<1>1. PInv'
  <2>1. ClientNext => Next
    BY DEF ClientNext, OtherStep, Ask, Next
  <2> QED
    BY <2>1, PInvNext DEF CInv
<1>2. CASE \E l \in Locks : Lcreate(l)
  BY <1>1, <1>2, CInvLcreate
<1>3. CASE \E l \in Locks : Unused(l) /\ Ldelete(l)
  BY <1>1, <1>3, CInvLdelete
<1>4. CASE Ask(Fresh)
  BY <1>1, <1>4, CInvLock DEF Ask
<1>5. CASE ReleaseCall
  BY <1>1, <1>5, CInvRelease DEF ReleaseCall, Releaseall
<1>6. CASE ReleaseNext
  BY <1>1, <1>6, CInvRelease DEF ReleaseNext
<1>7. CASE Scheduling
  <2>1. UNCHANGED LTables
    BY <1>7 DEF Scheduling, Sleep, Wakeup, ClkInt, Chprio, Create, Resume, LTables, procVars, lockVars
  <2> QED
    BY <1>1, <2>1, CInvSame
<1>8. CASE Exit \/ \E p \in Procs : KillIdle(p)
  BY <1>1, <1>8, CInvSame DEF Exit, KillIdle, LTables, procVars, lockVars
<1>9. CASE UNCHANGED vars
  BY <1>1, <1>9, CInvSame DEF vars, LTables
<1> QED
  BY <1>2, <1>3, <1>4, <1>5, <1>6, <1>7, <1>8, <1>9 DEF ClientNext, OtherStep
-----------------------------------------------------------------------------
\* Processes that share a lock all hold it for reading, whatever the number of
\* processes and locks, their priorities and the order of the calls: although
\* release() hands over without looking at who holds the lock and lock() lets a
\* reader join by looking at ltype alone.
THEOREM ExclusionTheorem == ClientSpec => []MutualExclusion
<1>1. CInv => MutualExclusion
  <2> SUFFICES ASSUME CInv, NEW l \in Locks, NEW p \in lproc[l], NEW q \in lproc[l], p # q
               PROVE  locksState[p][l] = "READ" /\ locksState[q][l] = "READ"
    BY DEF MutualExclusion
  <2>1. Owned(l) /\ p \in All
    BY DEF CInv, LTypes
  <2> QED
    BY <2>1 DEF Owned, Types
<1> QED
  BY <1>1, CInvInit, CInvNext, PTL DEF ClientSpec

\* A process's own record of its locks and the locks' records of their holders
\* and waiters agree, so release() refuses exactly what the caller has no part in.
THEOREM AgreementTheorem == ClientSpec => []Agreement
<1>1. CInv => Agreement
  BY DEF CInv, Owned, Agreement
<1> QED
  BY <1>1, CInvInit, CInvNext, PTL DEF ClientSpec
-----------------------------------------------------------------------------
(* The wait queues under any sequence of calls *)

\* What Placement, the types of the lock tables and the next two properties
\* rest on: a wait queue is ordered, and whoever is on it has asked for the lock
\* and has not been answered yet.
Waiting(l) ==
  /\ Ordered(waitq[l])
  /\ \A p \in Pids(waitq[l]) : p \in Procs /\ pwaitret[p] = "OK" /\ locksState[p][l] \in Types

WTypes == LTypes /\ pwaitret \in [All -> {"OK", "DELETED"}]

SInv == PInv /\ WTypes /\ \A l \in Locks : Waiting(l)

LEMMA SInvInit == Init => SInv
<1> SUFFICES ASSUME Init PROVE SInv
  OBVIOUS
<1>1. WTypes
  BY DEF Init, LTypes, WTypes
<1>2. Pids({}) = {}
  BY DEF Pids
<1>3. ASSUME NEW l \in Locks  PROVE Waiting(l)
  BY <1>2, OrderedEmpty DEF Init, Waiting
<1> QED
  BY <1>1, <1>3, PInvInit DEF SInv

\* A step that leaves the wait queues alone and changes the locksState of
\* the current process only, which is on none of them.
LEMMA SInvLocal ==
  ASSUME SInv, PInv', LTypes', UNCHANGED <<waitq, pwaitret>>,
         \A p \in All, l \in Locks : p # currpid => locksState'[p][l] = locksState[p][l]
  PROVE  SInv'
<1>1. WTypes'
  BY DEF SInv, WTypes
<1>2. ASSUME NEW l \in Locks  PROVE Waiting(l)'
  <2>1. \A p \in Pids(waitq[l]) : p \in All /\ p # currpid
    BY Current DEF SInv, PInv, Shape
  <2> QED
    BY <2>1 DEF SInv, Waiting
<1> QED
  BY <1>1, <1>2 DEF SInv

LEMMA SInvSame ==
  ASSUME SInv, PInv', UNCHANGED LTables, UNCHANGED pwaitret
  PROVE  SInv'
<1>1. LTypes'
  BY DEF SInv, WTypes, LTypes, LTables
<1> QED
  BY <1>1, SInvLocal DEF LTables

\* A step that changes the queue of one lock.
LEMMA SInvOne ==
  ASSUME SInv, PInv', WTypes', NEW l \in Locks, Waiting(l)',
         \A k \in Locks \ {l} :
           /\ waitq'[k] = waitq[k]
           /\ \A p \in Pids(waitq[k]) :
                pwaitret'[p] = pwaitret[p] /\ locksState'[p][k] = locksState[p][k]
  PROVE  SInv'
<1>1. ASSUME NEW k \in Locks \ {l}  PROVE Waiting(k)'
  BY DEF SInv, Waiting
<1> QED
  BY <1>1 DEF SInv

\* A process is on one wait queue at most.
LEMMA OneQueue ==
  ASSUME PInv, NEW l \in Locks, NEW k \in Locks, NEW p \in Pids(waitq[l]), p \in Pids(waitq[k])
  PROVE  k = l
  BY DEF PInv, Shape, Placement

LEMMA SInvLcreate ==
  ASSUME SInv, PInv', NEW l \in Locks, Lcreate(l)
  PROVE  SInv'
<1>1. /\ lstate' = [lstate EXCEPT ![l] = "LCREATE"]
      /\ UNCHANGED <<locksState, lproc, ltype, waitq, pwaitret>>
  BY DEF Lcreate, procVars
<1>2. LTypes'
  BY <1>1 DEF SInv, WTypes, LTypes
<1> QED
  BY <1>1, <1>2, SInvLocal

LEMMA SInvLockFree ==
  ASSUME SInv, PInv', NEW l \in Locks, NEW type \in Types, LockFree(l, type)
  PROVE  SInv'
<1>1. /\ lstate' = [lstate EXCEPT ![l] = "LUSED"]
      /\ ltype' = [ltype EXCEPT ![l] = type]
      /\ lproc' = [lproc EXCEPT ![l] = @ \cup {currpid}]
      /\ locksState' = [locksState EXCEPT ![currpid][l] = type]
      /\ UNCHANGED <<waitq, pwaitret>>
  BY DEF LockFree
<1>2. currpid \in All
  BY Current DEF SInv
<1>3. LTypes'
  BY <1>1, <1>2 DEF SInv, WTypes, LTypes
<1>4. \A p \in All, k \in Locks : p # currpid => locksState'[p][k] = locksState[p][k]
  BY <1>1, <1>2 DEF SInv, WTypes, LTypes
<1> QED
  BY <1>1, <1>3, <1>4, SInvLocal

LEMMA SInvLockJoin ==
  ASSUME SInv, PInv', NEW l \in Locks, NEW priority, LockJoin(l, priority)
  PROVE  SInv'
<1>1. /\ lproc' = [lproc EXCEPT ![l] = @ \cup {currpid}]
      /\ locksState' = [locksState EXCEPT ![currpid][l] = "READ"]
      /\ UNCHANGED <<lstate, ltype, waitq, pwaitret>>
  BY DEF LockJoin
<1>2. currpid \in All
  BY Current DEF SInv
<1>3. LTypes'
  BY <1>1, <1>2 DEF SInv, WTypes, LTypes, Types
<1>4. \A p \in All, k \in Locks : p # currpid => locksState'[p][k] = locksState[p][k]
  BY <1>1, <1>2 DEF SInv, WTypes, LTypes
<1> QED
  BY <1>1, <1>3, <1>4, SInvLocal

LEMMA SInvLockWait ==
  ASSUME SInv, PInv', NEW l \in Locks, NEW type \in Types, NEW priority \in WaitPrios,
         LockWait(l, type, priority)
  PROVE  SInv'
<1>1. /\ waitq' = [waitq EXCEPT ![l] = Insert(@, currpid, priority)]
      /\ locksState' = [locksState EXCEPT ![currpid][l] = type]
      /\ pwaitret' = [pwaitret EXCEPT ![currpid] = "OK"]
      /\ UNCHANGED <<lproc, lstate, ltype>>
  BY DEF LockWait
<1>2. /\ currpid \in Procs /\ currpid \in All
      /\ \A k \in Locks : currpid \notin Pids(waitq[k]) /\ Pids(waitq[k]) \subseteq All
  BY Current DEF SInv, PInv, Shape, LockWait, Running, All
<1>3. WTypes'
  BY <1>1, <1>2 DEF SInv, WTypes, LTypes
<1>4. /\ waitq'[l] = Insert(waitq[l], currpid, priority)
      /\ \A k \in Locks \ {l} : waitq'[k] = waitq[k]
  BY <1>1 DEF SInv, PInv, Shape
<1>5. \A p \in All, k \in Locks :
        /\ locksState'[p][k] = IF p = currpid /\ k = l THEN type ELSE locksState[p][k]
        /\ pwaitret'[p] = IF p = currpid THEN "OK" ELSE pwaitret[p]
  BY <1>1, <1>2 DEF SInv, WTypes, LTypes
<1>6. Ordered(waitq'[l])
  <2>1. priority \in Int /\ Ordered(waitq[l])
    BY PriosAssumption DEF SInv, Waiting
  <2> QED
    BY <1>2, <1>4, <2>1, OrderedInsert
<1>7. Pids(waitq'[l]) = Pids(waitq[l]) \cup {currpid}
  BY <1>4, PidsInsert
<1>8. Waiting(l)'
  BY <1>2, <1>5, <1>6, <1>7 DEF SInv, Waiting
<1> QED
  BY <1>2, <1>3, <1>4, <1>5, <1>8, SInvOne

LEMMA SInvLdelete ==
  ASSUME SInv, PInv', NEW l \in Locks, Ldelete(l)
  PROVE  SInv'
<1> DEFINE woken == Pids(waitq[l])
<1>1. /\ lstate' = [lstate EXCEPT ![l] = "LFREE"]
      /\ ltype' = [ltype EXCEPT ![l] = "EMPTY"]
      /\ lproc' = [lproc EXCEPT ![l] = @ \ {currpid}]
      /\ waitq' = [waitq EXCEPT ![l] = {}]
      /\ locksState' = [p \in All |-> IF p \in woken
           THEN [locksState[p] EXCEPT ![l] = "DELETED"] ELSE locksState[p]]
      /\ pwaitret' = [p \in All |-> IF p \in woken THEN "DELETED" ELSE pwaitret[p]]
  BY Zenon DEF Ldelete, Answer
<1>2. \A k \in Locks \ {l} : waitq'[k] = waitq[k]
  BY <1>1 DEF SInv, PInv, Shape
<1>3. waitq'[l] = {} /\ Pids({}) = {}
  BY <1>1 DEF SInv, PInv, Shape, Pids
<1>4. ASSUME NEW k \in Locks \ {l}, NEW p \in Pids(waitq[k])
      PROVE  p \in All /\ p \notin woken
  BY OneQueue DEF SInv, PInv, Shape
<1> HIDE DEF woken
<1>5. WTypes'
  BY <1>1 DEF SInv, WTypes, LTypes
<1>6. ASSUME NEW k \in Locks \ {l}, NEW p \in Pids(waitq[k])
      PROVE  pwaitret'[p] = pwaitret[p] /\ locksState'[p][k] = locksState[p][k]
  BY <1>1, <1>4
<1>7. Waiting(l)'
  BY <1>3, OrderedEmpty DEF Waiting
<1> QED
  BY <1>2, <1>5, <1>6, <1>7, SInvOne

LEMMA SInvKillWaiter ==
  ASSUME SInv, PInv', NEW p \in Procs, KillWaiter(p)
  PROVE  SInv'
<1>0. p \in All /\ pstate[p] = "PRWAIT"
  BY DEF KillWaiter, All
<1>1. PICK l \in Locks : l = lockid[p] /\ p \in Pids(waitq[l])
  BY <1>0 DEF SInv, PInv, Shape, Placement
<1>2. /\ waitq' = [waitq EXCEPT ![l] = Remove(@, {p})]
      /\ locksState' = [locksState EXCEPT ![p][l] = "DELETED"]
      /\ UNCHANGED <<pwaitret, lproc, lstate, ltype>>
  BY <1>1 DEF KillWaiter
<1>3. /\ waitq'[l] = Remove(waitq[l], {p})
      /\ \A k \in Locks \ {l} : waitq'[k] = waitq[k]
  BY <1>1, <1>2 DEF SInv, PInv, Shape
<1>4. WTypes'
  BY <1>0, <1>2 DEF SInv, WTypes, LTypes
<1>5. \A q \in All, k \in Locks :
        locksState'[q][k] = IF q = p /\ k = l THEN "DELETED" ELSE locksState[q][k]
  BY <1>0, <1>2 DEF SInv, WTypes, LTypes
<1>6. Waiting(l)'
  <2> DEFINE L == waitq[l]
  <2>0. Ordered(L) /\ L = waitq[l] /\ Pids(waitq[l]) \subseteq All
    BY <1>2 DEF SInv, PInv, Shape, Waiting
  <2> HIDE DEF L
  <2>1. Ordered(waitq'[l])
    BY <1>3, <2>0, OrderedRemove
  <2>2. Pids(waitq'[l]) = Pids(waitq[l]) \ {p} /\ Pids(waitq[l]) \subseteq All
    BY <1>3, <2>0, PidsRemove
  <2>3. \A q \in Pids(waitq[l]) : q \in Procs /\ pwaitret[q] = "OK" /\ locksState[q][l] \in Types
    BY DEF SInv, Waiting
  <2>4. ASSUME NEW q \in Pids(waitq'[l])
        PROVE  q \in Procs /\ pwaitret'[q] = "OK" /\ locksState'[q][l] \in Types
    <3>1. q \in Pids(waitq[l]) /\ q \in All /\ q # p
      BY <2>2
    <3>2. pwaitret' = pwaitret /\ locksState'[q][l] = locksState[q][l]
      BY <1>1, <1>2, <1>5, <3>1
    <3> QED
      BY <2>3, <3>1, <3>2
  <2> QED
    BY <2>1, <2>4 DEF Waiting
<1>7. ASSUME NEW k \in Locks \ {l}, NEW q \in Pids(waitq[k])
      PROVE  pwaitret'[q] = pwaitret[q] /\ locksState'[q][k] = locksState[q][k]
  BY <1>2, <1>5 DEF SInv, PInv, Shape
<1> QED
  BY <1>2, <1>3, <1>4, <1>6, <1>7, SInvOne

\* The tables after release(l) has given up l and passed it on to G.
LEMMA PassedOn ==
  ASSUME LTypes, NEW l \in Locks, currpid \in All, NEW G \in SUBSET All,
         locksState' = [locksState EXCEPT ![currpid][l] = "EMPTY"],
         lproc' = [lproc EXCEPT ![l] = (@ \ {currpid}) \cup G]
  PROVE  /\ locksState' \in [All -> [Locks -> Types \cup {"EMPTY", "DELETED"}]]
         /\ lproc' \in [Locks -> SUBSET All]
         /\ \A p \in All, k \in Locks :
              locksState'[p][k] = IF p = currpid /\ k = l THEN "EMPTY" ELSE locksState[p][k]
         /\ \A k \in Locks : lproc'[k] = IF k = l THEN (lproc[k] \ {currpid}) \cup G ELSE lproc[k]
  BY DEF LTypes

LEMMA SInvGiveUp ==
  ASSUME SInv, PInv', NEW l, ReleaseShared(l) \/ ReleaseFree(l), UNCHANGED pwaitret
  PROVE  SInv'
<1>1. /\ l \in Locks /\ currpid \in All
      /\ locksState' = [locksState EXCEPT ![currpid][l] = "EMPTY"]
      /\ lproc' = [lproc EXCEPT ![l] = @ \ {currpid}]
      /\ waitq' = waitq
      /\ \/ lstate' = [lstate EXCEPT ![l] = "LUSED"] /\ ltype' = [ltype EXCEPT ![l] = "READ"]
         \/ lstate' = [lstate EXCEPT ![l] = "LFREE"] /\ ltype' = ltype
  BY Current DEF ReleaseShared, ReleaseFree, Releasable, GiveUp, NobodyAdmitted, SInv
<1>2. LTypes'
  BY <1>1 DEF SInv, WTypes, LTypes, Types
<1>3. \A p \in All, k \in Locks : p # currpid => locksState'[p][k] = locksState[p][k]
  BY <1>1 DEF SInv, WTypes, LTypes
<1> QED
  BY <1>1, <1>2, <1>3, SInvLocal

LEMMA SInvHandOver ==
  ASSUME SInv, PInv', NEW l, ReleaseHandOver(l), UNCHANGED pwaitret
  PROVE  SInv'
<1> DEFINE G == Pids(Admitted(l))
           type == IF Admitted(l) \subseteq Readers(l) THEN "READ" ELSE "WRITE"
<1>1. /\ l \in Locks /\ currpid \in All
      /\ currpid \notin Pids(waitq[l]) /\ Pids(waitq[l]) \subseteq All
      /\ G \subseteq Pids(waitq[l])
  BY Current, AdmittedWaits DEF ReleaseHandOver, Releasable, SInv, PInv, Shape
<1>2. /\ locksState' = [locksState EXCEPT ![currpid][l] = "EMPTY"]
      /\ lproc' = [lproc EXCEPT ![l] = (@ \ {currpid}) \cup G]
      /\ waitq' = [waitq EXCEPT ![l] = Remove(@, G)]
  BY Zenon DEF ReleaseHandOver
<1>3. \/ lstate' = lstate /\ ltype' = ltype
      \/ lstate' = [lstate EXCEPT ![l] = "LUSED"] /\ ltype' = [ltype EXCEPT ![l] = type]
  BY DEF ReleaseHandOver
<1>4. type \in Types
  BY DEF Types
<1> HIDE DEF G, type
<1>5. /\ locksState' \in [All -> [Locks -> Types \cup {"EMPTY", "DELETED"}]]
      /\ lproc' \in [Locks -> SUBSET All]
      /\ \A p \in All, k \in Locks :
           locksState'[p][k] = IF p = currpid /\ k = l THEN "EMPTY" ELSE locksState[p][k]
  BY <1>1, <1>2, PassedOn DEF SInv, WTypes
<1>6. WTypes'
  BY <1>3, <1>4, <1>5 DEF SInv, WTypes, LTypes
<1>7. /\ waitq'[l] = Remove(waitq[l], G)
      /\ \A k \in Locks \ {l} : waitq'[k] = waitq[k]
  BY <1>1, <1>2 DEF SInv, PInv, Shape
<1>8. Waiting(l)'
  <2>1. /\ Ordered(waitq[l])
        /\ \A p \in Pids(waitq[l]) : p \in Procs /\ pwaitret[p] = "OK" /\ locksState[p][l] \in Types
    BY <1>1 DEF SInv, Waiting
  <2>2. Ordered(waitq'[l])
    BY <1>7, <2>1, OrderedRemove
  <2>3. Pids(waitq'[l]) \subseteq Pids(waitq[l])
    BY <1>7, PidsRemove
  <2>4. \A p \in Pids(waitq'[l]) : p \in Procs /\ pwaitret'[p] = "OK" /\ locksState'[p][l] \in Types
    BY <1>1, <1>5, <2>1, <2>3
  <2> QED
    BY <2>2, <2>4 DEF Waiting
<1>9. ASSUME NEW k \in Locks \ {l}, NEW p \in Pids(waitq[k])
      PROVE  pwaitret'[p] = pwaitret[p] /\ locksState'[p][k] = locksState[p][k]
  BY <1>5 DEF SInv, PInv, Shape
<1> QED
  BY <1>1, <1>6, <1>7, <1>8, <1>9, SInvOne

LEMMA SInvRelease ==
  ASSUME SInv, PInv', NEW l, NEW more, Release(l, more)
  PROVE  SInv'
<1>1. UNCHANGED pwaitret
  BY DEF Release
<1>2. CASE ReleaseRefused(l)
  BY <1>1, <1>2, SInvSame DEF ReleaseRefused, LTables
<1> QED
  BY <1>1, <1>2, SInvGiveUp, SInvHandOver DEF Release

LEMMA SInvNext == SInv /\ [Next]_vars => SInv'
<1> SUFFICES ASSUME SInv, [Next]_vars PROVE SInv'
  OBVIOUS
<1>1. PInv'
  BY PInvNext DEF SInv
<1>2. CASE \E l \in Locks : Lcreate(l)
  BY <1>1, <1>2, SInvLcreate
<1>3. CASE \E l \in Locks : Ldelete(l)
  BY <1>1, <1>3, SInvLdelete
<1>4. CASE \E l \in Locks : LockCall(l)
  BY <1>1, <1>4, SInvLockFree, SInvLockJoin, SInvLockWait DEF LockCall
<1>5. CASE ReleaseCall
  BY <1>1, <1>5, SInvRelease DEF ReleaseCall, Releaseall
<1>6. CASE ReleaseNext
  BY <1>1, <1>6, SInvRelease DEF ReleaseNext
<1>7. CASE Scheduling
  <2>1. UNCHANGED LTables /\ UNCHANGED pwaitret
    BY <1>7 DEF Scheduling, Sleep, Wakeup, ClkInt, Chprio, Create, Resume, LTables, procVars, lockVars
  <2> QED
    BY <1>1, <2>1, SInvSame
<1>8. CASE Exit \/ \E p \in Procs : KillIdle(p)
  BY <1>1, <1>8, SInvSame DEF Exit, KillIdle, LTables, procVars, lockVars
<1>9. CASE \E p \in Procs : KillWaiter(p)
  BY <1>1, <1>9, SInvKillWaiter
<1>10. CASE UNCHANGED vars
  BY <1>1, <1>10, SInvSame DEF vars, LTables
<1> QED
  BY <1>2, <1>3, <1>4, <1>5, <1>6, <1>7, <1>8, <1>9, <1>10 DEF Next
-----------------------------------------------------------------------------
(* Who leaves a wait queue *)

\* A process leaves the queue of l only when l is deleted or passed on, or
\* when it is killed.
LEMMA WhoLeaves ==
  ASSUME SInv, [Next]_vars, NEW l \in Locks, NEW p \in Pids(waitq[l]), p \notin Pids(waitq'[l])
  PROVE  \/ Ldelete(l)
         \/ ReleaseHandOver(l) /\ UNCHANGED pwaitret
         \/ p \in Procs /\ KillWaiter(p)
<1>1. CASE UNCHANGED waitq
  BY <1>1
<1>2. ASSUME NEW k \in Locks, Ldelete(k)  PROVE k = l
  <2>1. waitq' = [waitq EXCEPT ![k] = {}]
    BY <1>2 DEF Ldelete
  <2> QED
    BY <2>1 DEF SInv, PInv, Shape
<1>3. ASSUME NEW k \in Locks, NEW type, NEW priority, LockWait(k, type, priority)
      PROVE  FALSE
  <2>1. waitq' = [waitq EXCEPT ![k] = Insert(@, currpid, priority)]
    BY <1>3 DEF LockWait
  <2>2. \A j \in Locks : waitq'[j] = waitq[j] \/ waitq'[j] = Insert(waitq[j], currpid, priority)
    BY <2>1 DEF SInv, PInv, Shape
  <2> QED
    BY <2>2, PidsInsert
<1>4. ASSUME NEW k, NEW more, Release(k, more)
      PROVE  ReleaseHandOver(l) /\ UNCHANGED pwaitret
  <2>1. ReleaseHandOver(k) /\ UNCHANGED pwaitret
    BY <1>1, <1>4 DEF Release, ReleaseRefused, ReleaseShared, ReleaseFree, NobodyAdmitted
  <2>2. k \in Locks /\ waitq' = [waitq EXCEPT ![k] = Remove(@, Pids(Admitted(k)))]
    <3>1. ReleaseHandOver(k)
      BY <2>1
    <3> QED
      BY <3>1, Zenon DEF ReleaseHandOver, Releasable
  <2>3. k = l
    BY <2>2 DEF SInv, PInv, Shape
  <2> QED
    BY <2>1, <2>3
<1>5. ASSUME NEW q \in Procs, KillWaiter(q)
      PROVE  p = q
  <2>1. waitq' = [waitq EXCEPT ![lockid[q]] = Remove(@, {q})]
    BY <1>5 DEF KillWaiter
  <2>2. \A j \in Locks : waitq'[j] = waitq[j] \/ waitq'[j] = Remove(waitq[j], {q})
    BY <2>1 DEF SInv, PInv, Shape
  <2> QED
    BY <2>2, PidsRemove
<1>6. CASE \E k \in Locks : Lcreate(k)
  BY <1>1, <1>6 DEF Lcreate
<1>7. CASE \E k \in Locks : LockCall(k)
  BY <1>1, <1>3, <1>7 DEF LockCall, LockFree, LockJoin
<1>8. CASE ReleaseCall \/ ReleaseNext
  BY <1>4, <1>8 DEF ReleaseCall, Releaseall, ReleaseNext
<1>9. CASE Scheduling
  BY <1>1, <1>9 DEF Scheduling, Sleep, Wakeup, ClkInt, Chprio, Create, Resume, lockVars
<1>10. CASE Exit \/ \E q \in Procs : KillIdle(q)
  BY <1>1, <1>10 DEF Exit, KillIdle, lockVars
<1>11. CASE UNCHANGED vars
  BY <1>1, <1>11 DEF vars
<1> QED
  BY <1>2, <1>5, <1>6, <1>7, <1>8, <1>9, <1>10, <1>11 DEF Next

LEMMA DeletedAnswer ==
  ASSUME SInv, NEW l \in Locks, NEW p \in Pids(waitq[l]), Ldelete(l)
  PROVE  lstate'[l] = "LFREE" /\ pwaitret'[p] = "DELETED" /\ locksState'[p][l] = "DELETED"
<1> DEFINE woken == Pids(waitq[l])
<1>1. /\ lstate' = [lstate EXCEPT ![l] = "LFREE"]
      /\ locksState' = [q \in All |-> IF q \in woken
           THEN [locksState[q] EXCEPT ![l] = "DELETED"] ELSE locksState[q]]
      /\ pwaitret' = [q \in All |-> IF q \in woken THEN "DELETED" ELSE pwaitret[q]]
  BY Zenon DEF Ldelete, Answer
<1>2. p \in All /\ p \in woken
  BY DEF SInv, PInv, Shape
<1> HIDE DEF woken
<1> QED
  BY <1>1, <1>2 DEF SInv, WTypes, LTypes

LEMMA AdmittedAnswer ==
  ASSUME SInv, NEW l \in Locks, NEW p \in Pids(waitq[l]), p \notin Pids(waitq'[l]),
         ReleaseHandOver(l), UNCHANGED pwaitret
  PROVE  p \in lproc'[l] /\ pwaitret'[p] = "OK" /\ locksState'[p][l] \in Types
<1> DEFINE G == Pids(Admitted(l))
<1>1. /\ locksState' = [locksState EXCEPT ![currpid][l] = "EMPTY"]
      /\ lproc' = [lproc EXCEPT ![l] = (@ \ {currpid}) \cup G]
      /\ waitq' = [waitq EXCEPT ![l] = Remove(@, G)]
  BY Zenon DEF ReleaseHandOver
<1>2. G \in SUBSET All
  BY AdmittedWaits DEF SInv, PInv, Shape
<1> HIDE DEF G
<1>3. /\ currpid \in All /\ p \in All /\ p # currpid
      /\ pwaitret[p] = "OK" /\ locksState[p][l] \in Types
  BY Current DEF SInv, PInv, Shape, Waiting
<1>4. p \in G
  <2>1. waitq'[l] = Remove(waitq[l], G)
    BY <1>1 DEF SInv, PInv, Shape
  <2> QED
    BY <2>1, PidsRemove
<1>5. lproc'[l] = (lproc[l] \ {currpid}) \cup G /\ locksState'[p][l] = locksState[p][l]
  BY <1>1, <1>2, <1>3, PassedOn DEF SInv, WTypes
<1> QED
  BY <1>3, <1>4, <1>5

\* A process leaves a wait queue in one of three ways only: it holds the lock
\* and lock() will return OK, the lock is gone and lock() will return DELETED,
\* or it has been killed, whatever the calls and their order.
THEOREM WakeupTheorem == Spec => WakeupMeansSomething
<1> DEFINE Left(l, p) ==
      \/ p \in lproc'[l] /\ pwaitret'[p] = "OK" /\ locksState'[p][l] \in Types
      \/ /\ lstate'[l] = "LFREE" /\ pwaitret'[p] = "DELETED"
         /\ locksState'[p][l] = "DELETED"
      \/ pstate'[p] = "PRFREE"
<1>1. ASSUME SInv, [Next]_vars, NEW l \in Locks, NEW p \in Pids(waitq[l]) \ Pids(waitq'[l])
      PROVE  Left(l, p)
  <2>1. CASE Ldelete(l)
    BY <1>1, <2>1, DeletedAnswer
  <2>2. CASE ReleaseHandOver(l) /\ UNCHANGED pwaitret
    BY <1>1, <2>2, AdmittedAnswer
  <2>3. CASE p \in Procs /\ KillWaiter(p)
    BY <1>1, <2>3 DEF KillWaiter, SInv, PInv, Shape, All
  <2> QED
    BY <1>1, <2>1, <2>2, <2>3, WhoLeaves
<1>2. SInv /\ [Next]_vars => [\A l \in Locks : \A p \in Pids(waitq[l]) \ Pids(waitq'[l]) : Left(l, p)]_vars
  BY <1>1
<1> QED
  BY <1>2, SInvInit, SInvNext, PTL DEF Spec, WakeupMeansSomething
-----------------------------------------------------------------------------
(* Whom a hand-over admits *)

LEMMA FavouredIs ==
  ASSUME NEW R, NEW w, NEW e
  PROVE  e \in Favoured(R, w) <=>
           /\ e \in R
           /\ \A x \in R : (x = e \/ Ahead(x, e)) => x.key = w.key /\ Grace(w.pid, x.pid)
  BY DEF Favoured, Prefix

\* The order of a queue is transitive.
LEMMA AheadTransitive ==
  ASSUME NEW L, Ordered(L), NEW e \in L, NEW f \in L, NEW g \in L, Ahead(e, f), Ahead(f, g)
  PROVE  Ahead(e, g)
<1>1. \A x \in L : x.key \in Int /\ x.age \in Nat
  BY DEF Ordered
<1> QED
  BY <1>1 DEF Ahead

\* Whoever is ahead of a favoured reader is favoured.
LEMMA FavouredClosed ==
  ASSUME NEW L, Ordered(L), NEW R \in SUBSET L, NEW w, NEW e \in Favoured(R, w),
         NEW f \in R, Ahead(f, e)
  PROVE  f \in Favoured(R, w)
<1>1. e \in R /\ \A x \in R : (x = e \/ Ahead(x, e)) => x.key = w.key /\ Grace(w.pid, x.pid)
  BY FavouredIs
<1>2. ASSUME NEW x \in R, x = f \/ Ahead(x, f)  PROVE x = e \/ Ahead(x, e)
  BY <1>1, <1>2, AheadTransitive
<1> QED
  BY <1>1, <1>2, FavouredIs

\* The first waiter of a queue, from which releaseall() starts.
LEMMA FirstWaiter ==
  ASSUME NEW l, Ordered(waitq[l]), waitq[l] # {}
  PROVE  \E t \in waitq[l] :
           /\ IsLast(waitq[l], t)
           /\ t \in Writers(l) => Admitted(l) = WriterFirst(l, t)
           /\ t \in Readers(l) => Admitted(l) = ReaderFirst(l, t)
<1> DEFINE t == CHOOSE t \in waitq[l] : IsLast(waitq[l], t)
<1>1. \E e \in waitq[l] : IsLast(waitq[l], e)
  <2>1. waitq[l] \in SUBSET waitq[l]
    OBVIOUS
  <2> QED
    BY <2>1, LastExists
<1>2. t \in waitq[l] /\ IsLast(waitq[l], t)
  BY <1>1
<1>3. Admitted(l) = IF t \in Writers(l) THEN WriterFirst(l, t) ELSE ReaderFirst(l, t)
  BY Zenon DEF Admitted
<1> HIDE DEF t
<1>4. t \in Readers(l) => t \notin Writers(l)
  BY DEF Writers
<1> QED
  BY <1>2, <1>3, <1>4

\* When a reader is first, it is admitted with those before the first writer
\* if it beats that writer, and with the favoured ones.
LEMMA ReaderFirstIs ==
  ASSUME NEW l, Ordered(waitq[l]), NEW t
  PROVE  \/ Writers(l) = {} /\ ReaderFirst(l, t) = Readers(l)
         \/ \E w \in Writers(l), before \in SUBSET Readers(l) :
              /\ IsLast(Writers(l), w)
              /\ before = IF t.key > w.key THEN {x \in Readers(l) : Ahead(x, w)} ELSE {}
              /\ ReaderFirst(l, t) = before \cup Favoured(Readers(l) \ before, w)
<1>1. CASE Writers(l) = {}
  BY <1>1 DEF ReaderFirst
<1>2. CASE Writers(l) # {}
  <2>1. Writers(l) \in SUBSET waitq[l]
    BY DEF Writers
  <2>2. PICK w \in Writers(l) : IsLast(Writers(l), w)
    BY <1>2, <2>1, LastExists
  <2>3. \A v \in Writers(l) : IsLast(Writers(l), v) => v = w
    <3>1. \A e \in waitq[l] : e.key \in Int /\ e.age \in Nat
      BY DEF Ordered
    <3> QED
      BY <2>1, <2>2, <3>1 DEF IsLast, Ahead
  <2> DEFINE before == IF t.key > w.key THEN {x \in Readers(l) : Ahead(x, w)} ELSE {}
  <2>4. ReaderFirst(l, t) = {r \in Readers(l) : r \in before \cup Favoured(Readers(l) \ before, w)}
    BY <2>2, <2>3 DEF ReaderFirst
  <2>5. before \in SUBSET Readers(l)
    OBVIOUS
  <2>6. Favoured(Readers(l) \ before, w) \subseteq Readers(l)
    BY DEF Favoured, Prefix
  <2>7. ReaderFirst(l, t) = before \cup Favoured(Readers(l) \ before, w)
    <3> HIDE DEF before
    <3> QED
      BY <2>4, <2>5, <2>6
  <2> QED
    BY <2>2, <2>5, <2>7
<1> QED
  BY <1>1, <1>2

\* What a waiter f that is left behind may think of an admitted one e.
NotPassed(l, e, f) ==
  /\ f \in Writers(l) => f.key <= e.key
  /\ (f \in Writers(l) <=> e \in Writers(l)) => ~Ahead(f, e)

LEMMA WriterFirstPassesNobody ==
  ASSUME NEW l, Ordered(waitq[l]), NEW t \in Writers(l), IsLast(waitq[l], t),
         NEW e \in WriterFirst(l, t), NEW f \in waitq[l], f \notin WriterFirst(l, t)
  PROVE  NotPassed(l, e, f)
<1> DEFINE R == Readers(l)
<1>1. /\ R \in SUBSET waitq[l] /\ Writers(l) = waitq[l] \ R
      /\ \A x \in waitq[l] : x.key \in Int /\ x.age \in Nat
  BY DEF Readers, Writers, Ordered
<1>2. f # t => Ahead(t, f)
  BY DEF IsLast
<1>3. WriterFirst(l, t) = IF Favoured(R, t) = {} THEN {t} ELSE Favoured(R, t)
  BY Zenon DEF WriterFirst
<1> HIDE DEF R
<1>4. CASE e = t
  BY <1>1, <1>2, <1>4 DEF NotPassed, Ahead
<1>5. CASE e # t
  <2>1. e \in Favoured(R, t) /\ WriterFirst(l, t) = Favoured(R, t)
    BY <1>3, <1>5
  <2>2. e \in R /\ e.key = t.key
    BY <2>1, FavouredIs
  <2>3. f \in R => ~Ahead(f, e)
    BY <1>1, <2>1, FavouredClosed
  <2> QED
    BY <1>1, <1>2, <2>2, <2>3 DEF NotPassed, Ahead
<1> QED
  BY <1>4, <1>5

LEMMA ReaderFirstPassesNobody ==
  ASSUME NEW l, Ordered(waitq[l]), NEW t,
         NEW e \in ReaderFirst(l, t), NEW f \in waitq[l], f \notin ReaderFirst(l, t)
  PROVE  NotPassed(l, e, f)
<1> DEFINE R == Readers(l)
<1>1. /\ R \in SUBSET waitq[l] /\ Writers(l) = waitq[l] \ R
      /\ \A x \in waitq[l] : x.key \in Int /\ x.age \in Nat
  BY DEF Readers, Writers, Ordered
<1>2. CASE Writers(l) = {} /\ ReaderFirst(l, t) = R
  BY <1>1, <1>2
<1>3. ASSUME NEW w \in Writers(l), NEW before \in SUBSET R,
             IsLast(Writers(l), w),
             before = IF t.key > w.key THEN {x \in R : Ahead(x, w)} ELSE {},
             ReaderFirst(l, t) = before \cup Favoured(R \ before, w)
      PROVE  NotPassed(l, e, f)
  <2> HIDE DEF R
  <2>1. f \in Writers(l) => f = w \/ Ahead(w, f)
    BY <1>3 DEF IsLast
  <2>2. CASE e \in before
    <3>1. e \in R /\ Ahead(e, w) /\ t.key > w.key
      BY <1>3, <2>2
    <3>2. f \in R => ~Ahead(f, e)
      BY <1>1, <1>3, <3>1, AheadTransitive
    <3> QED
      BY <1>1, <2>1, <3>1, <3>2 DEF NotPassed, Ahead
  <2>3. CASE e \in Favoured(R \ before, w)
    <3>1. e \in R /\ e.key = w.key
      BY <2>3, FavouredIs
    <3>2. ASSUME f \in R  PROVE ~Ahead(f, e)
      <4>1. f \in R \ before /\ R \ before \in SUBSET waitq[l]
        BY <1>1, <1>3, <3>2
      <4> QED
        BY <1>3, <2>3, <4>1, FavouredClosed
    <3> QED
      BY <1>1, <2>1, <3>1, <3>2 DEF NotPassed, Ahead
  <2> QED
    BY <1>3, <2>2, <2>3
<1> QED
  BY <1>2, <1>3, ReaderFirstIs

LEMMA AdmittedPassesNobody ==
  ASSUME NEW l, Ordered(waitq[l]),
         NEW e \in Admitted(l), NEW f \in waitq[l], f \notin Admitted(l)
  PROVE  NotPassed(l, e, f)
<1>1. PICK t \in waitq[l] :
           /\ IsLast(waitq[l], t)
           /\ t \in Writers(l) => Admitted(l) = WriterFirst(l, t)
           /\ t \in Readers(l) => Admitted(l) = ReaderFirst(l, t)
  BY FirstWaiter
<1>2. t \in Writers(l) \/ t \in Readers(l)
  BY DEF Writers
<1>3. CASE t \in Writers(l)
  BY <1>1, <1>3, WriterFirstPassesNobody
<1>4. CASE t \in Readers(l)
  BY <1>1, <1>4, ReaderFirstPassesNobody
<1> QED
  BY <1>2, <1>3, <1>4

\* Only a hand-over makes a waiter a holder.
LEMMA WhoIsAdmitted ==
  ASSUME SInv, [Next]_vars, NEW l \in Locks, NEW p \in lproc'[l] \ lproc[l], p # currpid
  PROVE  /\ ReleaseHandOver(l)
         /\ lproc'[l] = (lproc[l] \ {currpid}) \cup Pids(Admitted(l))
         /\ waitq'[l] = Remove(waitq[l], Pids(Admitted(l)))
<1>1. \A k \in Locks : lproc[k] \in SUBSET All
  BY DEF SInv, WTypes, LTypes
<1>2. CASE UNCHANGED lproc
  BY <1>2
<1>3. ASSUME NEW k, lproc' = [lproc EXCEPT ![k] = @ \ {currpid}]  PROVE FALSE
  <2>1. lproc'[l] = lproc[l] \/ lproc'[l] = lproc[l] \ {currpid}
    BY <1>3 DEF SInv, WTypes, LTypes
  <2> QED
    BY <2>1
<1>4. ASSUME NEW k, lproc' = [lproc EXCEPT ![k] = @ \cup {currpid}]  PROVE FALSE
  <2>1. lproc'[l] = lproc[l] \/ lproc'[l] = lproc[l] \cup {currpid}
    BY <1>4 DEF SInv, WTypes, LTypes
  <2> QED
    BY <2>1
<1>5. ASSUME NEW k, NEW more, Release(k, more)
      PROVE  /\ ReleaseHandOver(l)
             /\ lproc'[l] = (lproc[l] \ {currpid}) \cup Pids(Admitted(l))
             /\ waitq'[l] = Remove(waitq[l], Pids(Admitted(l)))
  <2>1. ReleaseHandOver(k)
    BY <1>2, <1>3, <1>5 DEF Release, ReleaseRefused, ReleaseShared, ReleaseFree, GiveUp
  <2>2. /\ k \in Locks
        /\ lproc' = [lproc EXCEPT ![k] = (@ \ {currpid}) \cup Pids(Admitted(k))]
        /\ waitq' = [waitq EXCEPT ![k] = Remove(@, Pids(Admitted(k)))]
    BY <2>1, Zenon DEF ReleaseHandOver, Releasable
  <2>3. k = l
    BY <2>2 DEF SInv, WTypes, LTypes
  <2> QED
    BY <2>1, <2>2, <2>3 DEF SInv, WTypes, LTypes, PInv, Shape
<1>6. CASE \E k \in Locks : Lcreate(k)
  BY <1>2, <1>6 DEF Lcreate
<1>7. CASE \E k \in Locks : Ldelete(k)
  BY <1>3, <1>7 DEF Ldelete
<1>8. CASE \E k \in Locks : LockCall(k)
  BY <1>2, <1>4, <1>8 DEF LockCall, LockFree, LockJoin, LockWait
<1>9. CASE ReleaseCall \/ ReleaseNext
  BY <1>5, <1>9 DEF ReleaseCall, Releaseall, ReleaseNext
<1>10. CASE Scheduling
  BY <1>2, <1>10 DEF Scheduling, Sleep, Wakeup, ClkInt, Chprio, Create, Resume, lockVars
<1>11. CASE Exit \/ \E q \in Procs : KillIdle(q) \/ KillWaiter(q)
  BY <1>2, <1>11 DEF Exit, KillIdle, KillWaiter, lockVars
<1>12. CASE UNCHANGED vars
  BY <1>2, <1>12 DEF vars
<1> QED
  BY <1>6, <1>7, <1>8, <1>9, <1>10, <1>11, <1>12 DEF Next

\* A hand-over passes over nobody, whatever the priorities and the number of
\* waiters: who stays behind is no writer of higher lock priority than an
\* admitted process and was not ahead of an admitted process of its own type.
THEOREM OvertakeTheorem == Spec => NoOvertake
<1> DEFINE Fair(l, e, f) ==
      e.pid \in lproc'[l] \ lproc[l] /\ f.pid \in Pids(waitq'[l]) =>
        /\ f \in Writers(l) => f.key <= e.key
        /\ (f \in Writers(l) <=> e \in Writers(l)) => ~Ahead(f, e)
<1>1. ASSUME SInv, [Next]_vars, NEW l \in Locks, NEW e \in waitq[l], NEW f \in waitq[l]
      PROVE  Fair(l, e, f)
  <2> SUFFICES ASSUME e.pid \in lproc'[l] \ lproc[l], f.pid \in Pids(waitq'[l])
               PROVE  NotPassed(l, e, f)
    BY DEF NotPassed
  <2>1. e.pid # currpid
    BY <1>1, Current DEF SInv, Pids
  <2>2. /\ lproc'[l] = (lproc[l] \ {currpid}) \cup Pids(Admitted(l))
        /\ waitq'[l] = Remove(waitq[l], Pids(Admitted(l)))
    BY <1>1, <2>1, WhoIsAdmitted
  <2>3. Ordered(waitq[l])
    BY <1>1 DEF SInv, Waiting
  <2>4. f \notin Admitted(l)
    <3>1. f.pid \notin Pids(Admitted(l))
      BY <2>2, PidsRemove
    <3> QED
      BY <3>1 DEF Pids
  <2>5. e \in Admitted(l)
    <3>1. PICK a \in Admitted(l) : a.pid = e.pid
      BY <2>2 DEF Pids
    <3>2. a \in waitq[l]
      BY <3>1, AdmittedKinds DEF Readers, Writers
    <3> QED
      BY <2>3, <3>1, <3>2 DEF Ordered
  <2> QED
    BY <2>3, <2>4, <2>5, AdmittedPassesNobody
<1>2. SInv /\ [Next]_vars => [\A l \in Locks : \A e, f \in waitq[l] : Fair(l, e, f)]_vars
  BY <1>1
<1> QED
  BY <1>2, SInvInit, SInvNext, PTL DEF Spec, NoOvertake
-----------------------------------------------------------------------------
(* Why a waiter waits *)

\* p waits for l, for the given type and with lock priority k.
WaitsFor(l, p, k, type) == <<p, k>> \in KeysOn(waitq[l]) /\ locksState[p][l] = type

\* A writer and a reader wait for l with lock priority k, and the comparison of
\* their waiting times fails.
Stuck(l, k) ==
  \E w, r \in All : WaitsFor(l, w, k, "WRITE") /\ WaitsFor(l, r, k, "READ") /\ ~Grace(w, r)

\* A lock that somebody waits for is in use, and one in use has a holder
\* unless a hand-over got stuck.
Held(l) ==
  /\ waitq[l] # {} => lstate[l] = "LUSED"
  /\ lstate[l] = "LUSED" => lproc[l] # {} \/ \E k \in Int : Stuck(l, k)

\* A reader waits for a writer that holds l or has a higher lock priority, or
\* for a hand-over that got stuck at its own.
Reason(l) ==
  \A r \in All, k \in Int : WaitsFor(l, r, k, "READ") =>
    \/ ltype[l] = "WRITE"
    \/ \E w \in All, j \in Int : j > k /\ WaitsFor(l, w, j, "WRITE")
    \/ Stuck(l, k)

HInv == CInv /\ SInv /\ \A l \in Locks : Held(l) /\ Reason(l)

LEMMA InKeys ==
  ASSUME NEW L, NEW p, NEW k
  PROVE  <<p, k>> \in KeysOn(L) <=> \E e \in L : e.pid = p /\ e.key = k
  BY DEF KeysOn

\* The entries of a queue as WaitsFor sees them.
LEMMA EntryWaits ==
  ASSUME SInv, NEW l \in Locks
  PROVE  /\ \A e \in waitq[l] : e.pid \in All /\ e.key \in Int
         /\ \A e \in Readers(l) : WaitsFor(l, e.pid, e.key, "READ")
         /\ \A e \in Writers(l) : WaitsFor(l, e.pid, e.key, "WRITE")
         /\ \A p, k : WaitsFor(l, p, k, "READ") => \E e \in Readers(l) : e.pid = p /\ e.key = k
         /\ \A p, k : WaitsFor(l, p, k, "WRITE") => \E e \in Writers(l) : e.pid = p /\ e.key = k
<1>1. /\ \A e \in waitq[l] : e.pid \in Pids(waitq[l]) /\ e.key \in Int
      /\ Pids(waitq[l]) \subseteq All
      /\ \A p \in Pids(waitq[l]) : locksState[p][l] \in {"READ", "WRITE"}
  BY DEF SInv, PInv, Shape, Waiting, Ordered, Pids, Types
<1>2. \A e \in waitq[l] : <<e.pid, e.key>> \in KeysOn(waitq[l])
  BY DEF KeysOn
<1> QED
  BY <1>1, <1>2, InKeys DEF WaitsFor, Readers, Writers

\* Whom a hand-over to readers, or to nobody, leaves behind.
LEMMA WhyNotAdmitted ==
  ASSUME NEW l, Ordered(waitq[l]), waitq[l] # {}, Admitted(l) \subseteq Readers(l),
         NEW e \in Readers(l), e \notin Admitted(l)
  PROVE  \E w \in Writers(l) :
           \/ w.key > e.key
           \/ \E x \in Readers(l) \ Admitted(l) :
                w.key = e.key /\ x.key = e.key /\ ~Grace(w.pid, x.pid)
<1> DEFINE R == Readers(l)
           Why(w) == \/ w.key > e.key
                     \/ \E x \in R \ Admitted(l) :
                          w.key = e.key /\ x.key = e.key /\ ~Grace(w.pid, x.pid)
<1>1. PICK t \in waitq[l] :
           /\ IsLast(waitq[l], t)
           /\ t \in Writers(l) => Admitted(l) = WriterFirst(l, t)
           /\ t \in Readers(l) => Admitted(l) = ReaderFirst(l, t)
  BY FirstWaiter
<1>2. /\ R \in SUBSET waitq[l] /\ Writers(l) = waitq[l] \ R
      /\ \A x \in waitq[l] : x.key \in Int /\ x.age \in Nat
  BY DEF Readers, Writers, Ordered
<1>3. \A x \in waitq[l] : x.key <= t.key
  BY <1>1, <1>2 DEF IsLast, Ahead
<1> HIDE DEF R
<1>4. CASE t \in Writers(l)
  <2>1. Admitted(l) = IF Favoured(R, t) = {} THEN {t} ELSE Favoured(R, t)
    BY <1>1, <1>4, Zenon DEF WriterFirst, R
  <2>2. Admitted(l) = Favoured(R, t)
    BY <1>2, <1>4, <2>1 DEF R
  <2>3. e \in R /\ e \notin Favoured(R, t)
    BY <2>2 DEF R
  <2>4. PICK x \in R : (x = e \/ Ahead(x, e)) /\ ~(x.key = t.key /\ Grace(t.pid, x.pid))
    BY <2>3, FavouredIs
  <2>5. x \notin Favoured(R, t)
    BY <2>4, FavouredIs
  <2>6. e.key <= t.key /\ x.key <= t.key /\ e.key \in Int /\ x.key \in Int /\ t.key \in Int
    BY <1>2, <1>3, <2>3
  <2>7. e.key < t.key \/ (e.key = t.key /\ x.key = t.key)
    BY <2>4, <2>6 DEF Ahead
  <2>8. Why(t)
    BY <2>2, <2>4, <2>5, <2>6, <2>7
  <2> QED
    BY <1>4, <2>8 DEF R
<1>5. ASSUME NEW w \in Writers(l), NEW before \in SUBSET R,
             IsLast(Writers(l), w),
             before = IF t.key > w.key THEN {x \in R : Ahead(x, w)} ELSE {},
             Admitted(l) = before \cup Favoured(R \ before, w)
      PROVE  Why(w)
  <2>1. e \in R \ before /\ e \notin Favoured(R \ before, w)
    BY <1>5 DEF R
  <2>2. PICK x \in R \ before : (x = e \/ Ahead(x, e)) /\ ~(x.key = w.key /\ Grace(w.pid, x.pid))
    BY <2>1, FavouredIs
  <2>3. x \notin Favoured(R \ before, w)
    BY <2>2, FavouredIs
  <2>4. /\ e.key <= t.key /\ x.key <= t.key
        /\ e.key \in Int /\ x.key \in Int /\ t.key \in Int /\ w.key \in Int
    BY <1>2, <1>3, <2>1, <2>2
  <2>5. x.key <= w.key /\ e.key <= w.key
    BY <1>5, <2>1, <2>2, <2>4 DEF Ahead
  <2>6. e.key <= x.key
    BY <2>2, <2>4 DEF Ahead
  <2> QED
    BY <1>5, <2>2, <2>3, <2>4, <2>5, <2>6
<1>6. CASE t \in Readers(l)
  <2>1. Admitted(l) # R
    BY DEF R
  <2>2. \E w \in Writers(l), before \in SUBSET R :
              /\ IsLast(Writers(l), w)
              /\ before = IF t.key > w.key THEN {x \in R : Ahead(x, w)} ELSE {}
              /\ Admitted(l) = before \cup Favoured(R \ before, w)
    BY <1>1, <1>6, <2>1, ReaderFirstIs DEF R
  <2>3. \E w \in Writers(l) : Why(w)
    BY <1>5, <2>2
  <2> QED
    BY <2>3 DEF R
<1> QED
  BY <1>2, <1>4, <1>6 DEF R

\* A hand-over admits nobody only when it gets stuck.
LEMMA NobodyAdmittedWhy ==
  ASSUME NEW l, Ordered(waitq[l]), waitq[l] # {}, Admitted(l) = {}
  PROVE  \E w \in Writers(l), x \in Readers(l) : w.key = x.key /\ ~Grace(w.pid, x.pid)
<1>1. PICK t \in waitq[l] :
           /\ IsLast(waitq[l], t)
           /\ t \in Writers(l) => Admitted(l) = WriterFirst(l, t)
           /\ t \in Readers(l) => Admitted(l) = ReaderFirst(l, t)
  BY FirstWaiter
<1>2. /\ Writers(l) = waitq[l] \ Readers(l)
      /\ \A x \in waitq[l] : x.key \in Int /\ x.age \in Nat
  BY DEF Readers, Writers, Ordered
<1>3. t \in Readers(l)
  <2>1. \A w : WriterFirst(l, w) # {}
    BY Zenon DEF WriterFirst
  <2> QED
    BY <1>1, <1>2, <2>1
<1>4. PICK w \in Writers(l) :
           \/ w.key > t.key
           \/ \E x \in Readers(l) \ Admitted(l) :
                w.key = t.key /\ x.key = t.key /\ ~Grace(w.pid, x.pid)
  BY <1>3, WhyNotAdmitted
<1>5. ~(w.key > t.key)
  BY <1>1, <1>2 DEF IsLast, Ahead
<1> QED
  BY <1>4, <1>5

\* A step that does not concern lock k.
Unaffected(k) ==
  /\ waitq'[k] = waitq[k] /\ lproc'[k] = lproc[k] /\ lstate'[k] = lstate[k] /\ ltype'[k] = ltype[k]
  /\ \A p \in Pids(waitq[k]) : locksState'[p][k] = locksState[p][k]

\* A queue whose waiters keep what they asked for.
LEMMA SameWaits ==
  ASSUME NEW l, waitq'[l] = waitq[l],
         \A p \in Pids(waitq[l]) : locksState'[p][l] = locksState[p][l]
  PROVE  \A p, k, type : WaitsFor(l, p, k, type)' <=> WaitsFor(l, p, k, type)
<1>1. \A p, k : <<p, k>> \in KeysOn(waitq[l]) => p \in Pids(waitq[l])
  BY DEF KeysOn, Pids
<1> QED
  BY <1>1 DEF WaitsFor

\* Waiters that keep what they asked for stay stuck.
LEMMA StuckStays ==
  ASSUME NEW l, NEW k, Stuck(l, k),
         \A p : WaitsFor(l, p, k, "READ") => WaitsFor(l, p, k, "READ")',
         \A p : WaitsFor(l, p, k, "WRITE") => WaitsFor(l, p, k, "WRITE")'
  PROVE  Stuck(l, k)'
  BY DEF Stuck

LEMMA ReasonStays ==
  ASSUME NEW l, Reason(l), ltype[l] = "WRITE" => ltype'[l] = "WRITE",
         waitq'[l] = waitq[l],
         \A p \in Pids(waitq[l]) : locksState'[p][l] = locksState[p][l]
  PROVE  Reason(l)'
<1>1. \A p, k, type : WaitsFor(l, p, k, type)' <=> WaitsFor(l, p, k, type)
  BY SameWaits
<1>2. \A k : Stuck(l, k) => Stuck(l, k)'
  BY <1>1, StuckStays
<1> QED
  BY <1>1, <1>2 DEF Reason

LEMMA HOne ==
  ASSUME HInv, CInv', SInv', NEW l \in Locks, Held(l)', Reason(l)',
         \A k \in Locks \ {l} : Unaffected(k)
  PROVE  HInv'
<1>1. ASSUME NEW k \in Locks \ {l}  PROVE Held(k)' /\ Reason(k)'
  <2>1. Held(k) /\ Reason(k) /\ Unaffected(k)
    BY DEF HInv
  <2>2. \A p, j, type : WaitsFor(k, p, j, type)' <=> WaitsFor(k, p, j, type)
    BY <2>1, SameWaits DEF Unaffected
  <2>3. \A j : Stuck(k, j) => Stuck(k, j)'
    BY <2>2, StuckStays
  <2>4. Held(k)'
    BY <2>1, <2>3 DEF Held, Unaffected
  <2>5. Reason(k)'
    BY <2>1, ReasonStays DEF Unaffected
  <2> QED
    BY <2>4, <2>5
<1> QED
  BY <1>1 DEF HInv

\* Nobody waits.
LEMMA NobodyWaits ==
  ASSUME NEW l, waitq'[l] = {}, lstate'[l] = "LUSED" => lproc'[l] # {}
  PROVE  Held(l)' /\ Reason(l)'
<1>1. \A p, k, type : ~WaitsFor(l, p, k, type)'
  BY DEF WaitsFor, KeysOn
<1> QED
  BY <1>1 DEF Held, Reason

LEMMA HInvInit == Init => HInv
<1> SUFFICES ASSUME Init PROVE HInv
  OBVIOUS
<1>1. ASSUME NEW l \in Locks  PROVE Held(l) /\ Reason(l)
  BY DEF Init, Held, Reason, WaitsFor, KeysOn
<1> QED
  BY <1>1, CInvInit, SInvInit DEF HInv

\* A step that leaves the lock tables alone.
LEMMA HInvSame ==
  ASSUME HInv, CInv', SInv', UNCHANGED LTables
  PROVE  HInv'
<1>1. ASSUME NEW k \in Locks  PROVE Held(k)' /\ Reason(k)'
  <2>1. Held(k) /\ Reason(k)
    BY DEF HInv
  <2>2. UNCHANGED <<locksState, lproc, lstate, ltype, waitq>>
    BY DEF LTables
  <2>3. \A j : Stuck(k, j)' <=> Stuck(k, j)
    BY <2>2 DEF Stuck, WaitsFor
  <2>4. Held(k)'
    BY <2>1, <2>2, <2>3 DEF Held
  <2>5. Reason(k)'
    BY <2>1, <2>2, <2>3 DEF Reason, WaitsFor
  <2> QED
    BY <2>4, <2>5
<1> QED
  BY <1>1 DEF HInv

LEMMA HInvLcreate ==
  ASSUME HInv, CInv', SInv', NEW l \in Locks, Lcreate(l)
  PROVE  HInv'
<1>1. /\ lstate[l] = "LFREE" /\ lstate' = [lstate EXCEPT ![l] = "LCREATE"]
      /\ UNCHANGED <<locksState, lproc, ltype, waitq>>
  BY DEF Lcreate, NewLock, procVars
<1>2. waitq'[l] = {} /\ lstate'[l] = "LCREATE"
  BY <1>1 DEF HInv, Held, CInv, LTypes
<1>3. \A k \in Locks \ {l} : Unaffected(k)
  BY <1>1 DEF Unaffected, HInv, CInv, LTypes
<1> QED
  BY <1>2, <1>3, NobodyWaits, HOne

LEMMA HInvLdelete ==
  ASSUME HInv, CInv', SInv', NEW l \in Locks, Unused(l), Ldelete(l)
  PROVE  HInv'
<1>1. waitq[l] = {} /\ Pids(waitq[l]) = {}
  BY DEF Unused, Pids
<1>2. /\ lstate' = [lstate EXCEPT ![l] = "LFREE"]
      /\ ltype' = [ltype EXCEPT ![l] = "EMPTY"]
      /\ lproc' = [lproc EXCEPT ![l] = @ \ {currpid}]
      /\ waitq' = [waitq EXCEPT ![l] = {}]
      /\ locksState' = [p \in All |-> locksState[p]]
  BY <1>1 DEF Ldelete
<1>3. /\ waitq'[l] = {} /\ lstate'[l] = "LFREE"
      /\ \A k \in Locks : Pids(waitq[k]) \subseteq All
  BY <1>2 DEF HInv, CInv, LTypes, PInv, Shape
<1>4. \A k \in Locks \ {l} : Unaffected(k)
  BY <1>2, <1>3 DEF Unaffected, HInv, CInv, LTypes, PInv, Shape
<1> QED
  BY <1>3, <1>4, NobodyWaits, HOne

LEMMA HInvLockFree ==
  ASSUME HInv, CInv', SInv', NEW l \in Locks, NEW type \in Types, LockFree(l, type)
  PROVE  HInv'
<1>1. /\ lstate[l] \in {"LCREATE", "LFREE"}
      /\ lstate' = [lstate EXCEPT ![l] = "LUSED"]
      /\ ltype' = [ltype EXCEPT ![l] = type]
      /\ lproc' = [lproc EXCEPT ![l] = @ \cup {currpid}]
      /\ locksState' = [locksState EXCEPT ![currpid][l] = type]
      /\ waitq' = waitq
  BY DEF LockFree
<1>2. waitq'[l] = {} /\ lproc'[l] # {}
  BY <1>1 DEF HInv, Held, CInv, LTypes
<1>3. currpid \in All
  BY Current DEF HInv, CInv
<1>4. \A k \in Locks \ {l} : Unaffected(k)
  BY <1>1, <1>3 DEF Unaffected, HInv, CInv, LTypes, PInv, Shape
<1> QED
  BY <1>2, <1>4, NobodyWaits, HOne

LEMMA HInvLockJoin ==
  ASSUME HInv, CInv', SInv', NEW l \in Locks, NEW priority, LockJoin(l, priority)
  PROVE  HInv'
<1>1. /\ lproc' = [lproc EXCEPT ![l] = @ \cup {currpid}]
      /\ locksState' = [locksState EXCEPT ![currpid][l] = "READ"]
      /\ lstate[l] = "LUSED"
      /\ UNCHANGED <<lstate, ltype, waitq>>
  BY DEF LockJoin
<1>2. /\ currpid \in All
      /\ \A k \in Locks : currpid \notin Pids(waitq[k]) /\ Pids(waitq[k]) \subseteq All
  BY Current DEF HInv, CInv, PInv, Shape
<1>3. \A k \in Locks : \A p \in Pids(waitq[k]) : locksState'[p][k] = locksState[p][k]
  BY <1>1, <1>2 DEF HInv, CInv, LTypes
<1>4. Held(l)'
  <2>1. lproc'[l] # {}
    BY <1>1 DEF HInv, CInv, LTypes
  <2> QED
    BY <1>1, <2>1 DEF Held
<1>5. Reason(l)'
  BY <1>1, <1>3, ReasonStays DEF HInv
<1>6. \A k \in Locks \ {l} : Unaffected(k)
  BY <1>1, <1>3 DEF Unaffected, HInv, CInv, LTypes
<1> QED
  BY <1>4, <1>5, <1>6, HOne

LEMMA HInvLockWait ==
  ASSUME HInv, CInv', SInv', NEW l \in Locks, NEW type \in Types, NEW priority \in WaitPrios,
         LockWait(l, type, priority)
  PROVE  HInv'
<1>1. /\ MustWait(l, type, priority)
      /\ waitq' = [waitq EXCEPT ![l] = Insert(@, currpid, priority)]
      /\ locksState' = [locksState EXCEPT ![currpid][l] = type]
      /\ UNCHANGED <<lproc, lstate, ltype>>
  BY DEF LockWait
<1>2. /\ currpid \in All /\ priority \in Int
      /\ \A k \in Locks : currpid \notin Pids(waitq[k]) /\ Pids(waitq[k]) \subseteq All
  BY Current, PriosAssumption DEF HInv, CInv, PInv, Shape
<1>3. /\ \A p \in All, k \in Locks :
           locksState'[p][k] = IF p = currpid /\ k = l THEN type ELSE locksState[p][k]
      /\ waitq'[l] = Insert(waitq[l], currpid, priority)
      /\ \A k \in Locks \ {l} : waitq'[k] = waitq[k]
  BY <1>1, <1>2 DEF HInv, CInv, LTypes, PInv, Shape
<1>4. \A p, k : <<p, k>> \in KeysOn(waitq[l]) => p \in Pids(waitq[l]) /\ p \in All /\ p # currpid
  BY <1>2 DEF KeysOn, Pids
<1>5. \A p, k : <<p, k>> \in KeysOn(waitq'[l]) <=>
                  <<p, k>> \in KeysOn(waitq[l]) \/ (p = currpid /\ k = priority)
  BY <1>3, KeysInsert
<1>6. \A p, k, t : WaitsFor(l, p, k, t) => WaitsFor(l, p, k, t)'
  BY <1>3, <1>4, <1>5 DEF WaitsFor
<1>7. \A k : Stuck(l, k) => Stuck(l, k)'
  BY <1>6, StuckStays
<1>8. Held(l)'
  BY <1>1, <1>7 DEF Held, HInv, MustWait
<1>9. ASSUME NEW r \in All, NEW k \in Int, WaitsFor(l, r, k, "READ")'
      PROVE  \/ ltype'[l] = "WRITE"
             \/ \E w \in All, j \in Int : j > k /\ WaitsFor(l, w, j, "WRITE")'
             \/ Stuck(l, k)'
  <2>1. CASE WaitsFor(l, r, k, "READ")
    BY <1>1, <1>6, <1>7, <2>1 DEF HInv, Reason
  <2>2. CASE ~WaitsFor(l, r, k, "READ")
    <3>1. r = currpid /\ k = priority /\ type = "READ"
      BY <1>2, <1>3, <1>4, <1>5, <1>9, <2>2 DEF WaitsFor
    <3>2. CASE ltype[l] = "WRITE"
      BY <1>1, <3>2
    <3>3. CASE HigherPriorityWriter(l, priority)
      <4>1. PICK e \in waitq[l] : locksState[e.pid][l] = "WRITE" /\ e.key > priority
        BY <3>3 DEF HigherPriorityWriter
      <4>2. WaitsFor(l, e.pid, e.key, "WRITE")
        BY <4>1 DEF WaitsFor, KeysOn
      <4>3. e.pid \in All /\ e.key \in Int
        BY EntryWaits DEF HInv
      <4> QED
        BY <1>6, <3>1, <4>1, <4>2, <4>3
    <3> QED
      BY <1>1, <3>1, <3>2, <3>3 DEF MustWait
  <2> QED
    BY <2>1, <2>2
<1>10. Reason(l)'
  BY <1>9 DEF Reason
<1>11. \A k \in Locks \ {l} : Unaffected(k)
  BY <1>1, <1>2, <1>3 DEF Unaffected
<1> QED
  BY <1>8, <1>10, <1>11, HOne

LEMMA HInvShared ==
  ASSUME HInv, CInv', SInv', NEW l, ReleaseShared(l)
  PROVE  HInv'
<1>1. /\ l \in Locks /\ currpid \in All /\ ltype[l] = "READ" /\ lstate[l] = "LUSED"
      /\ currpid \in lproc[l] /\ ~PassesOn(l)
  BY Releaser DEF ReleaseShared, HInv
<1>2. /\ GiveUp(currpid, l)
      /\ lstate' = [lstate EXCEPT ![l] = "LUSED"]
      /\ ltype' = [ltype EXCEPT ![l] = "READ"]
      /\ waitq' = waitq
  BY DEF ReleaseShared, NobodyAdmitted
<1>3. /\ \A p \in All, k \in Locks :
           locksState'[p][k] = IF p = currpid /\ k = l THEN "EMPTY" ELSE locksState[p][k]
      /\ \A k \in Locks : lproc'[k] = IF k = l THEN lproc[k] \ {currpid} ELSE lproc[k]
  BY <1>1, <1>2, GivenUp DEF HInv
<1>4. lproc'[l] # {}
  <2>1. lproc[l] # {currpid}
    BY <1>1, FS_Singleton DEF PassesOn
  <2> QED
    BY <1>1, <1>3, <2>1
<1>5. \A k \in Locks : currpid \notin Pids(waitq[k]) /\ Pids(waitq[k]) \subseteq All
  BY Current DEF HInv, CInv, PInv, Shape
<1>6. Held(l)'
  BY <1>1, <1>2, <1>4 DEF Held, HInv, CInv, LTypes
<1>7. Reason(l)'
  BY <1>1, <1>2, <1>3, <1>5, ReasonStays DEF HInv
<1>8. \A k \in Locks \ {l} : Unaffected(k)
  BY <1>2, <1>3, <1>5 DEF Unaffected, HInv, CInv, LTypes
<1> QED
  BY <1>1, <1>6, <1>7, <1>8, HOne

LEMMA HInvFree ==
  ASSUME HInv, CInv', SInv', NEW l, ReleaseFree(l)
  PROVE  HInv'
<1>1. l \in Locks /\ currpid \in All /\ waitq[l] = {}
  BY Releaser DEF ReleaseFree, HInv
<1>2. /\ GiveUp(currpid, l)
      /\ lstate' = [lstate EXCEPT ![l] = "LFREE"]
      /\ ltype' = ltype /\ waitq' = waitq
  BY DEF ReleaseFree, NobodyAdmitted
<1>3. /\ \A p \in All, k \in Locks :
           locksState'[p][k] = IF p = currpid /\ k = l THEN "EMPTY" ELSE locksState[p][k]
      /\ \A k \in Locks : lproc'[k] = IF k = l THEN lproc[k] \ {currpid} ELSE lproc[k]
  BY <1>1, <1>2, GivenUp DEF HInv
<1>4. waitq'[l] = {} /\ lstate'[l] = "LFREE"
  BY <1>1, <1>2 DEF HInv, CInv, LTypes
<1>5. \A k \in Locks : Pids(waitq[k]) \subseteq All
  BY DEF HInv, CInv, PInv, Shape
<1>6. \A k \in Locks \ {l} : Unaffected(k)
  BY <1>2, <1>3, <1>5 DEF Unaffected, HInv, CInv, LTypes
<1> QED
  BY <1>1, <1>4, <1>6, NobodyWaits, HOne

\* The tables of a lock that has been passed on.
LEMMA HandedOver ==
  ASSUME HInv, NEW l, ReleaseHandOver(l)
  PROVE  /\ l \in Locks /\ waitq[l] # {} /\ lstate[l] = "LUSED" /\ ltype[l] \in Types
         /\ lproc[l] = {currpid} /\ currpid \in All
         /\ waitq'[l] = Remove(waitq[l], Pids(Admitted(l)))
         /\ lproc'[l] = Pids(Admitted(l))
         /\ lstate'[l] = "LUSED"
         /\ Admitted(l) # {} =>
              ltype'[l] = IF Admitted(l) \subseteq Readers(l) THEN "READ" ELSE "WRITE"
         /\ \A p \in Pids(waitq[l]) : locksState'[p][l] = locksState[p][l]
         /\ \A k \in Locks \ {l} : Unaffected(k)
<1> DEFINE G == Pids(Admitted(l))
           type == IF Admitted(l) \subseteq Readers(l) THEN "READ" ELSE "WRITE"
<1>1. /\ l \in Locks /\ currpid \in All /\ lstate[l] = "LUSED" /\ ltype[l] \in Types
      /\ lproc[l] = {currpid} /\ waitq[l] # {}
  BY Releaser DEF ReleaseHandOver, HInv
<1>2. /\ locksState' = [locksState EXCEPT ![currpid][l] = "EMPTY"]
      /\ lproc' = [lproc EXCEPT ![l] = (@ \ {currpid}) \cup G]
      /\ waitq' = [waitq EXCEPT ![l] = Remove(@, G)]
  BY Zenon DEF ReleaseHandOver
<1>3. IF G = {} THEN lstate' = lstate /\ ltype' = ltype
      ELSE lstate' = [lstate EXCEPT ![l] = "LUSED"] /\ ltype' = [ltype EXCEPT ![l] = type]
  BY DEF ReleaseHandOver
<1>4. Admitted(l) # {} => G # {}
  BY DEF Pids
<1>5. \A k \in Locks : currpid \notin Pids(waitq[k]) /\ Pids(waitq[k]) \subseteq All
  BY Current DEF HInv, CInv, PInv, Shape
<1>6. G \in SUBSET All
  BY <1>1, <1>5, AdmittedWaits
<1> HIDE DEF G
<1>7. /\ \A p \in All, k \in Locks :
           locksState'[p][k] = IF p = currpid /\ k = l THEN "EMPTY" ELSE locksState[p][k]
      /\ \A k \in Locks : lproc'[k] = IF k = l THEN (lproc[k] \ {currpid}) \cup G ELSE lproc[k]
  BY <1>1, <1>2, <1>6, PassedOn DEF HInv, CInv
<1>8. /\ waitq'[l] = Remove(waitq[l], G) /\ lproc'[l] = G
      /\ \A k \in Locks \ {l} : waitq'[k] = waitq[k]
  BY <1>1, <1>2, <1>7 DEF HInv, CInv, PInv, Shape
<1> HIDE DEF type
<1>9. lstate'[l] = "LUSED" /\ (G # {} => ltype'[l] = type)
  BY <1>1, <1>3 DEF HInv, CInv, LTypes
<1>10. \A k \in Locks : \A p \in Pids(waitq[k]) : locksState'[p][k] = locksState[p][k]
  BY <1>5, <1>7
<1>11. \A k \in Locks \ {l} : lstate'[k] = lstate[k] /\ ltype'[k] = ltype[k]
  BY <1>1, <1>3 DEF HInv, CInv, LTypes
<1>12. \A k \in Locks \ {l} : Unaffected(k)
  BY <1>7, <1>8, <1>10, <1>11 DEF Unaffected
<1> QED
  BY <1>1, <1>4, <1>8, <1>9, <1>10, <1>12 DEF G, type

\* A waiter waits on exactly if it has not been admitted.
LEMMA StillWaits ==
  ASSUME HInv, NEW l, ReleaseHandOver(l)
  PROVE  \A p, k, type : WaitsFor(l, p, k, type)' <=>
                           WaitsFor(l, p, k, type) /\ p \notin Pids(Admitted(l))
<1>1. /\ waitq'[l] = Remove(waitq[l], Pids(Admitted(l)))
      /\ \A p \in Pids(waitq[l]) : locksState'[p][l] = locksState[p][l]
  BY HandedOver
<1>2. \A p, k : <<p, k>> \in KeysOn(waitq'[l]) <=>
                  <<p, k>> \in KeysOn(waitq[l]) /\ p \notin Pids(Admitted(l))
  BY <1>1, KeysRemove
<1>3. \A p, k : <<p, k>> \in KeysOn(waitq[l]) => p \in Pids(waitq[l])
  BY DEF KeysOn, Pids
<1> QED
  BY <1>1, <1>2, <1>3 DEF WaitsFor

\* An entry of the queue that has not been admitted still waits.
LEMMA LeftBehind ==
  ASSUME HInv, NEW l, ReleaseHandOver(l), NEW e \in waitq[l], e \notin Admitted(l)
  PROVE  /\ e \in Readers(l) => WaitsFor(l, e.pid, e.key, "READ")'
         /\ e \in Writers(l) => WaitsFor(l, e.pid, e.key, "WRITE")'
<1>1. l \in Locks /\ Ordered(waitq[l])
  BY HandedOver DEF HInv, SInv, Waiting
<1>2. Admitted(l) \subseteq waitq[l]
  BY AdmittedKinds DEF Readers, Writers
<1>3. e.pid \notin Pids(Admitted(l))
  BY <1>1, <1>2 DEF Ordered, Pids
<1> QED
  BY <1>1, <1>3, EntryWaits, StillWaits DEF HInv

LEMMA HInvHandOver ==
  ASSUME HInv, CInv', SInv', NEW l, ReleaseHandOver(l)
  PROVE  HInv'
<1>1. /\ l \in Locks /\ waitq[l] # {} /\ lstate'[l] = "LUSED"
      /\ lproc'[l] = Pids(Admitted(l))
      /\ Admitted(l) # {} => ltype'[l] = IF Admitted(l) \subseteq Readers(l) THEN "READ" ELSE "WRITE"
      /\ \A k \in Locks \ {l} : Unaffected(k)
  BY HandedOver
<1>2. /\ Ordered(waitq[l])
      /\ Readers(l) \subseteq waitq[l] /\ Writers(l) = waitq[l] \ Readers(l)
      /\ \A e \in waitq[l] : e.pid \in All /\ e.key \in Int
  BY <1>1, EntryWaits DEF HInv, SInv, Waiting, Readers, Writers
<1>3. ASSUME NEW w \in Writers(l), NEW x \in Readers(l),
             w \notin Admitted(l), x \notin Admitted(l),
             w.key = x.key, ~Grace(w.pid, x.pid)
      PROVE  Stuck(l, x.key)'
  <2>1. WaitsFor(l, w.pid, x.key, "WRITE")' /\ WaitsFor(l, x.pid, x.key, "READ")'
    BY <1>2, <1>3, LeftBehind
  <2>2. w.pid \in All /\ x.pid \in All
    BY <1>2
  <2> QED
    BY <1>3, <2>1, <2>2 DEF Stuck
<1>4. Held(l)'
  <2>1. CASE Admitted(l) # {}
    BY <1>1, <2>1 DEF Held, Pids
  <2>2. CASE Admitted(l) = {}
    <3>1. PICK w \in Writers(l), x \in Readers(l) : w.key = x.key /\ ~Grace(w.pid, x.pid)
      BY <1>1, <1>2, <2>2, NobodyAdmittedWhy
    <3>2. Stuck(l, x.key)' /\ x.key \in Int
      BY <1>2, <1>3, <2>2, <3>1
    <3> QED
      BY <1>1, <3>2 DEF Held
  <2> QED
    BY <2>1, <2>2
<1>5. ASSUME NEW r \in All, NEW k \in Int, WaitsFor(l, r, k, "READ")'
      PROVE  \/ ltype'[l] = "WRITE"
             \/ \E w \in All, j \in Int : j > k /\ WaitsFor(l, w, j, "WRITE")'
             \/ Stuck(l, k)'
  <2>1. CASE ~(Admitted(l) \subseteq Readers(l))
    BY <1>1, <2>1
  <2>2. CASE Admitted(l) \subseteq Readers(l)
    <3>1. PICK e \in Readers(l) : e.pid = r /\ e.key = k /\ e \notin Admitted(l)
      BY <1>1, <1>5, StillWaits, EntryWaits DEF HInv, Pids
    <3>2. PICK w \in Writers(l) :
           \/ w.key > e.key
           \/ \E x \in Readers(l) \ Admitted(l) :
                w.key = e.key /\ x.key = e.key /\ ~Grace(w.pid, x.pid)
      BY <1>1, <1>2, <2>2, <3>1, WhyNotAdmitted
    <3>3. w \notin Admitted(l) /\ w \in waitq[l]
      BY <1>2, <2>2
    <3>4. WaitsFor(l, w.pid, w.key, "WRITE")' /\ w.pid \in All /\ w.key \in Int
      BY <1>2, <3>3, LeftBehind
    <3> QED
      BY <1>3, <3>1, <3>2, <3>3, <3>4
  <2> QED
    BY <2>1, <2>2
<1>6. Reason(l)'
  BY <1>5 DEF Reason
<1> QED
  BY <1>1, <1>4, <1>6, HOne

LEMMA HInvRelease ==
  ASSUME HInv, CInv', SInv', NEW l, NEW more, Release(l, more)
  PROVE  HInv'
<1>1. CASE ReleaseRefused(l)
  BY <1>1, HInvSame DEF ReleaseRefused, LTables
<1> QED
  BY <1>1, HInvShared, HInvFree, HInvHandOver DEF Release

LEMMA HInvLock ==
  ASSUME HInv, CInv', SInv', NEW l \in Locks, LockCall(l)
  PROVE  HInv'
  BY HInvLockFree, HInvLockJoin, HInvLockWait DEF LockCall

LEMMA ClientSteps == ClientNext => Next
  BY DEF ClientNext, OtherStep, Ask, Next

LEMMA HInvNext == HInv /\ [ClientNext]_vars => HInv'
<1> SUFFICES ASSUME HInv, [ClientNext]_vars PROVE HInv'
  OBVIOUS
<1>1. CInv' /\ SInv'
  BY CInvNext, SInvNext, ClientSteps DEF HInv
<1>2. CASE \E l \in Locks : Lcreate(l)
  BY <1>1, <1>2, HInvLcreate
<1>3. CASE \E l \in Locks : Unused(l) /\ Ldelete(l)
  BY <1>1, <1>3, HInvLdelete
<1>4. CASE Ask(Fresh)
  BY <1>1, <1>4, HInvLock DEF Ask
<1>5. CASE ReleaseCall
  BY <1>1, <1>5, HInvRelease DEF ReleaseCall, Releaseall
<1>6. CASE ReleaseNext
  BY <1>1, <1>6, HInvRelease DEF ReleaseNext
<1>7. CASE Scheduling
  <2>1. UNCHANGED LTables
    BY <1>7 DEF Scheduling, Sleep, Wakeup, ClkInt, Chprio, Create, Resume, LTables, procVars, lockVars
  <2> QED
    BY <1>1, <2>1, HInvSame
<1>8. CASE Exit \/ \E p \in Procs : KillIdle(p)
  BY <1>1, <1>8, HInvSame DEF Exit, KillIdle, LTables, procVars, lockVars
<1>9. CASE UNCHANGED vars
  BY <1>1, <1>9, HInvSame DEF vars, LTables
<1> QED
  BY <1>2, <1>3, <1>4, <1>5, <1>6, <1>7, <1>8, <1>9 DEF ClientNext, OtherStep
-----------------------------------------------------------------------------
\* The comparison of waiting times lets every reader pass every writer: no two
\* process ids are more than four apart.
Close == \A w, r \in Procs : Grace(w, r)

\* The lost wakeup has one cause.  A lock that somebody waits for has a holder
\* unless a writer and a reader wait for it with the same lock priority and the
\* test of their waiting times in releaseall() fails.
HeldOrStuck ==
  \A l \in Locks : waitq[l] # {} => lproc[l] # {} \/ \E w \in Writers(l), r \in Readers(l) :
    w.key = r.key /\ ~Grace(w.pid, r.pid)

LEMMA StuckEntries ==
  ASSUME SInv, NEW l \in Locks, NEW k, Stuck(l, k)
  PROVE  \E w \in Writers(l), r \in Readers(l) :
           w.key = k /\ r.key = k /\ ~Grace(w.pid, r.pid)
<1>1. PICK w \in All, r \in All :
        WaitsFor(l, w, k, "WRITE") /\ WaitsFor(l, r, k, "READ") /\ ~Grace(w, r)
  BY DEF Stuck
<1> QED
  BY <1>1, EntryWaits

\* Whatever the calls, priorities and process ids, release() loses a wakeup in that
\* one way only (releaseall.c, the grace tests).
THEOREM StuckTheorem == ClientSpec => []HeldOrStuck
<1>1. ASSUME HInv, NEW l \in Locks, waitq[l] # {}, lproc[l] = {}
      PROVE  \E w \in Writers(l), r \in Readers(l) : w.key = r.key /\ ~Grace(w.pid, r.pid)
  <2>1. PICK k \in Int : Stuck(l, k)
    BY <1>1 DEF HInv, Held
  <2> QED
    BY <1>1, <2>1, StuckEntries DEF HInv
<1>2. HInv => HeldOrStuck
  BY <1>1 DEF HeldOrStuck
<1> QED
  BY <1>2, HInvInit, HInvNext, PTL DEF ClientSpec

LEMMA CloseNotStuck ==
  ASSUME Close, HInv, NEW l \in Locks
  PROVE  \A k : ~Stuck(l, k)
<1>1. \A e \in waitq[l] : e.pid \in Procs
  BY DEF HInv, SInv, Waiting, Pids
<1>2. Readers(l) \subseteq waitq[l] /\ Writers(l) \subseteq waitq[l]
  BY DEF Readers, Writers
<1> QED
  BY <1>1, <1>2, StuckEntries DEF HInv, Close

\* No lost wakeup between processes whose ids are close: a lock that somebody waits
\* for has a holder, whose release passes it on.  It holds through deletion, kill()
\* of a waiter and release of several locks at once (releaseall.c, lock.c, kill.c).
THEOREM HolderTheorem ==
  ASSUME Close
  PROVE  ClientSpec => []WaiterHasHolder
<1>1. ASSUME HInv, NEW l \in Locks, waitq[l] # {}
      PROVE  lproc[l] # {}
  BY <1>1, CloseNotStuck DEF HInv, Held
<1>2. HInv => WaiterHasHolder
  BY <1>1 DEF WaiterHasHolder
<1> QED
  BY <1>2, HInvInit, HInvNext, PTL DEF ClientSpec

\* A reader is kept waiting only by a writer: one that holds the lock or one of
\* higher lock priority that waits for it too.  lock() lets the others join, and a
\* release admits with a reader all that may join it (lock.c, releaseall.c).
THEOREM ReasonTheorem ==
  ASSUME Close
  PROVE  ClientSpec => []ReaderWaitsForReason
<1>1. ASSUME HInv, NEW l \in Locks, NEW e \in Readers(l), ltype[l] # "WRITE"
      PROVE  \E w \in Writers(l) : w.key > e.key
  <2>1. WaitsFor(l, e.pid, e.key, "READ") /\ e.pid \in All /\ e.key \in Int
    BY <1>1, EntryWaits DEF HInv, Readers
  <2>2. PICK w \in All, j \in Int : j > e.key /\ WaitsFor(l, w, j, "WRITE")
    BY <1>1, <2>1, CloseNotStuck DEF HInv, Reason
  <2> QED
    BY <1>1, <2>2, EntryWaits DEF HInv
<1>2. HInv => ReaderWaitsForReason
  BY <1>1 DEF ReaderWaitsForReason
<1> QED
  BY <1>2, HInvInit, HInvNext, PTL DEF ClientSpec
-----------------------------------------------------------------------------
(* The locks implement the locking policy *)

\* The owners and the waiters that the policy sees.
Own(l) == {[pid |-> p, type |-> locksState[p][l]] : p \in lproc[l]}
Wts(l) == {[pid |-> e.pid, type |-> locksState[e.pid][l], key |-> e.key] : e \in waitq[l]}
AbsOwners  == [l \in Locks |-> Own(l)]
AbsWaiters == [l \in Locks |-> Wts(l)]

\* What the policy may do to a lock, of the owners O and waiters W it leaves.
LEMMA RequestIs ==
  ASSUME NEW l \in Locks, NEW w, \A x \in Own(l) \cup Wts(l) : x.pid # w.pid,
         LET grantable == \/ Own(l) = {}
                          \/ /\ w.type = "READ" /\ \A x \in Own(l) : x.type # "WRITE"
                             /\ \A x \in Wts(l) : x.type = "WRITE" => x.key <= w.key
         IN  \/ /\ grantable
                /\ AbsOwners' = [AbsOwners EXCEPT ![l] = @ \cup {[pid |-> w.pid, type |-> w.type]}]
                /\ AbsWaiters' = AbsWaiters
             \/ /\ ~grantable
                /\ AbsWaiters' = [AbsWaiters EXCEPT ![l] = @ \cup {w}]
                /\ AbsOwners' = AbsOwners
  PROVE  Abs!Request(l, w)
<1>1. Abs!Idle(w.pid, l)
  BY DEF Abs!Idle, Own, Wts
<1>2. Abs!Grantable(l, w) <=>
        \/ Own(l) = {}
        \/ /\ w.type = "READ" /\ \A x \in Own(l) : x.type # "WRITE"
           /\ \A x \in Wts(l) : x.type = "WRITE" => x.key <= w.key
  BY DEF Abs!Grantable, Abs!Writing, Own, Wts
<1> QED
  BY <1>1, <1>2 DEF Abs!Request, Abs!AsOwner, AbsOwners, AbsWaiters, Own, Wts

LEMMA ReleaseIs ==
  ASSUME NEW l \in Locks, NEW o \in Own(l),
         \/ /\ Own(l) # {o} \/ Wts(l) = {}
            /\ AbsOwners' = [AbsOwners EXCEPT ![l] = @ \ {o}]
            /\ AbsWaiters' = AbsWaiters
         \/ /\ Own(l) = {o} /\ Wts(l) # {}
            /\ \E A \in SUBSET Wts(l) :
                 /\ Abs!Admissible(A, Wts(l))
                 /\ AbsOwners' = [AbsOwners EXCEPT ![l] = {Abs!AsOwner(w) : w \in A}]
                 /\ AbsWaiters' = [AbsWaiters EXCEPT ![l] = @ \ A]
  PROVE  Abs!Release(l, o)
  BY DEF Abs!Release, AbsOwners, AbsWaiters, Own, Wts

\* The policy's view of a queue depends on who waits with which key only.
LEMMA WtsIs ==
  ASSUME NEW l, NEW x
  PROVE  x \in Wts(l) <=>
           \E p, k : <<p, k>> \in KeysOn(waitq[l])
                     /\ x = [pid |-> p, type |-> locksState[p][l], key |-> k]
<1>1. ASSUME x \in Wts(l)
      PROVE  \E p, k : <<p, k>> \in KeysOn(waitq[l])
                       /\ x = [pid |-> p, type |-> locksState[p][l], key |-> k]
  <2>1. PICK e \in waitq[l] : x = [pid |-> e.pid, type |-> locksState[e.pid][l], key |-> e.key]
    BY <1>1 DEF Wts
  <2>2. <<e.pid, e.key>> \in KeysOn(waitq[l])
    BY DEF KeysOn
  <2> QED
    BY <2>1, <2>2
<1>2. ASSUME NEW p, NEW k, <<p, k>> \in KeysOn(waitq[l]),
             x = [pid |-> p, type |-> locksState[p][l], key |-> k]
      PROVE  x \in Wts(l)
  <2>1. PICK e \in waitq[l] : e.pid = p /\ e.key = k
    BY <1>2, InKeys
  <2> QED
    BY <1>2, <2>1 DEF Wts
<1> QED
  BY <1>1, <1>2

LEMMA WtsIsNext ==
  ASSUME NEW l, NEW x
  PROVE  x \in Wts(l)' <=>
           \E p, k : <<p, k>> \in KeysOn(waitq'[l])
                     /\ x = [pid |-> p, type |-> locksState'[p][l], key |-> k]
<1>1. ASSUME x \in Wts(l)'
      PROVE  \E p, k : <<p, k>> \in KeysOn(waitq'[l])
                       /\ x = [pid |-> p, type |-> locksState'[p][l], key |-> k]
  <2>1. PICK e \in waitq'[l] : x = [pid |-> e.pid, type |-> locksState'[e.pid][l], key |-> e.key]
    BY <1>1 DEF Wts
  <2>2. <<e.pid, e.key>> \in KeysOn(waitq'[l])
    BY DEF KeysOn
  <2> QED
    BY <2>1, <2>2
<1>2. ASSUME NEW p, NEW k, <<p, k>> \in KeysOn(waitq'[l]),
             x = [pid |-> p, type |-> locksState'[p][l], key |-> k]
      PROVE  x \in Wts(l)'
  <2>1. PICK e \in waitq'[l] : e.pid = p /\ e.key = k
    BY <1>2, InKeys
  <2> QED
    BY <1>2, <2>1 DEF Wts
<1> QED
  BY <1>1, <1>2

LEMMA OwnSame ==
  ASSUME NEW k, lproc'[k] = lproc[k], \A p \in lproc[k] : locksState'[p][k] = locksState[p][k]
  PROVE  Own(k)' = Own(k)
  BY DEF Own

LEMMA WtsSame ==
  ASSUME NEW k, waitq'[k] = waitq[k],
         \A p \in Pids(waitq[k]) : locksState'[p][k] = locksState[p][k]
  PROVE  Wts(k)' = Wts(k)
<1>1. \A e \in waitq[k] : e.pid \in Pids(waitq[k])
  BY DEF Pids
<1> QED
  BY <1>1 DEF Wts

\* The tables of the policy when only lock l changes.
LEMMA AbsOne ==
  ASSUME NEW l \in Locks, \A k \in Locks \ {l} : Own(k)' = Own(k) /\ Wts(k)' = Wts(k)
  PROVE  /\ \A S : Own(l)' = Own(l) \cup S => AbsOwners' = [AbsOwners EXCEPT ![l] = @ \cup S]
         /\ \A S : Wts(l)' = Wts(l) \cup S => AbsWaiters' = [AbsWaiters EXCEPT ![l] = @ \cup S]
         /\ \A S : Own(l)' = Own(l) \ S => AbsOwners' = [AbsOwners EXCEPT ![l] = @ \ S]
         /\ \A S : Wts(l)' = Wts(l) \ S => AbsWaiters' = [AbsWaiters EXCEPT ![l] = @ \ S]
         /\ \A S : Own(l)' = S => AbsOwners' = [AbsOwners EXCEPT ![l] = S]
         /\ Own(l)' = Own(l) => AbsOwners' = AbsOwners
         /\ Wts(l)' = Wts(l) => AbsWaiters' = AbsWaiters
  BY DEF AbsOwners, AbsWaiters

\* lock() changes what its caller has to do with l only.
LEMMA OthersSame ==
  ASSUME CInv, NEW l \in Locks, currpid \in All, NEW type,
         locksState' = [locksState EXCEPT ![currpid][l] = type],
         \A k \in Locks \ {l} : lproc'[k] = lproc[k] /\ waitq'[k] = waitq[k]
  PROVE  /\ \A k \in Locks \ {l} : Own(k)' = Own(k) /\ Wts(k)' = Wts(k)
         /\ \A p \in All : locksState'[p][l] = IF p = currpid THEN type ELSE locksState[p][l]
<1>1. \A p \in All, k \in Locks :
        locksState'[p][k] = IF p = currpid /\ k = l THEN type ELSE locksState[p][k]
  BY DEF CInv, LTypes
<1>2. \A k \in Locks : lproc[k] \subseteq All /\ Pids(waitq[k]) \subseteq All
  BY DEF CInv, LTypes, PInv, Shape
<1>3. \A k \in Locks \ {l} : Own(k)' = Own(k)
  BY <1>1, <1>2, OwnSame
<1>4. \A k \in Locks \ {l} : Wts(k)' = Wts(k)
  BY <1>1, <1>2, WtsSame
<1> QED
  BY <1>1, <1>3, <1>4

\* The caller of lock() has no part in the lock yet.
LEMMA CallerIdle ==
  ASSUME CInv, Running, NEW l \in Locks, Fresh(l)
  PROVE  \A x \in Own(l) \cup Wts(l) : x.pid # currpid
<1>1. currpid \notin lproc[l] /\ \A e \in waitq[l] : e.pid # currpid
  BY Caller DEF Fresh, Pids
<1> QED
  BY <1>1 DEF Own, Wts

LEMMA PolicyFree ==
  ASSUME CInv, NEW l \in Locks, NEW type, NEW k, LockFree(l, type),
         NEW w, w = [pid |-> currpid, type |-> type, key |-> k]
  PROVE  Abs!Request(l, w)
<1>1. /\ lstate[l] # "LUSED"
      /\ lproc' = [lproc EXCEPT ![l] = @ \cup {currpid}]
      /\ locksState' = [locksState EXCEPT ![currpid][l] = type]
      /\ waitq' = waitq
  BY DEF LockFree
<1>2. currpid \in All /\ currpid \notin Pids(waitq[l]) /\ lproc[l] = {}
  BY <1>1, Caller DEF CInv, Owned, LockFree
<1>3. /\ lproc'[l] = {currpid}
      /\ \A j \in Locks \ {l} : lproc'[j] = lproc[j] /\ waitq'[j] = waitq[j]
  BY <1>1, <1>2 DEF CInv, LTypes
<1>4. /\ \A j \in Locks \ {l} : Own(j)' = Own(j) /\ Wts(j)' = Wts(j)
      /\ \A p \in All : locksState'[p][l] = IF p = currpid THEN type ELSE locksState[p][l]
  BY <1>1, <1>2, <1>3, OthersSame
<1>5. Own(l) = {} /\ Own(l)' = {[pid |-> currpid, type |-> type]}
  BY <1>2, <1>3, <1>4 DEF Own
<1>6. Wts(l)' = Wts(l)
  BY <1>1, <1>2, <1>4, WtsSame DEF CInv, PInv, Shape
<1>7. \A x \in Own(l) \cup Wts(l) : x.pid # currpid
  BY <1>2, CallerIdle DEF LockFree, Fresh
<1>8. /\ AbsOwners' = [AbsOwners EXCEPT ![l] = @ \cup {[pid |-> currpid, type |-> type]}]
      /\ AbsWaiters' = AbsWaiters
  BY <1>4, <1>5, <1>6, AbsOne
<1>9. w.pid = currpid /\ w.type = type
  OBVIOUS
<1> QED
  BY <1>5, <1>7, <1>8, <1>9, RequestIs

LEMMA PolicyJoin ==
  ASSUME HInv, NEW l \in Locks, NEW k \in Int, LockJoin(l, k), Fresh(l),
         NEW w, w = [pid |-> currpid, type |-> "READ", key |-> k]
  PROVE  Abs!Request(l, w)
<1>1. /\ ltype[l] = "READ" /\ ~HigherPriorityWriter(l, k)
      /\ lproc' = [lproc EXCEPT ![l] = @ \cup {currpid}]
      /\ locksState' = [locksState EXCEPT ![currpid][l] = "READ"]
      /\ waitq' = waitq
  BY DEF LockJoin
<1>2. currpid \in All /\ currpid \notin Pids(waitq[l]) /\ currpid \notin lproc[l] /\ lproc[l] \subseteq All
  BY Caller DEF HInv, CInv, LTypes, Fresh, LockJoin, All
<1>3. /\ lproc'[l] = lproc[l] \cup {currpid}
      /\ \A j \in Locks \ {l} : lproc'[j] = lproc[j] /\ waitq'[j] = waitq[j]
  BY <1>1 DEF HInv, CInv, LTypes
<1>4. /\ \A j \in Locks \ {l} : Own(j)' = Own(j) /\ Wts(j)' = Wts(j)
      /\ \A p \in All : locksState'[p][l] = IF p = currpid THEN "READ" ELSE locksState[p][l]
  BY <1>1, <1>2, <1>3, OthersSame DEF HInv
<1>5. Own(l)' = Own(l) \cup {[pid |-> currpid, type |-> "READ"]}
  BY <1>2, <1>3, <1>4 DEF Own
<1>6. Wts(l)' = Wts(l)
  BY <1>1, <1>2, <1>4, WtsSame DEF HInv, CInv, PInv, Shape
<1>7. \A x \in Own(l) \cup Wts(l) : x.pid # currpid
  BY CallerIdle DEF LockJoin, HInv
<1>8. \A x \in Own(l) : x.type # "WRITE"
  BY <1>1 DEF HInv, CInv, Owned, Own
<1>9. \A x \in Wts(l) : x.type = "WRITE" => x.key <= k
  <2>1. \A e \in waitq[l] : e.key \in Int
    BY EntryWaits DEF HInv
  <2>2. \A e \in waitq[l] : locksState[e.pid][l] = "WRITE" => ~(e.key > k)
    BY <1>1 DEF HigherPriorityWriter
  <2> QED
    BY <2>1, <2>2 DEF Wts
<1>10. /\ AbsOwners' = [AbsOwners EXCEPT ![l] = @ \cup {[pid |-> currpid, type |-> "READ"]}]
       /\ AbsWaiters' = AbsWaiters
  BY <1>4, <1>5, <1>6, AbsOne
<1>11. w.pid = currpid /\ w.type = "READ" /\ w.key = k
  OBVIOUS
<1> QED
  BY <1>7, <1>8, <1>9, <1>10, <1>11, RequestIs

LEMMA PolicyWait ==
  ASSUME Close, HInv, NEW l \in Locks, NEW type \in Types, NEW k \in Int,
         LockWait(l, type, k), Fresh(l),
         NEW w, w = [pid |-> currpid, type |-> type, key |-> k]
  PROVE  Abs!Request(l, w)
<1>1. /\ MustWait(l, type, k)
      /\ waitq' = [waitq EXCEPT ![l] = Insert(@, currpid, k)]
      /\ locksState' = [locksState EXCEPT ![currpid][l] = type]
      /\ lproc' = lproc
  BY DEF LockWait
<1>2. currpid \in All /\ currpid \notin Pids(waitq[l]) /\ currpid \notin lproc[l] /\ lproc[l] \subseteq All
  BY Caller DEF HInv, CInv, LTypes, Fresh, LockWait, All
<1>3. /\ waitq'[l] = Insert(waitq[l], currpid, k)
      /\ \A j \in Locks \ {l} : lproc'[j] = lproc[j] /\ waitq'[j] = waitq[j]
  BY <1>1 DEF HInv, CInv, PInv, Shape
<1>4. /\ \A j \in Locks \ {l} : Own(j)' = Own(j) /\ Wts(j)' = Wts(j)
      /\ \A p \in All : locksState'[p][l] = IF p = currpid THEN type ELSE locksState[p][l]
  BY <1>1, <1>2, <1>3, OthersSame DEF HInv
<1>5. w.pid = currpid /\ w.type = type /\ w.key = k
  OBVIOUS
<1>6. Own(l)' = Own(l)
  BY <1>1, <1>2, <1>4, OwnSame
<1>7. Wts(l)' = Wts(l) \cup {w}
  <2>1. \A p, j : <<p, j>> \in KeysOn(waitq[l]) => p \in All /\ p # currpid
    BY <1>2 DEF KeysOn, Pids, HInv, CInv, PInv, Shape
  <2>2. \A p, j : <<p, j>> \in KeysOn(waitq'[l]) <=>
                    <<p, j>> \in KeysOn(waitq[l]) \/ (p = currpid /\ j = k)
    BY <1>3, KeysInsert
  <2>3. ASSUME NEW x  PROVE x \in Wts(l)' <=> x \in Wts(l) \cup {w}
    <3>1. x \in Wts(l)' <=>
            \E p, j : <<p, j>> \in KeysOn(waitq'[l])
                      /\ x = [pid |-> p, type |-> locksState'[p][l], key |-> j]
      BY WtsIsNext
    <3>2. ASSUME x \in Wts(l)'  PROVE x \in Wts(l) \cup {w}
      <4>1. PICK p, j : <<p, j>> \in KeysOn(waitq'[l])
                        /\ x = [pid |-> p, type |-> locksState'[p][l], key |-> j]
        BY <3>1, <3>2
      <4>2. CASE p = currpid /\ j = k
        BY <1>2, <1>4, <4>1, <4>2
      <4>3. CASE <<p, j>> \in KeysOn(waitq[l])
        <5>1. x = [pid |-> p, type |-> locksState[p][l], key |-> j]
          BY <1>4, <2>1, <4>1, <4>3
        <5> QED
          BY <4>3, <5>1, WtsIs
      <4> QED
        BY <2>2, <4>1, <4>2, <4>3
    <3>3. ASSUME x \in Wts(l)  PROVE x \in Wts(l)'
      <4>1. PICK p, j : <<p, j>> \in KeysOn(waitq[l])
                        /\ x = [pid |-> p, type |-> locksState[p][l], key |-> j]
        BY <3>3, WtsIs
      <4>2. x = [pid |-> p, type |-> locksState'[p][l], key |-> j]
        BY <1>4, <2>1, <4>1
      <4> QED
        BY <2>2, <3>1, <4>1, <4>2
    <3>4. w \in Wts(l)'
      <4>1. <<currpid, k>> \in KeysOn(waitq'[l]) /\ w = [pid |-> currpid, type |-> locksState'[currpid][l], key |-> k]
        BY <1>2, <1>4, <2>2
      <4>2. w \in Wts(l)' <=>
            \E p, j : <<p, j>> \in KeysOn(waitq'[l])
                      /\ w = [pid |-> p, type |-> locksState'[p][l], key |-> j]
        BY WtsIsNext
      <4> QED
        BY <4>1, <4>2
    <3> QED
      BY <3>2, <3>3, <3>4
  <2> QED
    BY <2>3
<1>8. \A x \in Own(l) \cup Wts(l) : x.pid # w.pid
  BY <1>5, CallerIdle DEF LockWait, HInv
<1>9. Own(l) # {}
  <2>1. lproc[l] # {}
    BY <1>1, CloseNotStuck DEF HInv, Held, MustWait
  <2> QED
    BY <2>1 DEF Own
<1>10. ASSUME w.type = "READ", \A x \in Own(l) : x.type # "WRITE"
       PROVE  \E x \in Wts(l) : x.type = "WRITE" /\ ~(x.key <= w.key)
  <2>1. ltype[l] # "WRITE"
    <3>1. PICK p \in lproc[l] : TRUE
      BY <1>9 DEF Own
    <3>2. [pid |-> p, type |-> locksState[p][l]] \in Own(l)
      BY DEF Own
    <3>3. locksState[p][l] # "WRITE"
      BY <1>10, <3>2
    <3> QED
      BY <3>1, <3>3 DEF HInv, CInv, Owned
  <2>2. HigherPriorityWriter(l, k)
    BY <1>1, <1>5, <1>10, <2>1 DEF MustWait
  <2>3. PICK e \in waitq[l] : locksState[e.pid][l] = "WRITE" /\ e.key > k
    BY <2>2 DEF HigherPriorityWriter
  <2>4. [pid |-> e.pid, type |-> locksState[e.pid][l], key |-> e.key] \in Wts(l)
    BY DEF Wts
  <2>5. e.key \in Int
    BY EntryWaits DEF HInv
  <2> QED
    BY <1>5, <2>3, <2>4, <2>5
<1>11. AbsWaiters' = [AbsWaiters EXCEPT ![l] = @ \cup {w}] /\ AbsOwners' = AbsOwners
  BY <1>4, <1>6, <1>7, AbsOne
<1> QED
  BY <1>8, <1>9, <1>10, <1>11, RequestIs

\* An entry of the wait queue as the policy sees it.
Seen(l, e) == [pid |-> e.pid, type |-> locksState[e.pid][l], key |-> e.key]

LEMMA SeenWaiters ==
  ASSUME SInv, NEW l \in Locks
  PROVE  /\ Wts(l) = {Seen(l, e) : e \in waitq[l]}
         /\ \A e : Seen(l, e).pid = e.pid /\ Seen(l, e).key = e.key
         /\ \A e \in waitq[l] : e.pid \in Pids(waitq[l]) /\ e.key \in Int
         /\ \A e \in Readers(l) : Seen(l, e).type = "READ"
         /\ \A e \in Writers(l) : Seen(l, e).type = "WRITE"
         /\ waitq[l] = Readers(l) \cup Writers(l)
<1>1. \A e \in waitq[l] : e.pid \in Pids(waitq[l])
  BY DEF Pids
<1>2. \A e \in waitq[l] : e.key \in Int /\ locksState[e.pid][l] \in Types
  BY <1>1, EntryWaits DEF SInv, Waiting
<1>3. Wts(l) = {Seen(l, e) : e \in waitq[l]}
  BY DEF Wts, Seen
<1> QED
  BY <1>1, <1>2, <1>3 DEF Seen, Readers, Writers, Types

\* A hand-over makes a choice the policy allows.
LEMMA PolicyAdmits ==
  ASSUME Close, HInv, NEW l \in Locks, waitq[l] # {}
  PROVE  Abs!Admissible({Seen(l, e) : e \in Admitted(l)}, Wts(l))
<1> DEFINE A == {Seen(l, e) : e \in Admitted(l)}
<1>1. /\ Ordered(waitq[l]) /\ \A e \in waitq[l] : e.pid \in Procs /\ e.key \in Int
  BY EntryWaits DEF HInv, SInv, Waiting, Pids
<1>2. /\ Wts(l) = {Seen(l, e) : e \in waitq[l]}
      /\ \A e : Seen(l, e).pid = e.pid /\ Seen(l, e).key = e.key
      /\ \A e \in Readers(l) : Seen(l, e).type = "READ"
      /\ \A e \in Writers(l) : Seen(l, e).type = "WRITE"
      /\ waitq[l] = Readers(l) \cup Writers(l)
  BY SeenWaiters DEF HInv
<1>3. Readers(l) \subseteq waitq[l] /\ Writers(l) = waitq[l] \ Readers(l)
  BY DEF Readers, Writers
<1>4. CASE ~(Admitted(l) \subseteq Readers(l))
  <2>1. PICK w \in Writers(l) : Admitted(l) = {w}
    BY <1>4, AdmittedKinds
  <2>2. PICK t \in waitq[l] :
          /\ IsLast(waitq[l], t)
          /\ t \in Writers(l) => Admitted(l) = WriterFirst(l, t)
          /\ t \in Readers(l) => Admitted(l) = ReaderFirst(l, t)
    BY <1>1, FirstWaiter
  <2>3. t = w
    <3>1. \A x : ReaderFirst(l, x) \subseteq Readers(l)
      BY DEF ReaderFirst
    <3>2. \A x : Favoured(Readers(l), x) \subseteq Readers(l)
      BY FavouredIs
    <3> QED
      BY <1>2, <1>4, <2>1, <2>2, <3>1, <3>2 DEF WriterFirst
  <2>4. \A e \in waitq[l] : e.key <= w.key
    BY <1>1, <2>2, <2>3 DEF IsLast, Ahead
  <2>5. /\ A = {Seen(l, w)} /\ Seen(l, w) \in Wts(l) /\ Seen(l, w).type = "WRITE"
        /\ \A x \in Wts(l) : x.key <= Seen(l, w).key
    BY <1>2, <1>3, <2>1, <2>4
  <2> QED
    BY <2>5 DEF Abs!Admissible, Abs!Writing
<1>5. CASE Admitted(l) \subseteq Readers(l)
  <2>1. Admitted(l) # {}
    BY <1>1, <1>3, NobodyAdmittedWhy DEF Close
  <2>2. A # {} /\ A \subseteq Wts(l) /\ \A x \in A : x.type = "READ"
    BY <1>2, <1>3, <1>5, <2>1
  <2>3. ASSUME NEW r \in A, NEW w \in Wts(l), w.type = "WRITE"  PROVE w.key <= r.key
    <3>1. PICK e \in Admitted(l), f \in waitq[l] : r = Seen(l, e) /\ w = Seen(l, f)
      BY <1>2, <2>3
    <3>2. f \in Writers(l) /\ f \notin Admitted(l)
      BY <1>2, <1>3, <1>5, <2>3, <3>1
    <3> QED
      BY <1>1, <1>2, <3>1, <3>2, AdmittedPassesNobody DEF NotPassed
  <2>4. ASSUME NEW r \in Wts(l), r.type = "READ",
               \A w \in Wts(l) : w.type = "WRITE" => w.key < r.key
        PROVE  r \in A
    <3>1. PICK e \in waitq[l] : r = Seen(l, e)
      BY <1>2
    <3>2. e \in Readers(l)
      BY <1>2, <2>4, <3>1
    <3>3. \A f \in Writers(l) : f.key < e.key
      <4>1. ASSUME NEW f \in Writers(l)  PROVE f.key < e.key
        <5>1. Seen(l, f) \in Wts(l) /\ Seen(l, f).type = "WRITE"
          BY <1>2, <1>3
        <5> QED
          BY <1>2, <2>4, <3>1, <5>1
      <4> QED
        BY <4>1
    <3>4. \A f \in Writers(l) : ~(f.key > e.key) /\ f.key # e.key
      BY <1>1, <1>3, <3>3
    <3>5. ASSUME e \notin Admitted(l)  PROVE FALSE
      BY <1>1, <1>3, <1>5, <3>2, <3>4, <3>5, WhyNotAdmitted
    <3> QED
      BY <3>1, <3>5
  <2> HIDE DEF A
  <2>5. Abs!Reading(Wts(l)) = {x \in Wts(l) : x.type = "READ"}
    BY DEF Abs!Reading
  <2>6. Abs!Writing(Wts(l)) = {x \in Wts(l) : x.type = "WRITE"}
    BY DEF Abs!Writing
  <2>7. Abs!Admissible(A, Wts(l))
    BY <2>2, <2>3, <2>4, <2>5, <2>6 DEF Abs!Admissible
  <2> QED
    BY <2>7 DEF A
<1> QED
  BY <1>4, <1>5

\* release() changes what its caller has to do with l only.
LEMMA ReleaserOnly ==
  ASSUME HInv, NEW l, ReleaseShared(l) \/ ReleaseFree(l) \/ ReleaseHandOver(l)
  PROVE  /\ l \in Locks /\ currpid \in lproc[l] /\ currpid \in All
         /\ \A k \in Locks \ {l} : Own(k)' = Own(k) /\ Wts(k)' = Wts(k)
         /\ \A p \in All \ {currpid} : locksState'[p][l] = locksState[p][l]
<1>1. /\ l \in Locks /\ currpid \in lproc[l] /\ currpid \in All
      /\ locksState' = [locksState EXCEPT ![currpid][l] = "EMPTY"]
  BY Releaser DEF HInv, ReleaseShared, ReleaseFree, ReleaseHandOver, GiveUp
<1>2. \A k \in Locks \ {l} : lproc'[k] = lproc[k] /\ waitq'[k] = waitq[k]
  <2>1. CASE ReleaseHandOver(l)
    BY <2>1, HandedOver DEF Unaffected
  <2>2. CASE ReleaseShared(l) \/ ReleaseFree(l)
    BY <1>1, <2>2, GivenUp DEF HInv, CInv, ReleaseShared, ReleaseFree, NobodyAdmitted
  <2> QED
    BY <2>1, <2>2
<1>3. \A p \in All, k \in Locks :
        locksState'[p][k] = IF p = currpid /\ k = l THEN "EMPTY" ELSE locksState[p][k]
  BY <1>1 DEF HInv, CInv, LTypes
<1>4. \A k \in Locks \ {l} : Own(k)' = Own(k) /\ Wts(k)' = Wts(k)
  BY <1>1, <1>2, OthersSame DEF HInv
<1> QED
  BY <1>1, <1>3, <1>4

LEMMA PolicyShared ==
  ASSUME HInv, NEW l, ReleaseShared(l)
  PROVE  \E o \in Own(l) : Abs!Release(l, o)
<1>1. /\ l \in Locks /\ currpid \in lproc[l] /\ currpid \in All
      /\ \A k \in Locks \ {l} : Own(k)' = Own(k) /\ Wts(k)' = Wts(k)
      /\ \A p \in All \ {currpid} : locksState'[p][l] = locksState[p][l]
  BY ReleaserOnly
<1>2. /\ lproc'[l] = lproc[l] \ {currpid} /\ waitq' = waitq /\ lproc[l] \subseteq All
      /\ ltype[l] = "READ" /\ Cardinality(lproc[l]) # 1
      /\ currpid \notin Pids(waitq[l]) /\ Pids(waitq[l]) \subseteq All
  BY <1>1, Releaser, GivenUp DEF HInv, CInv, LTypes, PInv, Shape, ReleaseShared, NobodyAdmitted, PassesOn
<1>3. PICK o : o = [pid |-> currpid, type |-> locksState[currpid][l]]
  OBVIOUS
<1>4. o \in Own(l)
  BY <1>1, <1>3 DEF Own
<1>5. Own(l) # {o}
  <2>1. PICK p \in lproc[l] : p # currpid
    <3>1. lproc[l] # {currpid}
      BY <1>2, FS_Singleton
    <3> QED
      BY <1>1, <3>1
  <2>2. [pid |-> p, type |-> locksState[p][l]] \in Own(l)
    BY DEF Own
  <2>3. [pid |-> p, type |-> locksState[p][l]].pid # o.pid
    BY <1>3, <2>1
  <2> QED
    BY <2>2, <2>3
<1>6. Own(l)' = Own(l) \ {o}
  BY <1>1, <1>2, <1>3 DEF Own
<1>7. Wts(l)' = Wts(l)
  BY <1>1, <1>2, WtsSame
<1>8. AbsOwners' = [AbsOwners EXCEPT ![l] = @ \ {o}] /\ AbsWaiters' = AbsWaiters
  BY <1>1, <1>6, <1>7, AbsOne
<1> QED
  BY <1>1, <1>4, <1>5, <1>8, ReleaseIs

LEMMA PolicyFreed ==
  ASSUME HInv, NEW l, ReleaseFree(l)
  PROVE  \E o \in Own(l) : Abs!Release(l, o)
<1>1. /\ l \in Locks /\ currpid \in lproc[l] /\ currpid \in All
      /\ \A k \in Locks \ {l} : Own(k)' = Own(k) /\ Wts(k)' = Wts(k)
  BY ReleaserOnly
<1>2. lproc[l] = {currpid} /\ lproc'[l] = {} /\ waitq' = waitq /\ waitq[l] = {}
  BY <1>1, Releaser, GivenUp DEF HInv, ReleaseFree, NobodyAdmitted
<1>3. PICK o : o = [pid |-> currpid, type |-> locksState[currpid][l]]
  OBVIOUS
<1>4. Own(l) = {o} /\ Own(l)' = {} /\ Wts(l) = {} /\ Wts(l)' = {}
  BY <1>2, <1>3 DEF Own, Wts
<1>5. Own(l)' = Own(l) \ {o} /\ Wts(l)' = Wts(l)
  BY <1>4
<1>6. AbsOwners' = [AbsOwners EXCEPT ![l] = @ \ {o}] /\ AbsWaiters' = AbsWaiters
  BY <1>1, <1>5, AbsOne
<1> QED
  BY <1>1, <1>4, <1>6, ReleaseIs

\* The policy's tables after a hand-over.
LEMMA PolicyPassed ==
  ASSUME HInv, NEW l, ReleaseHandOver(l)
  PROVE  \E A \in SUBSET Wts(l) :
           /\ A = {Seen(l, e) : e \in Admitted(l)}
           /\ Own(l)' = {Abs!AsOwner(x) : x \in A}
           /\ Wts(l)' = Wts(l) \ A
<1>1. /\ l \in Locks /\ lproc'[l] = Pids(Admitted(l))
      /\ waitq'[l] = Remove(waitq[l], Pids(Admitted(l)))
      /\ \A p \in Pids(waitq[l]) : locksState'[p][l] = locksState[p][l]
  BY HandedOver
<1>2. /\ Ordered(waitq[l]) /\ Admitted(l) \subseteq waitq[l]
      /\ \A e \in waitq[l] : e.pid \in Pids(waitq[l])
  BY <1>1, AdmittedKinds DEF HInv, SInv, Waiting, Readers, Writers, Pids
<1>3. Wts(l) = {Seen(l, e) : e \in waitq[l]}
  BY DEF Wts, Seen
<1>4. PICK A : A = {Seen(l, e) : e \in Admitted(l)}
  OBVIOUS
<1>5. A \in SUBSET Wts(l)
  BY <1>2, <1>3, <1>4
<1>6. Own(l)' = {Abs!AsOwner(x) : x \in A}
  <2>1. \A e \in Admitted(l) : locksState'[e.pid][l] = locksState[e.pid][l]
    BY <1>1, <1>2
  <2>2. Own(l)' = {[pid |-> p, type |-> locksState'[p][l]] : p \in Pids(Admitted(l))}
    BY <1>1 DEF Own
  <2>3. Own(l)' = {[pid |-> e.pid, type |-> locksState'[e.pid][l]] : e \in Admitted(l)}
    BY <2>2 DEF Pids
  <2>4. \A e \in Admitted(l) :
          [pid |-> e.pid, type |-> locksState'[e.pid][l]] = Abs!AsOwner(Seen(l, e))
    BY <2>1 DEF Abs!AsOwner, Seen
  <2>5. Own(l)' = {Abs!AsOwner(Seen(l, e)) : e \in Admitted(l)}
    BY <2>3, <2>4
  <2> QED
    BY <1>4, <2>5
<1>7. Wts(l)' = Wts(l) \ A
  <2>1. \A p, k : <<p, k>> \in KeysOn(waitq'[l]) <=>
                    <<p, k>> \in KeysOn(waitq[l]) /\ p \notin Pids(Admitted(l))
    BY <1>1, KeysRemove
  <2>2. \A e \in waitq[l] : e.pid \in Pids(Admitted(l)) <=> e \in Admitted(l)
    BY <1>2 DEF Ordered, Pids
  <2>3. ASSUME NEW x \in Wts(l)'  PROVE x \in Wts(l) \ A
    <3>1. PICK p, k : <<p, k>> \in KeysOn(waitq'[l])
                      /\ x = [pid |-> p, type |-> locksState'[p][l], key |-> k]
      BY <2>3, WtsIsNext
    <3>2. PICK e \in waitq[l] : e.pid = p /\ e.key = k /\ p \notin Pids(Admitted(l))
      BY <2>1, <3>1, InKeys
    <3>3. x = Seen(l, e)
      BY <1>1, <1>2, <3>1, <3>2 DEF Seen
    <3>4. x.pid = p /\ \A f \in Admitted(l) : Seen(l, f).pid \in Pids(Admitted(l))
      BY <3>1 DEF Seen, Pids
    <3> QED
      BY <1>3, <1>4, <3>2, <3>3, <3>4
  <2>4. ASSUME NEW x \in Wts(l) \ A  PROVE x \in Wts(l)'
    <3>1. PICK e \in waitq[l] : x = Seen(l, e)
      BY <1>3
    <3>2. e.pid \notin Pids(Admitted(l))
      BY <1>4, <2>2, <2>4, <3>1
    <3>3. <<e.pid, e.key>> \in KeysOn(waitq'[l])
      BY <2>1, <3>2, InKeys
    <3>4. x = [pid |-> e.pid, type |-> locksState'[e.pid][l], key |-> e.key]
      BY <1>1, <1>2, <3>1 DEF Seen
    <3> QED
      BY <3>3, <3>4, WtsIsNext
  <2> QED
    BY <2>3, <2>4
<1> QED
  BY <1>4, <1>5, <1>6, <1>7

LEMMA PolicyHandOver ==
  ASSUME Close, HInv, NEW l, ReleaseHandOver(l)
  PROVE  \E o \in Own(l) : Abs!Release(l, o)
<1>1. /\ l \in Locks
      /\ \A k \in Locks \ {l} : Own(k)' = Own(k) /\ Wts(k)' = Wts(k)
  BY ReleaserOnly
<1>2. lproc[l] = {currpid} /\ waitq[l] # {}
  BY HandedOver
<1>3. PICK o : o = [pid |-> currpid, type |-> locksState[currpid][l]]
  OBVIOUS
<1>4. Own(l) = {o} /\ Wts(l) # {}
  BY <1>2, <1>3 DEF Own, Wts
<1>5. PICK A \in SUBSET Wts(l) :
        /\ A = {Seen(l, e) : e \in Admitted(l)}
        /\ Own(l)' = {Abs!AsOwner(x) : x \in A}
        /\ Wts(l)' = Wts(l) \ A
  BY PolicyPassed
<1>6. Abs!Admissible(A, Wts(l))
  <2>1. Abs!Admissible({Seen(l, e) : e \in Admitted(l)}, Wts(l))
    BY <1>1, <1>2, PolicyAdmits
  <2> QED
    BY <1>5, <2>1
<1>7. /\ AbsOwners' = [AbsOwners EXCEPT ![l] = {Abs!AsOwner(x) : x \in A}]
      /\ AbsWaiters' = [AbsWaiters EXCEPT ![l] = @ \ A]
  BY <1>1, <1>5, AbsOne
<1> QED
  BY <1>1, <1>4, <1>6, <1>7, ReleaseIs

LEMMA PolicySame ==
  ASSUME UNCHANGED <<locksState, lproc, waitq>>
  PROVE  AbsOwners' = AbsOwners /\ AbsWaiters' = AbsWaiters
  BY DEF AbsOwners, AbsWaiters, Own, Wts

LEMMA PolicyDelete ==
  ASSUME HInv, NEW l \in Locks, Unused(l), Ldelete(l)
  PROVE  UNCHANGED <<locksState, lproc, waitq>>
<1>1. waitq[l] = {} /\ lproc[l] = {} /\ Pids(waitq[l]) = {}
  BY DEF Unused, Pids
<1>2. /\ lproc' = [lproc EXCEPT ![l] = @ \ {currpid}]
      /\ waitq' = [waitq EXCEPT ![l] = {}]
      /\ locksState' = [p \in All |-> locksState[p]]
  BY <1>1 DEF Ldelete
<1> QED
  BY <1>1, <1>2 DEF HInv, CInv, LTypes, PInv, Shape

LEMMA PolicyRelease ==
  ASSUME Close, HInv, NEW l, NEW more, Release(l, more)
  PROVE  \/ l \in Locks /\ \E o \in Own(l) : Abs!Release(l, o)
         \/ AbsOwners' = AbsOwners /\ AbsWaiters' = AbsWaiters
<1>1. CASE ReleaseRefused(l)
  BY <1>1, PolicySame DEF ReleaseRefused
<1>2. CASE ReleaseShared(l)
  BY <1>2, ReleaserOnly, PolicyShared
<1>3. CASE ReleaseFree(l)
  BY <1>3, ReleaserOnly, PolicyFreed
<1>4. CASE ReleaseHandOver(l)
  BY <1>4, ReleaserOnly, PolicyHandOver
<1> QED
  BY <1>1, <1>2, <1>3, <1>4 DEF Release

\* A call of lock() by a client that follows the rules is the policy's request.
LEMMA PolicyLock ==
  ASSUME Close, HInv, NEW l \in Locks, Fresh(l), NEW t \in Types, NEW k \in WaitPrios, Lock(l, t, k),
         NEW w, w = [pid |-> currpid, type |-> t, key |-> k]
  PROVE  Abs!Request(l, w)
<1>1. k \in Int
  BY PriosAssumption
<1>2. CASE LockFree(l, t)
  BY <1>2, PolicyFree DEF HInv
<1>3. CASE t = "READ" /\ LockJoin(l, k)
  BY <1>1, <1>3, PolicyJoin
<1>4. CASE LockWait(l, t, k)
  BY <1>1, <1>4, PolicyWait
<1> QED
  BY <1>2, <1>3, <1>4 DEF Lock

\* A lock() call that changes anything is made by a process without the lock.
LEMMA LockIsFresh ==
  ASSUME HInv, [ClientNext]_vars, NEW l \in Locks, NEW t \in Types, NEW k \in WaitPrios,
         Lock(l, t, k), vars' # vars
  PROVE  Fresh(l)
<1>1. Owned(l) /\ currpid \in All
  BY Caller DEF HInv, CInv, Lock, LockFree, LockJoin, LockWait
<1>2. CASE LockFree(l, t)
  BY <1>1, <1>2 DEF LockFree, Owned, Fresh
<1>3. CASE LockJoin(l, k)
  <2>1. ASSUME currpid \in lproc[l]  PROVE vars' = vars
    <3>1. locksState[currpid][l] = "READ"
      BY <1>1, <1>3, <2>1 DEF LockJoin, Owned
    <3>2. lproc' = lproc
      BY <1>3, <2>1 DEF LockJoin, HInv, CInv, LTypes
    <3>3. locksState' = locksState
      BY <1>1, <1>3, <3>1 DEF LockJoin, HInv, CInv, LTypes
    <3> QED
      BY <1>3, <3>2, <3>3 DEF LockJoin, vars, schedVars
  <2> QED
    BY <2>1 DEF Fresh
<1>4. CASE LockWait(l, t, k)
  <2>1. CInv'
    BY CInvNext DEF HInv
  <2>2. Owned(l)' /\ lproc' = lproc
    BY <1>4, <2>1 DEF CInv, LockWait
  <2>3. waitq'[l] = Insert(waitq[l], currpid, k)
    BY <1>4 DEF LockWait, HInv, CInv, PInv, Shape
  <2>4. currpid \in Pids(waitq'[l])
    BY <2>3, PidsInsert
  <2> QED
    BY <2>2, <2>4 DEF Owned, Fresh
<1> QED
  BY <1>2, <1>3, <1>4 DEF Lock

\* Every step of rule-abiding clients is a step of the policy, or none.
LEMMA PolicyNext ==
  ASSUME Close, HInv, [ClientNext]_vars
  PROVE  Abs!Next \/ (AbsOwners' = AbsOwners /\ AbsWaiters' = AbsWaiters)
<1>1. ASSUME NEW l \in Locks, \E o \in Own(l) : Abs!Release(l, o)
      PROVE  Abs!Next
  BY <1>1 DEF Abs!Next, Own
<1>2. CASE ReleaseCall
  BY <1>1, <1>2, PolicyRelease DEF ReleaseCall, Releaseall
<1>3. CASE ReleaseNext
  BY <1>1, <1>3, PolicyRelease DEF ReleaseNext
<1>4. CASE Ask(Fresh)
  <2>1. PICK l \in Locks : Fresh(l) /\ LockCall(l)
    BY <1>4 DEF Ask
  <2>2. \E t \in Types, k \in WaitPrios : Lock(l, t, k)
    <3>1. \E k \in WaitPrios : TRUE
      BY PriosAssumption
    <3>2. CASE \E t \in Types : LockFree(l, t)
      BY <3>1, <3>2 DEF Lock
    <3>3. CASE \E k \in WaitPrios : LockJoin(l, k)
      BY <3>3 DEF Lock, Types
    <3>4. CASE \E t \in Types, k \in WaitPrios : LockWait(l, t, k)
      BY <3>4 DEF Lock
    <3> QED
      BY <2>1, <3>2, <3>3, <3>4 DEF LockCall
  <2>3. PICK t \in Types, k \in WaitPrios : Lock(l, t, k)
    BY <2>2
  <2>4. currpid \in Procs
    BY <2>3, Caller DEF HInv, Lock, LockFree, LockJoin, LockWait
  <2>5. PICK w : w = [pid |-> currpid, type |-> t, key |-> k]
    OBVIOUS
  <2>6. w \in Abs!Waiter
    BY <2>4, <2>5 DEF Abs!Waiter, Abs!Type, Types
  <2>7. Abs!Request(l, w)
    BY <2>1, <2>3, <2>5, PolicyLock
  <2> QED
    BY <2>6, <2>7 DEF Abs!Next
<1>5. CASE \E l \in Locks : Lcreate(l)
  BY <1>5, PolicySame DEF Lcreate, procVars
<1>6. CASE \E l \in Locks : Unused(l) /\ Ldelete(l)
  BY <1>6, PolicyDelete, PolicySame
<1>7. CASE Scheduling
  BY <1>7, PolicySame DEF Scheduling, Sleep, Wakeup, ClkInt, Chprio, Create, Resume, procVars, lockVars
<1>8. CASE Exit \/ \E p \in Procs : KillIdle(p)
  BY <1>8, PolicySame DEF Exit, KillIdle, procVars, lockVars
<1>9. CASE UNCHANGED vars
  BY <1>9, PolicySame DEF vars
<1> QED
  BY <1>2, <1>3, <1>4, <1>5, <1>6, <1>7, <1>8, <1>9 DEF ClientNext, OtherStep

\* For processes whose ids are close the locks implement the locking policy:
\* each step of the kernel is a request, a release the policy allows, or none
\* of the policy's business, and lock() is the request with its arguments (lock.c,
\* releaseall.c; RWLockAbs).
THEOREM PolicyTheorem ==
  ASSUME Close
  PROVE  ClientSpec => Policy
<1> DEFINE Requests ==
      \A l \in Locks, t \in Types, k \in WaitPrios :
        Lock(l, t, k) => Abs!Request(l, [pid |-> currpid, type |-> t, key |-> k])
<1>1. Init => Abs!Init
  <2> SUFFICES ASSUME Init PROVE Abs!Init
    OBVIOUS
  <2>1. AbsOwners = [l \in Locks |-> {}] /\ AbsWaiters = [l \in Locks |-> {}]
    BY DEF Init, AbsOwners, AbsWaiters, Own, Wts
  <2> QED
    BY <2>1 DEF Abs!Init, AbsOwners, AbsWaiters, Own, Wts
<1>2. HInv /\ [ClientNext]_vars => [Abs!Next]_<<AbsOwners, AbsWaiters>>
  BY PolicyNext
<1>3. HInv /\ [ClientNext]_vars => [Requests]_vars
  <2> SUFFICES ASSUME HInv, [ClientNext]_vars, vars' # vars,
                      NEW l \in Locks, NEW t \in Types, NEW k \in WaitPrios, Lock(l, t, k)
               PROVE  Abs!Request(l, [pid |-> currpid, type |-> t, key |-> k])
    OBVIOUS
  <2>1. PICK w : w = [pid |-> currpid, type |-> t, key |-> k]
    OBVIOUS
  <2>2. Abs!Request(l, w)
    BY <2>1, LockIsFresh, PolicyLock
  <2> QED
    BY <2>1, <2>2 DEF Abs!Request, Abs!Idle, Abs!Grantable, Abs!AsOwner, Abs!Writing
<1> QED
  BY <1>1, <1>2, <1>3, HInvInit, HInvNext, PTL
     DEF ClientSpec, Policy, Abs!Spec, AbsOwners, AbsWaiters, Own, Wts
-----------------------------------------------------------------------------
(* What findProcessWithLock() leaves *)

LEMMA MaxIs ==
  ASSUME NEW S, IsFiniteSet(S), S # {}, \A x \in S : x \in Int
  PROVE  Max(S) \in S /\ \A x \in S : Max(S) >= x
<1>1. \E x \in S : \A y \in S : x >= y
  BY GreatestExists
<1> QED
  BY <1>1 DEF Max

LEMMA MaxOf ==
  ASSUME NEW S, IsFiniteSet(S), NEW f, \A x \in S : f[x] \in Nat
  PROVE  /\ Max({0} \cup {f[x] : x \in S}) \in Nat
         /\ \A x \in S : Max({0} \cup {f[y] : y \in S}) >= f[x]
<1> DEFINE T == {f[x] : x \in S}
           U == T \cup {0}
<1>1. [x \in S |-> f[x]] \in Surjection(S, T)
  BY DEF Surjection
<1>2. /\ \A x \in T : x \in Nat
      /\ \A x \in S : f[x] \in T
      /\ {0} \cup {f[x] : x \in S} = U
  OBVIOUS
<1>3. IsFiniteSet(T)
  <2> HIDE DEF T
  <2> QED
    BY <1>1, FS_Surjection
<1> HIDE DEF T
<1>4. IsFiniteSet(U)
  BY <1>3, FS_AddElement
<1>5. /\ U # {}
      /\ \A x \in U : x \in Nat
      /\ \A x \in S : f[x] \in U
  BY <1>2
<1> HIDE DEF U
<1>6. Max(U) \in U /\ \A x \in U : Max(U) >= x
  BY <1>4, <1>5, MaxIs
<1> QED
  BY <1>2, <1>5, <1>6

Inhs == [All -> Nat]

LEMMA AllFinite == IsFiniteSet(All) /\ IsFiniteSet(Locks)
<1>1. IsFiniteSet(All)
  BY ProcsAssumption, FS_AddElement DEF All
<1>2. IsFiniteSet(Locks)
  BY ProcsAssumption, FS_Interval DEF Locks
<1> QED
  BY <1>1, <1>2

LEMMA WaitersPriority ==
  ASSUME pprio \in [All -> Nat], NEW ph \in Inhs, NEW Q, Pids(Q) \subseteq All
  PROVE  FindMaxPriority(Q, ph) \in Nat
<1> DEFINE f == [p \in Pids(Q) |-> Max({pprio[p], ph[p]})]
<1>1. FindMaxPriority(Q, ph) = Max({0} \cup {f[p] : p \in Pids(Q)})
  <2>1. {f[p] : p \in Pids(Q)} = {Max({pprio[p], ph[p]}) : p \in Pids(Q)}
    OBVIOUS
  <2> HIDE DEF f
  <2> QED
    BY <2>1, Zenon DEF FindMaxPriority
<1>2. ASSUME NEW p \in Pids(Q)  PROVE f[p] \in Nat
  <2>1. PICK a, b : a = pprio[p] /\ b = ph[p]
    OBVIOUS
  <2>2. a \in Nat /\ b \in Nat
    BY <2>1 DEF Inhs
  <2>3. IsFiniteSet({a, b})
    <3>1. IsFiniteSet({a} \cup {b})
      BY FS_Singleton, FS_AddElement
    <3>2. {a} \cup {b} = {a, b}
      OBVIOUS
    <3> QED
      BY <3>1, <3>2
  <2>4. Max({a, b}) \in {a, b}
    BY <2>2, <2>3, MaxIs
  <2> QED
    BY <2>1, <2>2, <2>4
<1>3. IsFiniteSet(Pids(Q))
  BY AllFinite, FS_Subset
<1> HIDE DEF f
<1> QED
  BY <1>1, <1>2, <1>3, MaxOf

LEMMA WaitingPriority ==
  ASSUME pprio \in [All -> Nat], NEW ph \in Inhs, NEW T, NEW p,
         \A l \in Locks : Pids(T.waitq[l]) \subseteq All
  PROVE  /\ MaxWaiting(T, p, ph) \in Nat
         /\ \A i \in Locks : T.locksState[p][i] \in Types /\ T.lstate[i] = "LUSED" =>
              MaxWaiting(T, p, ph) >= FindMaxPriority(T.waitq[i], ph)
<1> DEFINE S == {i \in Locks : T.locksState[p][i] \in Types /\ T.lstate[i] = "LUSED"}
           f == [i \in S |-> FindMaxPriority(T.waitq[i], ph)]
<1>1. MaxWaiting(T, p, ph) = Max({0} \cup {f[i] : i \in S})
  <2>1. {f[i] : i \in S} = {FindMaxPriority(T.waitq[i], ph) : i \in S}
    OBVIOUS
  <2> HIDE DEF f
  <2> QED
    BY <2>1, Zenon DEF MaxWaiting
<1>2. IsFiniteSet(S)
  BY AllFinite, FS_Subset
<1>3. \A i \in S : f[i] = FindMaxPriority(T.waitq[i], ph) /\ f[i] \in Nat
  BY WaitersPriority
<1> HIDE DEF f
<1>4. \A i \in Locks : T.locksState[p][i] \in Types /\ T.lstate[i] = "LUSED" => i \in S
  OBVIOUS
<1> HIDE DEF S
<1> QED
  BY <1>1, <1>2, <1>3, <1>4, MaxOf

\* The types of the tables a call reads.
Tables(T) ==
  /\ pprio \in [All -> Nat]
  /\ T.lockid \in [All -> Locks \cup {NOTINWQ}]
  /\ T.lproc \in [Locks -> SUBSET Procs]
  /\ \A l \in Locks : Pids(T.waitq[l]) \subseteq All

LStates == [lptr : Locks \cup {NOTINWQ}, mprio : Nat, pinh : Inhs]
CallSets == [Locks -> [Inhs -> SUBSET Inhs]]

\* What a holder inherits in a pass for it, and what the pass leaves then.
Raised(T, j, s) ==
  [s.pinh EXCEPT ![j] = IF Max({s.mprio, MaxWaiting(T, j, s.pinh)}) > pprio[j]
                          THEN Max({s.mprio, MaxWaiting(T, j, s.pinh)}) ELSE 0]

LEMMA MaxTwo ==
  ASSUME NEW a \in Nat, NEW b \in Nat
  PROVE  Max({a, b}) \in Nat /\ Max({a, b}) >= a /\ Max({a, b}) >= b
<1>1. IsFiniteSet({a} \cup {b})
  BY FS_Singleton, FS_AddElement
<1>2. {a} \cup {b} = {a, b}
  OBVIOUS
<1> QED
  BY <1>1, <1>2, MaxIs

LEMMA RaisedIs ==
  ASSUME NEW T, Tables(T), NEW s \in LStates, NEW j \in All
  PROVE  /\ Raised(T, j, s) \in Inhs
         /\ \A p \in All : p # j => Raised(T, j, s)[p] = s.pinh[p]
         /\ FindPrio(j, Raised(T, j, s)) >= MaxWaiting(T, j, s.pinh)
         /\ FindPrio(j, Raised(T, j, s)) \in Nat
<1>1. PICK ph, m, w, a : ph = s.pinh /\ m = s.mprio /\ w = MaxWaiting(T, j, s.pinh) /\ a = pprio[j]
  OBVIOUS
<1>2. ph \in Inhs /\ m \in Nat /\ a \in Nat
  BY <1>1 DEF LStates, Tables
<1>3. w \in Nat
  BY <1>1, <1>2, WaitingPriority DEF Tables
<1>4. PICK x : x = Max({m, w})
  OBVIOUS
<1>5. x \in Nat /\ x >= w
  BY <1>2, <1>3, <1>4, MaxTwo
<1>6. PICK r : r = [ph EXCEPT ![j] = IF x > a THEN x ELSE 0]
  OBVIOUS
<1>7. Raised(T, j, s) = r
  BY <1>1, <1>4, <1>6 DEF Raised
<1>8. /\ r \in Inhs
      /\ \A p \in All : p # j => r[p] = ph[p]
      /\ r[j] = IF x > a THEN x ELSE 0
  BY <1>2, <1>5, <1>6 DEF Inhs
<1>9. FindPrio(j, r) = IF x > a THEN x ELSE a
  BY <1>1, <1>2, <1>5, <1>8 DEF FindPrio
<1> QED
  BY <1>1, <1>2, <1>3, <1>5, <1>7, <1>8, <1>9

LEMMA PassIs ==
  ASSUME NEW T, NEW C, NEW j, NEW s
  PROVE  Pass(T, C, j, s) =
           IF s.lptr = NOTINWQ \/ j \notin T.lproc[s.lptr] THEN {s}
           ELSE IF T.lockid[j] = NOTINWQ THEN {Returned(Raised(T, j, s))}
           ELSE { [lptr |-> LAST, mprio |-> Max({s.mprio, MaxWaiting(T, j, s.pinh)}), pinh |-> ph] :
                    ph \in C[T.lockid[j]][Raised(T, j, s)] }
  BY Zenon DEF Pass, Raised

LEMMA PassType ==
  ASSUME NEW T, Tables(T), NEW C \in CallSets, NEW j, NEW s \in LStates
  PROVE  Pass(T, C, j, s) \in SUBSET LStates
<1>1. CASE s.lptr = NOTINWQ \/ j \notin T.lproc[s.lptr]
  BY <1>1, PassIs
<1>2. CASE s.lptr # NOTINWQ /\ j \in T.lproc[s.lptr]
  <2>1. s.lptr \in Locks
    BY <1>2 DEF LStates
  <2>2. j \in All
    BY <1>2, <2>1 DEF Tables, All
  <2>3. Raised(T, j, s) \in Inhs
    BY <2>2, RaisedIs
  <2>4. PICK r : r = Raised(T, j, s)
    OBVIOUS
  <2>5. CASE T.lockid[j] = NOTINWQ
    <3>1. Pass(T, C, j, s) = {Returned(r)}
      BY <1>2, <2>4, <2>5, PassIs
    <3>2. Returned(r) \in LStates
      BY <2>3, <2>4 DEF Returned, LStates
    <3> QED
      BY <3>1, <3>2
  <2>6. CASE T.lockid[j] # NOTINWQ
    <3>1. PICK m : m = Max({s.mprio, MaxWaiting(T, j, s.pinh)})
      OBVIOUS
    <3>2. PICK k : k = T.lockid[j]
      OBVIOUS
    <3>3. Pass(T, C, j, s) = {[lptr |-> LAST, mprio |-> m, pinh |-> ph] : ph \in C[k][r]}
      BY <1>2, <2>4, <2>6, <3>1, <3>2, PassIs
    <3>4. k \in Locks
      BY <2>2, <2>6, <3>2 DEF Tables
    <3>5. C[k][r] \subseteq Inhs
      BY <2>3, <2>4, <3>4 DEF CallSets
    <3>6. m \in Nat
      <4>1. s.mprio \in Nat /\ s.pinh \in Inhs
        BY DEF LStates
      <4>2. MaxWaiting(T, j, s.pinh) \in Nat
        BY <4>1, WaitingPriority DEF Tables
      <4> QED
        BY <3>1, <4>1, <4>2, MaxTwo
    <3>7. LAST \in Locks
      BY ProcsAssumption DEF LAST, Locks
    <3> QED
      BY <3>3, <3>5, <3>6, <3>7 DEF LStates
  <2> QED
    BY <2>5, <2>6
<1> QED
  BY <1>1, <1>2

\* The sets of states that the passes of a call for k go through.
Passes(T, C, k, ph, after) ==
  /\ after \in [0 .. Max(Procs) -> SUBSET LStates]
  /\ after[0] = {[lptr |-> k, mprio |-> 0, pinh |-> ph]}
  /\ \A j \in 1 .. Max(Procs) : after[j] = UNION { Pass(T, C, j, s) : s \in after[j - 1] }

LEMMA LastProc == Max(Procs) \in Nat /\ \A p \in Procs : Max(Procs) >= p /\ p \in 1 .. Max(Procs)
<1>1. IsFiniteSet(Procs) /\ Procs # {} /\ \A p \in Procs : p \in Nat /\ p # 0
  BY ProcsAssumption
<1>2. Max(Procs) \in Procs /\ \A p \in Procs : Max(Procs) >= p
  BY <1>1, MaxIs
<1>3. PICK m : m = Max(Procs)
  OBVIOUS
<1>4. m \in Nat /\ \A p \in Procs : m >= p /\ p \in 1 .. m
  BY <1>1, <1>2, <1>3
<1> QED
  BY <1>3, <1>4

LEMMA PassesExist ==
  ASSUME NEW T, Tables(T), NEW C \in CallSets, NEW k \in Locks, NEW ph \in Inhs
  PROVE  \E after : Passes(T, C, k, ph, after)
<1> DEFINE n == Max(Procs)
           P == SUBSET LStates
           step == [x \in (1 .. n) \X P |-> UNION { Pass(T, C, x[1], s) : s \in x[2] }]
<1>1. PICK a : a = {[lptr |-> k, mprio |-> 0, pinh |-> ph]}
  OBVIOUS
<1>2. a \in P
  BY <1>1 DEF LStates
<1>3. \A j, S : S \in P => UNION { Pass(T, C, j, s) : s \in S } \in P
  <2> SUFFICES ASSUME NEW j, NEW S \in P  PROVE UNION { Pass(T, C, j, s) : s \in S } \in P
    OBVIOUS
  <2>1. \A s \in S : Pass(T, C, j, s) \in SUBSET LStates
    BY PassType
  <2> QED
    BY <2>1
<1>4. /\ step \in [(1 .. n) \X P -> P]
      /\ \A j \in 1 .. n, S \in P : step[<<j, S>>] = UNION { Pass(T, C, j, s) : s \in S }
  BY <1>3
<1>5. n \in Nat
  BY LastProc
<1> HIDE DEF step, n, P
<1>6. PICK f \in [0 .. n -> P] : Steps(f, a, step, n)
  BY <1>2, <1>4, <1>5, StepsExist
<1>7. ASSUME NEW j \in 1 .. n  PROVE f[j] = UNION { Pass(T, C, j, s) : s \in f[j - 1] }
  <2>1. j - 1 \in 0 .. n
    BY <1>5
  <2>2. f[j - 1] \in P
    BY <2>1
  <2>3. f[j] = step[<<j, f[j - 1]>>]
    BY <1>6 DEF Steps
  <2> QED
    BY <1>4, <2>2, <2>3
<1>8. f[0] = a
  BY <1>6 DEF Steps
<1>9. Passes(T, C, k, ph, f)
  BY <1>1, <1>7, <1>8 DEF Passes, n, P
<1> QED
  BY <1>9

LEMMA LoopIs ==
  ASSUME NEW T, Tables(T), NEW C \in CallSets, NEW k \in Locks, NEW ph \in Inhs
  PROVE  \E after : /\ Passes(T, C, k, ph, after)
                    /\ Loop(T, C, k, ph) = {s.pinh : s \in after[Max(Procs)]}
<1> DEFINE Is(f) == f = [j \in 0 .. Max(Procs) |->
                          IF j = 0 THEN {[lptr |-> k, mprio |-> 0, pinh |-> ph]}
                          ELSE UNION { Pass(T, C, j, s) : s \in f[j - 1] }]
           g == CHOOSE f : Is(f)
<1>1. Loop(T, C, k, ph) = {s.pinh : s \in g[Max(Procs)]}
  BY DEF Loop
<1>2. PICK after : Passes(T, C, k, ph, after)
  BY PassesExist
<1>3. PICK n : n = Max(Procs)
  OBVIOUS
<1>4. n \in Nat
  BY <1>3, LastProc
<1>5. Is(after)
  <2>1. PICK h : h = [j \in 0 .. Max(Procs) |->
                          IF j = 0 THEN {[lptr |-> k, mprio |-> 0, pinh |-> ph]}
                          ELSE UNION { Pass(T, C, j, s) : s \in after[j - 1] }]
    OBVIOUS
  <2>2. /\ h = [j \in 0 .. n |-> h[j]]
        /\ \A j \in 0 .. n : h[j] = IF j = 0 THEN {[lptr |-> k, mprio |-> 0, pinh |-> ph]}
                                    ELSE UNION { Pass(T, C, j, s) : s \in after[j - 1] }
    BY <1>3, <2>1, Zenon
  <2>3. /\ after = [j \in 0 .. n |-> after[j]]
        /\ after[0] = {[lptr |-> k, mprio |-> 0, pinh |-> ph]}
        /\ \A j \in 1 .. n : after[j] = UNION { Pass(T, C, j, s) : s \in after[j - 1] }
    BY <1>2, <1>3 DEF Passes
  <2>4. ASSUME NEW j \in 0 .. n  PROVE after[j] = h[j]
    <3>1. j = 0 \/ (j # 0 /\ j \in 1 .. n)
      BY <1>4
    <3> QED
      BY <2>2, <2>3, <3>1, Zenon
  <2>5. after = h
    BY <2>2, <2>3, <2>4
  <2> QED
    BY <2>1, <2>5, Zenon
<1>6. Is(g)
  BY <1>5, Zenon
<1> HIDE DEF g
<1>7. /\ g = [j \in 0 .. n |-> g[j]]
      /\ \A j \in 0 .. n : g[j] = IF j = 0 THEN {[lptr |-> k, mprio |-> 0, pinh |-> ph]}
                                    ELSE UNION { Pass(T, C, j, s) : s \in g[j - 1] }
  BY <1>3, <1>6, Zenon
<1> HIDE DEF Is
<1>8. ASSUME NEW j \in 0 .. n  PROVE g[j] = after[j]
  <2>1. PICK K : K = [i \in 0 .. n |-> {after[i]}]
    OBVIOUS
  <2>2. \A i \in 0 .. n : K[i] = {after[i]}
    BY <2>1
  <2>3. 0 \in 0 .. n
    BY <1>4
  <2>4. g[0] \in K[0]
    BY <1>2, <1>7, <2>2, <2>3, Zenon DEF Passes
  <2>5. ASSUME NEW i \in 1 .. n, g[i - 1] \in K[i - 1]  PROVE g[i] \in K[i]
    <3>1. i \in 0 .. n /\ i - 1 \in 0 .. n /\ i # 0
      BY <1>4
    <3>2. g[i - 1] = after[i - 1]
      BY <2>2, <2>5, <3>1
    <3>3. g[i] = UNION { Pass(T, C, i, s) : s \in after[i - 1] }
      BY <1>7, <3>1, <3>2, Zenon
    <3>4. g[i] = after[i]
      BY <1>2, <1>3, <3>3, Zenon DEF Passes
    <3> QED
      BY <2>2, <3>1, <3>4
  <2>6. \A i \in 0 .. n : g[i] \in K[i]
    BY <1>4, <2>4, <2>5, StepsKeep
  <2> QED
    BY <2>2, <2>6
<1>9. g[n] = after[n]
  BY <1>4, <1>8
<1> QED
  BY <1>1, <1>2, <1>3, <1>9

LEMMA LoopType ==
  ASSUME NEW T, Tables(T), NEW C \in CallSets, NEW k \in Locks, NEW ph \in Inhs
  PROVE  Loop(T, C, k, ph) \in SUBSET Inhs
<1>1. PICK after : /\ Passes(T, C, k, ph, after)
                   /\ Loop(T, C, k, ph) = {s.pinh : s \in after[Max(Procs)]}
  BY LoopIs
<1>2. Max(Procs) \in 0 .. Max(Procs)
  <2>1. PICK n : n = Max(Procs)
    OBVIOUS
  <2>2. n \in Nat
    BY <2>1, LastProc
  <2> QED
    BY <2>1, <2>2
<1>3. after[Max(Procs)] \in SUBSET LStates
  BY <1>1, <1>2 DEF Passes
<1> QED
  BY <1>1, <1>3 DEF LStates

\* The calls that are nested at most n deep.
Nesting(T, nested) ==
  /\ nested \in [0 .. NLOCKS -> CallSets]
  /\ nested[0] = [k \in Locks |-> [ph \in Inhs |-> {}]]
  /\ \A n \in 1 .. NLOCKS :
       nested[n] = [k \in Locks |-> [ph \in Inhs |-> Loop(T, nested[n - 1], k, ph)]]

LEMMA NestingExists ==
  ASSUME NEW T, Tables(T)
  PROVE  \E nested : Nesting(T, nested)
<1> DEFINE deeper == [x \in (1 .. NLOCKS) \X CallSets |->
                        [k \in Locks |-> [ph \in Inhs |-> Loop(T, x[2], k, ph)]]]
<1>1. PICK a : a = [k \in Locks |-> [ph \in Inhs |-> {}]]
  OBVIOUS
<1>2. a \in CallSets
  BY <1>1 DEF CallSets
<1>3. ASSUME NEW C \in CallSets
      PROVE  [k \in Locks |-> [ph \in Inhs |-> Loop(T, C, k, ph)]] \in CallSets
  <2>1. \A k \in Locks, ph \in Inhs : Loop(T, C, k, ph) \in SUBSET Inhs
    BY LoopType
  <2> QED
    BY <2>1 DEF CallSets
<1>4. /\ deeper \in [(1 .. NLOCKS) \X CallSets -> CallSets]
      /\ \A n \in 1 .. NLOCKS, C \in CallSets :
           deeper[<<n, C>>] = [k \in Locks |-> [ph \in Inhs |-> Loop(T, C, k, ph)]]
  BY <1>3
<1> HIDE DEF deeper
<1>5. NLOCKS \in Nat
  BY ProcsAssumption
<1>6. PICK f \in [0 .. NLOCKS -> CallSets] : Steps(f, a, deeper, NLOCKS)
  BY <1>2, <1>4, <1>5, StepsExist
<1>7. ASSUME NEW n \in 1 .. NLOCKS
      PROVE  f[n] = [k \in Locks |-> [ph \in Inhs |-> Loop(T, f[n - 1], k, ph)]]
  <2>1. n - 1 \in 0 .. NLOCKS
    BY <1>5
  <2>2. f[n - 1] \in CallSets
    BY <2>1
  <2>3. f[n] = deeper[<<n, f[n - 1]>>]
    BY <1>6 DEF Steps
  <2> QED
    BY <1>4, <2>2, <2>3
<1>8. f[0] = a
  BY <1>6 DEF Steps
<1>9. Nesting(T, f)
  BY <1>1, <1>7, <1>8 DEF Nesting
<1> QED
  BY <1>9

LEMMA InheritIs ==
  ASSUME NEW T, Tables(T), NEW l
  PROVE  \E nested : Nesting(T, nested) /\ Inherit(T, l) = nested[NLOCKS][l][pinh]
<1> DEFINE Is(f) == f = [n \in 0 .. NLOCKS |->
                          [k \in Locks |-> [ph \in [All -> Nat] |->
                             IF n = 0 THEN {} ELSE Loop(T, f[n - 1], k, ph)]]]
           g == CHOOSE f : Is(f)
<1>1. Inherit(T, l) = g[NLOCKS][l][pinh]
  BY DEF Inherit
<1>2. PICK nested : Nesting(T, nested)
  BY NestingExists
<1>3. NLOCKS \in Nat
  BY ProcsAssumption
<1>4. Is(nested)
  <2>1. PICK h : h = [n \in 0 .. NLOCKS |->
                        [k \in Locks |-> [ph \in [All -> Nat] |->
                           IF n = 0 THEN {} ELSE Loop(T, nested[n - 1], k, ph)]]]
    OBVIOUS
  <2>2. /\ h = [n \in 0 .. NLOCKS |-> h[n]]
        /\ \A n \in 0 .. NLOCKS : h[n] = [k \in Locks |-> [ph \in Inhs |->
                                    IF n = 0 THEN {} ELSE Loop(T, nested[n - 1], k, ph)]]
    BY <2>1, Zenon DEF Inhs
  <2>3. nested = [n \in 0 .. NLOCKS |-> nested[n]]
    BY <1>2 DEF Nesting
  <2>4. ASSUME NEW n \in 0 .. NLOCKS  PROVE nested[n] = h[n]
    <3>1. CASE n = 0
      <4>1. h[n] = [k \in Locks |-> [ph \in Inhs |-> {}]]
        BY <2>2, <3>1
      <4> QED
        BY <1>2, <3>1, <4>1, Zenon DEF Nesting
    <3>2. CASE n # 0
      <4>1. n \in 1 .. NLOCKS
        BY <1>3, <3>2
      <4>2. h[n] = [k \in Locks |-> [ph \in Inhs |-> Loop(T, nested[n - 1], k, ph)]]
        BY <2>2, <3>2
      <4> QED
        BY <1>2, <4>1, <4>2, Zenon DEF Nesting
    <3> QED
      BY <3>1, <3>2
  <2>5. nested = h
    BY <2>2, <2>3, <2>4
  <2> QED
    BY <2>1, <2>5, Zenon
<1>5. Is(g)
  BY <1>4, Zenon
<1> HIDE DEF g
<1>6. \A n \in 0 .. NLOCKS : g[n] = [k \in Locks |-> [ph \in Inhs |->
                                IF n = 0 THEN {} ELSE Loop(T, g[n - 1], k, ph)]]
  BY <1>5, Zenon DEF Inhs
<1> HIDE DEF Is
<1>7. ASSUME NEW n \in 0 .. NLOCKS  PROVE g[n] = nested[n]
  <2>1. PICK K : K = [i \in 0 .. NLOCKS |-> {nested[i]}]
    OBVIOUS
  <2>2. \A i \in 0 .. NLOCKS : K[i] = {nested[i]}
    BY <2>1
  <2>3. 0 \in 0 .. NLOCKS
    BY <1>3
  <2>4. g[0] = nested[0]
    <3>1. g[0] = [k \in Locks |-> [ph \in Inhs |-> {}]]
      BY <1>6, <2>3
    <3> QED
      BY <1>2, <3>1, Zenon DEF Nesting
  <2>5. g[0] \in K[0]
    BY <2>2, <2>3, <2>4
  <2>6. ASSUME NEW i \in 1 .. NLOCKS, g[i - 1] \in K[i - 1]  PROVE g[i] \in K[i]
    <3>1. i \in 0 .. NLOCKS /\ i - 1 \in 0 .. NLOCKS /\ i # 0
      BY <1>3
    <3>2. g[i - 1] = nested[i - 1]
      BY <2>2, <2>6, <3>1
    <3>3. g[i] = [k \in Locks |-> [ph \in Inhs |-> Loop(T, nested[i - 1], k, ph)]]
      BY <1>6, <3>1, <3>2, Zenon
    <3>4. g[i] = nested[i]
      BY <1>2, <3>3, Zenon DEF Nesting
    <3> QED
      BY <2>2, <3>1, <3>4
  <2>7. \A i \in 0 .. NLOCKS : g[i] \in K[i]
    BY <1>3, <2>5, <2>6, StepsKeep
  <2> QED
    BY <2>2, <2>7
<1>8. NLOCKS \in 0 .. NLOCKS
  BY <1>3
<1> QED
  BY <1>1, <1>2, <1>7, <1>8

LEMMA InheritType ==
  ASSUME NEW T, Tables(T), NEW l \in Locks, pinh \in Inhs
  PROVE  Inherit(T, l) \in SUBSET Inhs
<1>1. PICK nested : Nesting(T, nested) /\ Inherit(T, l) = nested[NLOCKS][l][pinh]
  BY InheritIs
<1>2. NLOCKS \in 0 .. NLOCKS
  BY ProcsAssumption
<1>3. nested[NLOCKS] \in CallSets
  BY <1>1, <1>2 DEF Nesting
<1> QED
  BY <1>1, <1>3 DEF CallSets
-----------------------------------------------------------------------------
(* The types *)

Lists ==
  /\ waitq \in [Locks -> SUBSET Entry]
  /\ rdy \subseteq Entry /\ IsFiniteSet(rdy)
Inheritance ==
  /\ pprio \in [All -> Nat] /\ pinh \in Inhs
  /\ kernel \in {"up", "overflow"}
Others ==
  /\ rest \in [All -> Seq(Int)]
  /\ lproc \in [Locks -> SUBSET Procs]
  /\ deleteTracker \in [Locks -> [All -> {"LAVAILABLE", "LNOTAVAILABLE", "BEFORELCREATE"}]]
  /\ nextlock \in Locks

TInv == SInv /\ Lists /\ Inheritance /\ Others

LEMMA FiniteImage ==
  ASSUME NEW S, IsFiniteSet(S), NEW f
  PROVE  IsFiniteSet({f[x] : x \in S})
<1> DEFINE T == {f[x] : x \in S}
<1>1. [x \in S |-> f[x]] \in Surjection(S, T)
  BY DEF Surjection
<1> HIDE DEF T
<1>2. IsFiniteSet(T)
  BY <1>1, FS_Surjection
<1> QED
  BY <1>2 DEF T

LEMMA InsertAllTyped ==
  ASSUME NEW L \in SUBSET Entry, IsFiniteSet(L), NEW E, IsFiniteSet(E),
         \A x \in E : x.pid \in All /\ x.key \in Int
  PROVE  InsertAll(L, E) \subseteq Entry /\ IsFiniteSet(InsertAll(L, E))
<1> DEFINE same(e) == {x \in E : x.key = e.key}
           later(x) == {y \in E : y.key = x.key /\ y.turn > x.turn}
           old == [e \in L |-> [pid |-> e.pid, key |-> e.key, age |-> e.age + Cardinality(same(e))]]
           new == [x \in E |-> [pid |-> x.pid, key |-> x.key, age |-> Cardinality(later(x))]]
<1>1. /\ \A e \in L : same(e) \in SUBSET E
      /\ \A x \in E : later(x) \in SUBSET E
  OBVIOUS
<1> HIDE DEF same, later
<1>2. /\ \A e \in L : Cardinality(same(e)) \in Nat
      /\ \A x \in E : Cardinality(later(x)) \in Nat
  BY <1>1, FS_Subset, FS_CardinalityType
<1>3. \A e \in L : old[e] \in Entry
  BY <1>2 DEF Entry
<1>4. \A x \in E : new[x] \in Entry
  BY <1>2 DEF Entry
<1>5. InsertAll(L, E) = {old[e] : e \in L} \cup {new[x] : x \in E}
  <2>1. {old[e] : e \in L} = {[pid |-> e.pid, key |-> e.key, age |-> e.age + Cardinality(same(e))] : e \in L}
    OBVIOUS
  <2>2. {new[x] : x \in E} = {[pid |-> x.pid, key |-> x.key, age |-> Cardinality(later(x))] : x \in E}
    OBVIOUS
  <2> HIDE DEF old, new
  <2>3. InsertAll(L, E) =
          {[pid |-> e.pid, key |-> e.key, age |-> e.age + Cardinality(same(e))] : e \in L}
          \cup {[pid |-> x.pid, key |-> x.key, age |-> Cardinality(later(x))] : x \in E}
    BY Zenon DEF InsertAll, same, later
  <2> QED
    BY <2>1, <2>2, <2>3
<1> HIDE DEF old, new
<1>6. IsFiniteSet({old[e] : e \in L}) /\ IsFiniteSet({new[x] : x \in E})
  BY FiniteImage
<1>7. IsFiniteSet({old[e] : e \in L} \cup {new[x] : x \in E})
  BY <1>6, FS_Union
<1> QED
  BY <1>3, <1>4, <1>5, <1>7

LEMMA InsertTyped ==
  ASSUME NEW L \in SUBSET Entry, IsFiniteSet(L), NEW p \in All, NEW k \in Int
  PROVE  Insert(L, p, k) \subseteq Entry /\ IsFiniteSet(Insert(L, p, k))
<1>1. PICK x : x = [pid |-> p, key |-> k, turn |-> 0]
  OBVIOUS
<1>2. IsFiniteSet({x})
  BY FS_Singleton
<1>3. Insert(L, p, k) = InsertAll(L, {x})
  BY <1>1 DEF Insert
<1>4. x.pid \in All /\ x.key \in Int
  BY <1>1
<1>5. \A y \in {x} : y.pid \in All /\ y.key \in Int
  BY <1>4
<1> QED
  BY <1>2, <1>3, <1>5, InsertAllTyped

LEMMA RemoveTyped ==
  ASSUME NEW L \in SUBSET Entry, IsFiniteSet(L), NEW S
  PROVE  Remove(L, S) \subseteq Entry /\ IsFiniteSet(Remove(L, S))
<1> DEFINE K == {e \in L : e.pid \notin S}
           younger(e) == {f \in K : f.key = e.key /\ f.age < e.age}
           kept == [e \in K |-> [pid |-> e.pid, key |-> e.key, age |-> Cardinality(younger(e))]]
<1>1. IsFiniteSet(K)
  BY FS_Subset
<1>2. \A e \in K : younger(e) \in SUBSET K /\ e \in Entry
  OBVIOUS
<1> HIDE DEF younger
<1>3. \A e \in K : Cardinality(younger(e)) \in Nat
  BY <1>1, <1>2, FS_Subset, FS_CardinalityType
<1>4. \A e \in K : kept[e] \in Entry
  BY <1>2, <1>3 DEF Entry
<1>5. Remove(L, S) = {kept[e] : e \in K}
  <2>1. {kept[e] : e \in K} = {[pid |-> e.pid, key |-> e.key, age |-> Cardinality(younger(e))] : e \in K}
    OBVIOUS
  <2> HIDE DEF kept
  <2> QED
    BY <2>1, Zenon DEF Remove, younger
<1> HIDE DEF kept, K
<1>6. IsFiniteSet({kept[e] : e \in K})
  BY <1>1, FiniteImage
<1> QED
  BY <1>4, <1>5, <1>6

LEMMA FindPrioType ==
  ASSUME pprio \in [All -> Nat], NEW ph \in Inhs, NEW p \in All
  PROVE  FindPrio(p, ph) \in Nat
  BY DEF FindPrio, Inhs

LEMMA ReadiedTyped ==
  ASSUME Lists, Inheritance, NEW S \in SUBSET All, NEW turn
  PROVE  LET rd == InsertAll(rdy, {[pid |-> p, key |-> FindPrio(p, pinh), turn |-> turn[p]] : p \in S})
         IN  rd \subseteq Entry /\ IsFiniteSet(rd)
<1> DEFINE f == [p \in S |-> [pid |-> p, key |-> FindPrio(p, pinh), turn |-> turn[p]]]
           E == {f[p] : p \in S}
<1>1. \A p \in S : FindPrio(p, pinh) \in Int
  BY FindPrioType DEF Inheritance
<1>2. \A p \in S : f[p].pid \in All /\ f[p].key \in Int
  BY <1>1
<1>3. E = {[pid |-> p, key |-> FindPrio(p, pinh), turn |-> turn[p]] : p \in S}
  OBVIOUS
<1> HIDE DEF f
<1>4. IsFiniteSet(E)
  <2>1. IsFiniteSet(S)
    BY AllFinite, FS_Subset
  <2> QED
    BY <2>1, FiniteImage
<1>5. \A x \in E : x.pid \in All /\ x.key \in Int
  BY <1>2
<1> HIDE DEF E
<1>6. InsertAll(rdy, E) \subseteq Entry /\ IsFiniteSet(InsertAll(rdy, E))
  BY <1>4, <1>5, InsertAllTyped DEF Lists
<1> QED
  BY <1>3, <1>6

\* resched() on a well-typed ready list.
LEMMA ReschedTyped ==
  ASSUME pprio \in [All -> Nat], pinh' \in Inhs, currpid \in All,
         NEW ps, NEW rd \in SUBSET Entry, IsFiniteSet(rd), Resched(ps, rd)
  PROVE  rdy' \subseteq Entry /\ IsFiniteSet(rdy')
<1>1. PICK k : k = FindPrio(currpid, pinh')
  OBVIOUS
<1>2. k \in Nat
  BY <1>1, FindPrioType
<1>3. PICK Q : Q = IF ps[currpid] = "PRCURR" THEN Insert(rd, currpid, k) ELSE rd
  OBVIOUS
<1>4. Q \subseteq Entry /\ IsFiniteSet(Q)
  BY <1>2, <1>3, InsertTyped
<1>5. rdy' = rd \/ \E e : rdy' = Remove(Q, {e.pid})
  BY <1>1, <1>3, Zenon DEF Resched
<1> QED
  BY <1>4, <1>5, RemoveTyped

LEMMA TypeOKIs == TInv => TypeOK
  BY DEF TInv, SInv, PInv, Shape, States, WTypes, LTypes, Lists, Inheritance, Inhs, Others, TypeOK

LEMMA TInvInit == Init => TInv
<1> SUFFICES ASSUME Init PROVE TInv
  OBVIOUS
<1>1. currpid \in Started /\ Started \subseteq Procs /\ Procs \subseteq All /\ NULLPROC \in All
  BY ProcsAssumption DEF Init, All
<1>2. Inheritance
  <2>1. \A p \in Started : InitPrio[p] \in Nat
    BY PriosAssumption
  <2>2. pprio = [p \in All |-> IF p \in Started THEN InitPrio[p] ELSE 0]
    BY DEF Init
  <2>3. pprio \in [All -> Nat]
    BY <2>1, <2>2
  <2> QED
    BY <2>3 DEF Init, Inheritance, Inhs
<1>3. Others
  <2>1. nextlock \in Locks
    BY ProcsAssumption DEF Init, Locks
  <2>2. rest \in [All -> Seq(Int)]
    <3>1. <<>> \in Seq(Int)
      BY EmptySeq
    <3>2. rest = [p \in All |-> <<>>]
      BY DEF Init
    <3> QED
      BY <3>1, <3>2
  <2> QED
    BY <2>1, <2>2 DEF Init, Others
<1>4. Lists
  <2> DEFINE S == (Started \cup {NULLPROC}) \ {currpid}
             f == [p \in S |-> [pid |-> p, key |-> pprio[p], turn |-> -p]]
             E == {f[p] : p \in S}
  <2>1. rdy = InsertAll({}, {[pid |-> p, key |-> pprio[p], turn |-> -p] : p \in S})
    BY Zenon DEF Init
  <2>2. E = {[pid |-> p, key |-> pprio[p], turn |-> -p] : p \in S}
    OBVIOUS
  <2>3. S \subseteq All /\ \A p \in S : pprio[p] \in Int
    BY <1>1, <1>2 DEF Inheritance
  <2>4. \A p \in S : f[p].pid \in All /\ f[p].key \in Int
    BY <2>3
  <2>5. IsFiniteSet(S)
    BY <2>3, AllFinite, FS_Subset
  <2> HIDE DEF f, S
  <2>6. IsFiniteSet(E)
    BY <2>5, FiniteImage
  <2>7. \A x \in E : x.pid \in All /\ x.key \in Int
    BY <2>4
  <2> HIDE DEF E
  <2>8. rdy \subseteq Entry /\ IsFiniteSet(rdy)
    BY <2>1, <2>2, <2>6, <2>7, FS_EmptySet, InsertAllTyped
  <2> QED
    BY <2>8 DEF Init, Lists
<1> QED
  BY <1>2, <1>3, <1>4, SInvInit DEF TInv

\* A call of findProcessWithLock() on the tables a step leaves.
LEMMA FindTyped ==
  ASSUME Inheritance, SInv', lproc' \in [Locks -> SUBSET Procs], NEW l \in Locks,
         NEW T, T.lockid = lockid', T.lproc = lproc', T.waitq = waitq',
         FindProcessWithLock(T, l)
  PROVE  pinh' \in Inhs /\ kernel' \in {"up", "overflow"}
<1>1. Tables(T)
  BY DEF Inheritance, Tables, SInv, PInv, Shape
<1>2. Inherit(T, l) \in SUBSET Inhs
  BY <1>1, InheritType DEF Inheritance
<1>3. PICK R : R = Inherit(T, l)
  OBVIOUS
<1>4. /\ pinh' \in IF R = {} THEN {pinh} ELSE R
      /\ kernel' = IF R = {} THEN "overflow" ELSE kernel
  BY <1>3 DEF FindProcessWithLock
<1> QED
  BY <1>2, <1>3, <1>4 DEF Inheritance

LEMMA TInvLcreate ==
  ASSUME TInv, SInv', NEW l \in Locks, Lcreate(l)
  PROVE  TInv'
<1>1. /\ UNCHANGED <<pprio, pinh, kernel, rest, lproc, waitq, rdy>>
      /\ nextlock' = SearchFrom(l)
      /\ deleteTracker' = [deleteTracker EXCEPT ![l] = [p \in All |->
           IF Alive(p) /\ @[p] # "LNOTAVAILABLE" THEN "BEFORELCREATE" ELSE @[p]]]
  BY DEF Lcreate, procVars, schedVars
<1>2. SearchFrom(l) \in Locks
  BY ProcsAssumption DEF SearchFrom, Locks
<1>3. [p \in All |-> IF Alive(p) /\ deleteTracker[l][p] # "LNOTAVAILABLE"
                       THEN "BEFORELCREATE" ELSE deleteTracker[l][p]]
        \in [All -> {"LAVAILABLE", "LNOTAVAILABLE", "BEFORELCREATE"}]
  BY DEF TInv, Others
<1>4. deleteTracker' \in [Locks -> [All -> {"LAVAILABLE", "LNOTAVAILABLE", "BEFORELCREATE"}]]
  BY <1>1, <1>3 DEF TInv, Others
<1> QED
  BY <1>1, <1>2, <1>4 DEF TInv, Lists, Inheritance, Others

LEMMA TInvLdelete ==
  ASSUME TInv, SInv', NEW l \in Locks, Ldelete(l)
  PROVE  TInv'
<1> DEFINE woken   == Pids(waitq[l])
           turn(p) == Cardinality({e \in waitq[l] : \E f \in waitq[l] : f.pid = p /\ Ahead(f, e)})
           E == { [pid |-> p, key |-> FindPrio(p, pinh), turn |-> turn(p)] : p \in woken }
<1>1. /\ UNCHANGED <<pprio, pinh, kernel, rest, nextlock>>
      /\ lproc' = [lproc EXCEPT ![l] = @ \ {currpid}]
      /\ waitq' = [waitq EXCEPT ![l] = {}]
      /\ deleteTracker' = [deleteTracker EXCEPT ![l] = [p \in All |->
           IF Alive(p) /\ @[p] # "BEFORELCREATE" THEN "LNOTAVAILABLE" ELSE @[p]]]
  BY DEF Ldelete
<1>2. [p \in All |-> IF Alive(p) /\ deleteTracker[l][p] # "BEFORELCREATE"
                       THEN "LNOTAVAILABLE" ELSE deleteTracker[l][p]]
        \in [All -> {"LAVAILABLE", "LNOTAVAILABLE", "BEFORELCREATE"}]
  BY DEF TInv, Others
<1>3. Others'
  <2>1. deleteTracker' \in [Locks -> [All -> {"LAVAILABLE", "LNOTAVAILABLE", "BEFORELCREATE"}]]
    BY <1>1, <1>2 DEF TInv, Others
  <2> QED
    BY <1>1, <2>1 DEF TInv, Others
<1>4. Inheritance'
  BY <1>1 DEF TInv, Inheritance
<1>5. rdy' \subseteq Entry /\ IsFiniteSet(rdy')
  <2>1. CASE woken = {}
    BY <2>1 DEF Ldelete, schedVars, TInv, Lists
  <2>2. CASE woken # {}
    <3>1. Resched(ReadyState(woken), InsertAll(rdy, E))
      BY <2>2, Zenon DEF Ldelete, ReadyList
    <3> HIDE DEF turn
    <3>2. woken \in SUBSET All
      BY DEF TInv, SInv, PInv, Shape
    <3>3. PICK t : t = [p \in woken |-> turn(p)]
      OBVIOUS
    <3>4. E = {[pid |-> p, key |-> FindPrio(p, pinh), turn |-> t[p]] : p \in woken}
      BY <3>3
    <3> HIDE DEF E
    <3>5. InsertAll(rdy, E) \subseteq Entry /\ IsFiniteSet(InsertAll(rdy, E))
      BY <3>2, <3>4, ReadiedTyped DEF TInv
    <3>6. pprio \in [All -> Nat] /\ pinh' \in Inhs /\ currpid \in All
      BY <1>4, <1>1 DEF TInv, Inheritance, SInv, PInv, Shape
    <3> QED
      BY <3>1, <3>5, <3>6, ReschedTyped
  <2> QED
    BY <2>1, <2>2
<1> QED
  BY <1>1, <1>3, <1>4, <1>5 DEF TInv, Lists

LEMMA TInvLockFree ==
  ASSUME TInv, SInv', NEW l \in Locks, NEW type, LockFree(l, type)
  PROVE  TInv'
<1>1. /\ UNCHANGED <<pprio, pinh, kernel, rest, nextlock, deleteTracker, waitq, rdy>>
      /\ lproc' = [lproc EXCEPT ![l] = @ \cup {currpid}]
  BY DEF LockFree, schedVars
<1>2. currpid \in Procs
  BY DEF LockFree, Running, TInv, SInv, PInv, Shape, All
<1> QED
  BY <1>1, <1>2 DEF TInv, Lists, Inheritance, Others

LEMMA TInvLockJoin ==
  ASSUME TInv, SInv', NEW l \in Locks, NEW priority, LockJoin(l, priority)
  PROVE  TInv'
<1>1. /\ UNCHANGED <<pprio, pinh, kernel, rest, nextlock, deleteTracker, waitq, rdy>>
      /\ lproc' = [lproc EXCEPT ![l] = @ \cup {currpid}]
  BY DEF LockJoin, schedVars
<1>2. currpid \in Procs
  BY DEF LockJoin, Running, TInv, SInv, PInv, Shape, All
<1> QED
  BY <1>1, <1>2 DEF TInv, Lists, Inheritance, Others

LEMMA TInvLockWait ==
  ASSUME TInv, SInv', NEW l \in Locks, NEW type, NEW priority \in Int, LockWait(l, type, priority)
  PROVE  TInv'
<1>1. PICK T : T = [lockid |-> lockid', locksState |-> locksState',
                    lstate |-> lstate, lproc |-> lproc, waitq |-> waitq']
  OBVIOUS
<1>2. /\ UNCHANGED <<pprio, rest, lproc, deleteTracker, nextlock>>
      /\ waitq' = [waitq EXCEPT ![l] = Insert(@, currpid, priority)]
      /\ FindProcessWithLock(T, l)
      /\ Resched([pstate EXCEPT ![currpid] = "PRWAIT"], rdy)
  BY <1>1 DEF LockWait
<1>3. Others'
  BY <1>2 DEF TInv, Others
<1>4. Inheritance'
  <2>1. T.lockid = lockid' /\ T.lproc = lproc' /\ T.waitq = waitq'
    BY <1>1, <1>2
  <2>2. pinh' \in Inhs /\ kernel' \in {"up", "overflow"}
    BY <1>2, <1>3, <2>1, FindTyped DEF TInv, Others
  <2> QED
    BY <1>2, <2>2 DEF TInv, Inheritance
<1>5. currpid \in All
  BY DEF TInv, SInv, PInv, Shape
<1>6. waitq' \in [Locks -> SUBSET Entry]
  <2>1. waitq[l] \in SUBSET Entry /\ IsFiniteSet(waitq[l])
    BY DEF TInv, Lists, SInv, Waiting, Ordered
  <2>2. Insert(waitq[l], currpid, priority) \subseteq Entry
    BY <1>5, <2>1, InsertTyped
  <2> QED
    BY <1>2, <2>2 DEF TInv, Lists
<1>7. rdy' \subseteq Entry /\ IsFiniteSet(rdy')
  <2>1. pprio \in [All -> Nat] /\ pinh' \in Inhs /\ rdy \in SUBSET Entry /\ IsFiniteSet(rdy)
    BY <1>4 DEF TInv, Inheritance, Lists
  <2> QED
    BY <1>2, <1>5, <2>1, ReschedTyped
<1> QED
  BY <1>3, <1>4, <1>6, <1>7 DEF TInv, Lists

LEMMA TInvGiveUp ==
  ASSUME TInv, SInv', NEW l, NEW more \in Seq(Int),
         rest' = [rest EXCEPT ![currpid] = more],
         UNCHANGED <<pprio, deleteTracker, nextlock>>,
         ReleaseShared(l) \/ ReleaseFree(l)
  PROVE  TInv'
<1>1. PICK T : T = [lockid |-> lockid, locksState |-> locksState',
                    lstate |-> lstate', lproc |-> lproc', waitq |-> waitq]
  OBVIOUS
<1>2. /\ l \in Locks
      /\ lproc' = [lproc EXCEPT ![l] = @ \ {currpid}]
      /\ FindProcessWithLock(T, l)
      /\ lockid' = lockid /\ waitq' = waitq /\ rdy' = rdy
  BY <1>1 DEF ReleaseShared, ReleaseFree, GiveUp, NobodyAdmitted, Releasable, schedVars
<1>3. Others'
  BY <1>2 DEF TInv, Others
<1>4. T.lockid = lockid' /\ T.lproc = lproc' /\ T.waitq = waitq'
  BY <1>1, <1>2
<1>5. pinh' \in Inhs /\ kernel' \in {"up", "overflow"}
  BY <1>2, <1>3, <1>4, FindTyped DEF TInv, Others
<1> QED
  BY <1>2, <1>3, <1>5 DEF TInv, Lists, Inheritance

LEMMA TInvHandOver ==
  ASSUME TInv, SInv', NEW l, NEW more \in Seq(Int),
         rest' = [rest EXCEPT ![currpid] = more],
         UNCHANGED <<pprio, deleteTracker, nextlock>>,
         ReleaseHandOver(l)
  PROVE  TInv'
<1> DEFINE G == Pids(Admitted(l))
           turn(p) == Cardinality({e \in waitq[l] : \E f \in waitq[l] : f.pid = p /\ Ahead(e, f)})
           E == { [pid |-> p, key |-> FindPrio(p, pinh), turn |-> turn(p)] : p \in G }
<1>1. PICK T : T = [lockid |-> lockid', locksState |-> locksState',
                    lstate |-> lstate', lproc |-> lproc', waitq |-> waitq']
  OBVIOUS
<1>2. /\ l \in Locks
      /\ lproc' = [lproc EXCEPT ![l] = (@ \ {currpid}) \cup G]
      /\ waitq' = [waitq EXCEPT ![l] = Remove(@, G)]
      /\ FindProcessWithLock(T, l)
      /\ Resched(ReadyState(G), InsertAll(rdy, E))
  BY <1>1, Zenon DEF ReleaseHandOver, Releasable, ReadyList
<1> HIDE DEF turn
<1>3. G \subseteq Procs /\ G \in SUBSET All
  BY <1>2, AdmittedWaits DEF TInv, SInv, Waiting, All
<1>4. PICK t : t = [p \in G |-> turn(p)]
  OBVIOUS
<1>5. E = {[pid |-> p, key |-> FindPrio(p, pinh), turn |-> t[p]] : p \in G}
  BY <1>4
<1> HIDE DEF E, G
<1>6. Others'
  BY <1>2, <1>3 DEF TInv, Others
<1>7. Inheritance'
  <2>1. T.lockid = lockid' /\ T.lproc = lproc' /\ T.waitq = waitq'
    BY <1>1
  <2>2. pinh' \in Inhs /\ kernel' \in {"up", "overflow"}
    BY <1>2, <1>6, <2>1, FindTyped DEF TInv, Others
  <2> QED
    BY <2>2 DEF TInv, Inheritance
<1>8. waitq' \in [Locks -> SUBSET Entry]
  <2>1. waitq[l] \in SUBSET Entry /\ IsFiniteSet(waitq[l])
    BY <1>2 DEF TInv, Lists, SInv, Waiting, Ordered
  <2>2. Remove(waitq[l], G) \subseteq Entry
    BY <2>1, RemoveTyped
  <2> QED
    BY <1>2, <2>2 DEF TInv, Lists
<1>9. rdy' \subseteq Entry /\ IsFiniteSet(rdy')
  <2>1. InsertAll(rdy, E) \subseteq Entry /\ IsFiniteSet(InsertAll(rdy, E))
    BY <1>3, <1>5, ReadiedTyped DEF TInv
  <2>2. pprio \in [All -> Nat] /\ pinh' \in Inhs /\ currpid \in All
    BY <1>7 DEF TInv, Inheritance, SInv, PInv, Shape
  <2> QED
    BY <1>2, <2>1, <2>2, ReschedTyped
<1> QED
  BY <1>6, <1>7, <1>8, <1>9 DEF TInv, Lists

LEMMA TInvRelease ==
  ASSUME TInv, SInv', NEW l, NEW more \in Seq(Int), Release(l, more)
  PROVE  TInv'
<1>1. rest' = [rest EXCEPT ![currpid] = more] /\ UNCHANGED <<pprio, deleteTracker, nextlock>>
  BY DEF Release
<1>2. CASE ReleaseRefused(l)
  BY <1>1, <1>2 DEF ReleaseRefused, schedVars, TInv, Lists, Inheritance, Others
<1>3. CASE ReleaseShared(l) \/ ReleaseFree(l)
  BY <1>1, <1>3, TInvGiveUp
<1>4. CASE ReleaseHandOver(l)
  BY <1>1, <1>4, TInvHandOver
<1> QED
  BY <1>2, <1>3, <1>4 DEF Release

\* A step that changes the ready list only, if any of the lists.
LEMMA TInvOnly ==
  ASSUME TInv, SInv', UNCHANGED <<pprio, pinh, kernel, lockVars>>,
         rest' \in [All -> Seq(Int)],
         rdy' \subseteq Entry /\ IsFiniteSet(rdy')
  PROVE  TInv'
  BY DEF TInv, Lists, Inheritance, Others, lockVars

LEMMA TInvResched ==
  ASSUME TInv, SInv', UNCHANGED <<pprio, pinh, rest, kernel, lockVars>>,
         NEW ps, NEW rd \in SUBSET Entry, IsFiniteSet(rd), Resched(ps, rd)
  PROVE  TInv'
<1>1. pprio \in [All -> Nat] /\ pinh' \in Inhs /\ currpid \in All
  BY DEF TInv, Inheritance, SInv, PInv, Shape
<1>2. rdy' \subseteq Entry /\ IsFiniteSet(rdy')
  BY <1>1, ReschedTyped
<1>3. rest' \in [All -> Seq(Int)]
  BY DEF TInv, Others
<1> QED
  BY <1>2, <1>3, TInvOnly

LEMMA TInvWakeup ==
  ASSUME TInv, SInv', NEW S \in SUBSET Procs, Wakeup(S)
  PROVE  TInv'
<1>1. PICK order : Resched(ReadyState(S), InsertAll(rdy,
         { [pid |-> p, key |-> FindPrio(p, pinh), turn |-> order[p]] : p \in S }))
  BY Zenon DEF Wakeup, ReadyList
<1> DEFINE rd == InsertAll(rdy, { [pid |-> p, key |-> FindPrio(p, pinh), turn |-> order[p]] : p \in S })
<1>2. S \in SUBSET All
  BY DEF All
<1>3. rd \subseteq Entry /\ IsFiniteSet(rd)
  BY <1>2, ReadiedTyped DEF TInv
<1> HIDE DEF rd
<1>4. Resched(ReadyState(S), rd)
  BY <1>1 DEF rd
<1>5. UNCHANGED <<pprio, pinh, rest, kernel, lockVars>>
  BY DEF Wakeup, procVars
<1> QED
  BY <1>3, <1>4, <1>5, TInvResched

LEMMA TInvResume ==
  ASSUME TInv, SInv', NEW p \in Procs, Resume(p)
  PROVE  TInv'
<1> DEFINE E == { [pid |-> q, key |-> FindPrio(q, pinh), turn |-> 0] : q \in {p} }
<1>1. Resched(ReadyState({p}), InsertAll(rdy, E))
  BY DEF Resume, ReadyList
<1>2. PICK t : t = [q \in {p} |-> 0]
  OBVIOUS
<1>3. E = {[pid |-> q, key |-> FindPrio(q, pinh), turn |-> t[q]] : q \in {p}}
  BY <1>2
<1> HIDE DEF E
<1>4. {p} \in SUBSET All
  BY DEF All
<1>5. InsertAll(rdy, E) \subseteq Entry /\ IsFiniteSet(InsertAll(rdy, E))
  BY <1>3, <1>4, ReadiedTyped DEF TInv
<1>6. UNCHANGED <<pprio, pinh, rest, kernel, lockVars>>
  BY DEF Resume, procVars
<1> QED
  BY <1>1, <1>5, <1>6, TInvResched

LEMMA TInvScheduling ==
  ASSUME TInv, SInv', Scheduling
  PROVE  TInv'
<1>1. rdy \in SUBSET Entry /\ IsFiniteSet(rdy)
  BY DEF TInv, Lists
<1>2. CASE Sleep
  BY <1>1, <1>2, TInvResched DEF Sleep, procVars
<1>3. CASE \E S \in SUBSET Procs : Wakeup(S)
  BY <1>3, TInvWakeup
<1>4. CASE ClkInt
  BY <1>1, <1>4, TInvResched DEF ClkInt, procVars
<1>5. CASE \E p \in Procs, v \in NewPrios : Chprio(p, v)
  <2>1. PICK p \in Procs, v \in NewPrios : Chprio(p, v)
    BY <1>5
  <2>2. v \in Nat
    BY PriosAssumption
  <2>3. Inheritance'
    BY <2>1, <2>2 DEF Chprio, TInv, Inheritance, Inhs
  <2> QED
    BY <2>1, <2>3 DEF Chprio, schedVars, lockVars, TInv, Lists, Others
<1>6. CASE \E p \in Procs, v \in Prios : Create(p, v)
  <2>1. PICK p \in Procs, v \in Prios : Create(p, v)
    BY <1>6
  <2>2. v \in Nat
    BY PriosAssumption
  <2>3. Inheritance'
    BY <2>1, <2>2 DEF Create, TInv, Inheritance
  <2> QED
    BY <2>1, <2>3 DEF Create, lockVars, TInv, Lists, Others
<1>7. CASE \E p \in Procs : Resume(p)
  BY <1>7, TInvResume
<1> QED
  BY <1>2, <1>3, <1>4, <1>5, <1>6, <1>7 DEF Scheduling

LEMMA TInvKillIdle ==
  ASSUME TInv, SInv', NEW p \in Procs, KillIdle(p)
  PROVE  TInv'
<1>1. /\ UNCHANGED <<pprio, pinh, kernel, lockVars>>
      /\ rdy' = Remove(rdy, {p}) /\ rest' = [rest EXCEPT ![p] = <<>>]
  BY DEF KillIdle, procVars
<1>2. rdy' \subseteq Entry /\ IsFiniteSet(rdy')
  BY <1>1, RemoveTyped DEF TInv, Lists
<1>3. rest' \in [All -> Seq(Int)]
  <2>1. <<>> \in Seq(Int)
    BY EmptySeq
  <2> QED
    BY <1>1, <2>1 DEF TInv, Others
<1> QED
  BY <1>1, <1>2, <1>3, TInvOnly

LEMMA TInvKillWaiter ==
  ASSUME TInv, SInv', NEW p \in Procs, KillWaiter(p)
  PROVE  TInv'
<1>1. PICK l : l = lockid[p]
  OBVIOUS
<1>2. PICK T : T = [lockid |-> lockid', locksState |-> locksState',
                    lstate |-> lstate, lproc |-> lproc, waitq |-> waitq']
  OBVIOUS
<1>3. /\ UNCHANGED <<pprio, rest, lproc, deleteTracker, nextlock, rdy>>
      /\ waitq' = [waitq EXCEPT ![l] = Remove(@, {p})]
      /\ FindProcessWithLock(T, l)
  BY <1>1, <1>2 DEF KillWaiter
<1>4. l \in Locks
  BY <1>1 DEF KillWaiter, TInv, SInv, PInv, Shape, All
<1>5. T.lockid = lockid' /\ T.lproc = lproc' /\ T.waitq = waitq'
  BY <1>2, <1>3
<1>6. lproc' \in [Locks -> SUBSET Procs]
  BY <1>3 DEF TInv, Others
<1>7. pinh' \in Inhs /\ kernel' \in {"up", "overflow"}
  BY <1>3, <1>4, <1>5, <1>6, FindTyped DEF TInv
<1>8. waitq' \in [Locks -> SUBSET Entry]
  <2>1. waitq[l] \in SUBSET Entry /\ IsFiniteSet(waitq[l])
    BY <1>4 DEF TInv, Lists, SInv, Waiting, Ordered
  <2>2. Remove(waitq[l], {p}) \subseteq Entry
    BY <2>1, RemoveTyped
  <2> QED
    BY <1>3, <2>2 DEF TInv, Lists
<1> QED
  BY <1>3, <1>7, <1>8 DEF TInv, Lists, Inheritance, Others

LEMMA TInvNext == TInv /\ [Next]_vars => TInv'
<1> SUFFICES ASSUME TInv, [Next]_vars PROVE TInv'
  OBVIOUS
<1>1. SInv'
  BY SInvNext DEF TInv
<1>2. CASE \E l \in Locks : Lcreate(l)
  BY <1>1, <1>2, TInvLcreate
<1>3. CASE \E l \in Locks : Ldelete(l)
  BY <1>1, <1>3, TInvLdelete
<1>4. CASE \E l \in Locks : LockCall(l)
  BY <1>1, <1>4, PriosAssumption, TInvLockFree, TInvLockJoin, TInvLockWait DEF LockCall
<1>5. CASE ReleaseCall
  <2>1. PICK args \in ReleaseArgs : Release(Head(args), Tail(args))
    BY <1>5 DEF ReleaseCall, Releaseall
  <2>2. args \in Seq(Int) /\ args # <<>>
    BY ArgsAssumption
  <2>3. Tail(args) \in Seq(Int)
    BY <2>2, HeadTailProperties
  <2> QED
    BY <1>1, <2>1, <2>3, TInvRelease
<1>6. CASE ReleaseNext
  <2>1. PICK r : r = rest[currpid]
    OBVIOUS
  <2>2. r \in Seq(Int) /\ r # <<>>
    BY <1>6, <2>1 DEF ReleaseNext, TInv, Others, SInv, PInv, Shape
  <2>3. Tail(r) \in Seq(Int)
    BY <2>2, HeadTailProperties
  <2> QED
    BY <1>1, <1>6, <2>1, <2>3, TInvRelease DEF ReleaseNext
<1>7. CASE Scheduling
  BY <1>1, <1>7, TInvScheduling
<1>8. CASE Exit
  <2>1. rdy \in SUBSET Entry /\ IsFiniteSet(rdy)
    BY DEF TInv, Lists
  <2> QED
    BY <1>1, <1>8, <2>1, TInvResched DEF Exit, procVars
<1>9. CASE \E p \in Procs : KillIdle(p) \/ KillWaiter(p)
  BY <1>1, <1>9, TInvKillIdle, TInvKillWaiter
<1>10. CASE UNCHANGED vars
  BY <1>1, <1>10 DEF vars, TInv, Lists, Inheritance, Others
<1> QED
  BY <1>2, <1>3, <1>4, <1>5, <1>6, <1>7, <1>8, <1>9, <1>10 DEF Next

\* Whatever the calls and their order the tables keep their types: no call writes a
\* lock, a process id or a state that is none, findProcessWithLock() hands down
\* priorities only, at any depth, and the lists hold entries of processes.
THEOREM TypeTheorem == Spec => []TypeOK
  BY TypeOKIs, TInvInit, TInvNext, PTL DEF Spec
-----------------------------------------------------------------------------
(* What the clients of single locks inherit *)

\* The tables of clients that use one lock at a time: nobody holds lock 0, a holder
\* waits for nothing, and its own table knows the lock.
Consistent(T) ==
  /\ Tables(T)
  /\ T.lproc[0] = {}
  /\ \A i \in Locks : \A j \in T.lproc[i] :
       /\ T.lockid[j] \in {NOTINWQ, 0}
       /\ T.locksState[j][i] \in Types /\ T.lstate[i] = "LUSED"
  /\ \A i, k \in Locks : \A p \in Pids(T.waitq[i]) : p \notin T.lproc[k]

\* Some holder of i runs at the priority of its waiters.
Inherited(T, i, ph) ==
  T.waitq[i] # {} => \E h \in T.lproc[i] : FindPrio(h, ph) >= FindMaxPriority(T.waitq[i], ph)

LEMMA SameWaiters ==
  ASSUME NEW Q, NEW ph, NEW r, \A p \in Pids(Q) : r[p] = ph[p]
  PROVE  FindMaxPriority(Q, r) = FindMaxPriority(Q, ph)
<1>1. { Max({pprio[p], r[p]}) : p \in Pids(Q) } = { Max({pprio[p], ph[p]}) : p \in Pids(Q) }
  OBVIOUS
<1> QED
  BY <1>1, Zenon DEF FindMaxPriority

\* A holder that is raised inherits what waits for it, and nobody else loses.
LEMMA RaisedInherits ==
  ASSUME NEW T, Consistent(T), NEW s \in LStates, NEW k \in Locks, NEW j \in T.lproc[k], NEW i \in Locks,
         j \in T.lproc[i] \/ Inherited(T, i, s.pinh)
  PROVE  Inherited(T, i, Raised(T, j, s))
<1>1. PICK ph, r : ph = s.pinh /\ r = Raised(T, j, s)
  OBVIOUS
<1>2. j \in All /\ ph \in Inhs /\ Tables(T)
  BY <1>1 DEF Consistent, Tables, All, LStates
<1>3. /\ \A p \in All : p # j => r[p] = ph[p]
      /\ FindPrio(j, r) >= MaxWaiting(T, j, ph) /\ FindPrio(j, r) \in Nat
  BY <1>1, <1>2, RaisedIs
<1>4. \A p \in Pids(T.waitq[i]) : r[p] = ph[p]
  <2>1. \A p \in Pids(T.waitq[i]) : p \in All /\ p # j
    BY <1>2 DEF Consistent, Tables
  <2> QED
    BY <1>3, <2>1
<1>5. FindMaxPriority(T.waitq[i], r) = FindMaxPriority(T.waitq[i], ph)
  BY <1>4, SameWaiters
<1>6. CASE j \in T.lproc[i]
  <2>1. T.locksState[j][i] \in Types /\ T.lstate[i] = "LUSED"
    BY <1>6 DEF Consistent
  <2>2. PICK w, m, x : w = MaxWaiting(T, j, ph) /\ m = FindMaxPriority(T.waitq[i], ph) /\ x = FindPrio(j, r)
    OBVIOUS
  <2>3. w \in Nat /\ w >= m
    BY <1>2, <2>1, <2>2, WaitingPriority DEF Tables
  <2>4. m \in Nat
    BY <1>2, <2>2, WaitersPriority DEF Tables
  <2>5. x >= m
    BY <1>3, <2>2, <2>3, <2>4
  <2> QED
    BY <1>1, <1>5, <1>6, <2>2, <2>5 DEF Inherited
<1>7. CASE j \notin T.lproc[i] /\ Inherited(T, i, ph) /\ T.waitq[i] # {}
  <2>1. PICK h \in T.lproc[i] : FindPrio(h, ph) >= FindMaxPriority(T.waitq[i], ph)
    BY <1>7 DEF Inherited
  <2>2. h \in All /\ h # j
    BY <1>2, <1>7 DEF Tables, All
  <2>3. FindPrio(h, r) = FindPrio(h, ph)
    BY <1>3, <2>2 DEF FindPrio
  <2> QED
    BY <1>1, <1>5, <2>1, <2>3 DEF Inherited
<1>8. CASE T.waitq[i] = {}
  BY <1>8 DEF Inherited
<1> QED
  BY <1>1, <1>6, <1>7, <1>8

\* The states of a call for l in which all locks have inherited, except that l
\* itself still may until the pass for its first holder.
Inheriting(T, l, j) ==
  { s \in LStates :
      /\ \A i \in Locks \ {l} : Inherited(T, i, s.pinh)
      /\ Inherited(T, l, s.pinh) \/ (s.lptr = l /\ \A h \in T.lproc[l] : h > j) }

LEMMA PassInherits ==
  ASSUME NEW T, Consistent(T), NEW C \in CallSets, \A ph \in Inhs : C[0][ph] = {ph},
         NEW l \in Locks, NEW j \in Nat \ {0}, NEW s \in Inheriting(T, l, j - 1)
  PROVE  Pass(T, C, j, s) # {} /\ Pass(T, C, j, s) \subseteq Inheriting(T, l, j)
<1>1. /\ s \in LStates /\ Tables(T)
      /\ \A i \in Locks \ {l} : Inherited(T, i, s.pinh)
      /\ Inherited(T, l, s.pinh) \/ (s.lptr = l /\ \A h \in T.lproc[l] : h > j - 1)
  BY DEF Inheriting, Consistent
<1>2. CASE s.lptr = NOTINWQ \/ j \notin T.lproc[s.lptr]
  <2>1. Pass(T, C, j, s) = {s}
    BY <1>2, PassIs
  <2>2. ASSUME s.lptr = l, \A h \in T.lproc[l] : h > j - 1, NEW h \in T.lproc[l]  PROVE h > j
    <3>1. h \in Nat /\ h # 0
      BY <1>1, ProcsAssumption DEF Tables
    <3>2. l # NOTINWQ
      BY DEF Locks, NOTINWQ
    <3>3. h # j /\ h > j - 1
      BY <1>2, <2>2, <3>2
    <3> QED
      BY <3>1, <3>3
  <2>3. s \in Inheriting(T, l, j)
    BY <1>1, <2>2 DEF Inheriting
  <2> QED
    BY <2>1, <2>3
<1>3. CASE s.lptr # NOTINWQ /\ j \in T.lproc[s.lptr]
  <2>1. PICK k \in Locks : k = s.lptr
    BY <1>1, <1>3 DEF LStates
  <2>2. PICK r : r = Raised(T, j, s)
    OBVIOUS
  <2>3. j \in T.lproc[k] /\ j \in All
    BY <1>1, <1>3, <2>1 DEF Tables, All
  <2>4. r \in Inhs
    BY <1>1, <2>2, <2>3, RaisedIs
  <2>5. \A i \in Locks \ {l} : Inherited(T, i, r)
    BY <1>1, <2>2, <2>3, RaisedInherits
  <2>6. Inherited(T, l, r)
    <3>1. Inherited(T, l, s.pinh) \/ j \in T.lproc[l]
      BY <1>1, <2>1, <2>3
    <3> QED
      BY <1>1, <2>2, <2>3, <3>1, RaisedInherits
  <2>7. T.lockid[j] \in {NOTINWQ, 0}
    BY <2>3 DEF Consistent
  <2>8. CASE T.lockid[j] = NOTINWQ
    <3>1. Pass(T, C, j, s) = {Returned(r)}
      BY <1>3, <2>2, <2>8, PassIs
    <3>2. Returned(r) \in LStates /\ Returned(r).pinh = r
      BY <2>4 DEF Returned, LStates
    <3>3. Returned(r) \in Inheriting(T, l, j)
      BY <2>5, <2>6, <3>2 DEF Inheriting
    <3> QED
      BY <3>1, <3>3
  <2>9. CASE T.lockid[j] # NOTINWQ
    <3>1. PICK m : m = Max({s.mprio, MaxWaiting(T, j, s.pinh)})
      OBVIOUS
    <3>2. PICK x : x = T.lockid[j]
      OBVIOUS
    <3>3. Pass(T, C, j, s) = {[lptr |-> LAST, mprio |-> m, pinh |-> ph] : ph \in C[x][r]}
      BY <1>3, <2>2, <2>9, <3>1, <3>2, PassIs
    <3>4. C[x][r] = {r}
      BY <2>4, <2>7, <2>9, <3>2
    <3>5. PICK z : z = [lptr |-> LAST, mprio |-> m, pinh |-> r]
      OBVIOUS
    <3>6. Pass(T, C, j, s) = {z}
      BY <3>3, <3>4, <3>5
    <3>7. z \in LStates
      <4>1. Pass(T, C, j, s) \in SUBSET LStates
        BY <1>1, PassType
      <4> QED
        BY <3>6, <4>1
    <3>8. z.pinh = r
      BY <3>5
    <3>9. z \in Inheriting(T, l, j)
      BY <2>5, <2>6, <3>7, <3>8 DEF Inheriting
    <3> QED
      BY <3>6, <3>9
  <2> QED
    BY <2>8, <2>9
<1> QED
  BY <1>2, <1>3

\* When a call for l has returned, the holders of every lock have inherited.
LEMMA LoopInherits ==
  ASSUME NEW T, Consistent(T), NEW C \in CallSets, \A ph \in Inhs : C[0][ph] = {ph},
         NEW l \in Locks, T.waitq[l] # {} => T.lproc[l] # {},
         NEW ph \in Inhs, \A i \in Locks \ {l} : Inherited(T, i, ph)
  PROVE  Loop(T, C, l, ph) # {} /\ \A r \in Loop(T, C, l, ph), i \in Locks : Inherited(T, i, r)
<1>1. PICK n : n = Max(Procs)
  OBVIOUS
<1>2. n \in Nat /\ \A p \in Procs : p \in 1 .. n
  BY <1>1, LastProc
<1>3. PICK after : /\ Passes(T, C, l, ph, after)
                   /\ Loop(T, C, l, ph) = {s.pinh : s \in after[n]}
  BY <1>1, LoopIs DEF Consistent
<1>4. PICK K : K = [j \in 0 .. n |-> {S \in SUBSET LStates : S # {} /\ S \subseteq Inheriting(T, l, j)}]
  OBVIOUS
<1>5. \A j \in 0 .. n : K[j] = {S \in SUBSET LStates : S # {} /\ S \subseteq Inheriting(T, l, j)}
  BY <1>4
<1>6. after[0] \in K[0]
  <2>1. PICK s : s = [lptr |-> l, mprio |-> 0, pinh |-> ph]
    OBVIOUS
  <2>2. s \in LStates /\ s.pinh = ph /\ s.lptr = l
    BY <2>1 DEF LStates
  <2>3. ASSUME NEW h \in T.lproc[l]  PROVE h > 0
    <3>1. h \in Procs
      BY DEF Consistent, Tables
    <3>2. h \in Nat /\ h # 0
      BY <3>1, ProcsAssumption
    <3> QED
      BY <3>2
  <2>4. s \in Inheriting(T, l, 0)
    BY <2>2, <2>3 DEF Inheriting
  <2>5. after[0] = {s} /\ 0 \in 0 .. n
    BY <1>2, <1>3, <2>1 DEF Passes
  <2> QED
    BY <1>5, <2>2, <2>4, <2>5
<1>7. ASSUME NEW j \in 1 .. n, after[j - 1] \in K[j - 1]  PROVE after[j] \in K[j]
  <2>1. j \in 0 .. n /\ j - 1 \in 0 .. n /\ j \in Nat \ {0}
    BY <1>2
  <2>2. after[j - 1] # {} /\ after[j - 1] \subseteq Inheriting(T, l, j - 1)
    BY <1>5, <1>7, <2>1
  <2>3. after[j] = UNION { Pass(T, C, j, s) : s \in after[j - 1] }
    BY <1>1, <1>3 DEF Passes
  <2>4. \A s \in after[j - 1] : Pass(T, C, j, s) # {} /\ Pass(T, C, j, s) \subseteq Inheriting(T, l, j)
    BY <2>1, <2>2, PassInherits
  <2>5. after[j] # {} /\ after[j] \subseteq Inheriting(T, l, j)
    BY <2>2, <2>3, <2>4
  <2>6. after[j] \in SUBSET LStates
    BY <2>5 DEF Inheriting
  <2> QED
    BY <1>5, <2>1, <2>5, <2>6
<1>8. \A j \in 0 .. n : after[j] \in K[j]
  BY <1>2, <1>6, <1>7, StepsKeep
<1>9. after[n] # {} /\ after[n] \subseteq Inheriting(T, l, n)
  BY <1>2, <1>5, <1>8
<1>10. ASSUME NEW s \in after[n], NEW i \in Locks  PROVE Inherited(T, i, s.pinh)
  <2>1. /\ i # l => Inherited(T, i, s.pinh)
        /\ Inherited(T, l, s.pinh) \/ \A h \in T.lproc[l] : h > n
    BY <1>9 DEF Inheriting
  <2>2. ASSUME \A h \in T.lproc[l] : h > n  PROVE Inherited(T, l, s.pinh)
    <3>1. \A h \in T.lproc[l] : h \in 1 .. n
      BY <1>2 DEF Consistent, Tables
    <3>2. T.lproc[l] = {}
      BY <1>2, <2>2, <3>1
    <3> QED
      BY <3>2 DEF Inherited
  <2> QED
    BY <2>1, <2>2
<1> QED
  BY <1>3, <1>9, <1>10

\* A call for a lock without holders changes nothing.
LEMMA LoopUnheld ==
  ASSUME NEW T, Tables(T), NEW C \in CallSets, NEW k \in Locks, T.lproc[k] = {}, NEW ph \in Inhs
  PROVE  Loop(T, C, k, ph) = {ph}
<1>1. PICK n : n = Max(Procs)
  OBVIOUS
<1>2. n \in Nat
  BY <1>1, LastProc
<1>3. PICK after : /\ Passes(T, C, k, ph, after)
                   /\ Loop(T, C, k, ph) = {s.pinh : s \in after[n]}
  BY <1>1, LoopIs
<1>4. PICK s : s = [lptr |-> k, mprio |-> 0, pinh |-> ph]
  OBVIOUS
<1>5. PICK K : K = [j \in 0 .. n |-> {{s}}]
  OBVIOUS
<1>6. \A j \in 0 .. n : K[j] = {{s}}
  BY <1>5
<1>7. after[0] \in K[0]
  BY <1>2, <1>3, <1>4, <1>6 DEF Passes
<1>8. ASSUME NEW j \in 1 .. n, after[j - 1] \in K[j - 1]  PROVE after[j] \in K[j]
  <2>1. j \in 0 .. n /\ j - 1 \in 0 .. n
    BY <1>2
  <2>2. after[j - 1] = {s}
    BY <1>6, <1>8, <2>1
  <2>3. after[j] = UNION { Pass(T, C, j, z) : z \in after[j - 1] }
    BY <1>1, <1>3 DEF Passes
  <2>4. s.lptr = k
    BY <1>4
  <2>5. Pass(T, C, j, s) = {s}
    BY <2>4, PassIs
  <2>6. after[j] = {s}
    BY <2>2, <2>3, <2>5
  <2> QED
    BY <1>6, <2>1, <2>6
<1>9. \A j \in 0 .. n : after[j] \in K[j]
  BY <1>2, <1>7, <1>8, StepsKeep
<1>10. after[n] = {s}
  BY <1>2, <1>6, <1>9
<1> QED
  BY <1>3, <1>4, <1>10

\* findProcessWithLock(l) returns, and the holders of every lock have inherited.
LEMMA InheritInherits ==
  ASSUME NEW T, Consistent(T), NEW l \in Locks, l # 0, T.waitq[l] # {} => T.lproc[l] # {},
         pinh \in Inhs, \A i \in Locks \ {l} : Inherited(T, i, pinh)
  PROVE  Inherit(T, l) # {} /\ \A r \in Inherit(T, l), i \in Locks : Inherited(T, i, r)
<1>1. PICK nested : Nesting(T, nested) /\ Inherit(T, l) = nested[NLOCKS][l][pinh]
  BY InheritIs DEF Consistent
<1>2. NLOCKS \in Nat /\ NLOCKS >= 2 /\ 0 \in Locks
  BY ProcsAssumption DEF Locks
<1>3. PICK m : m = NLOCKS - 1
  OBVIOUS
<1>4. m \in 1 .. NLOCKS /\ m - 1 \in 0 .. NLOCKS /\ m \in 0 .. NLOCKS /\ NLOCKS \in 1 .. NLOCKS
  BY <1>2, <1>3
<1>5. nested[m] \in CallSets /\ nested[m - 1] \in CallSets
  BY <1>1, <1>4 DEF Nesting
<1>6. ASSUME NEW ph \in Inhs  PROVE nested[m][0][ph] = {ph}
  <2>1. nested[m] = [k \in Locks |-> [r \in Inhs |-> Loop(T, nested[m - 1], k, r)]]
    BY <1>1, <1>4 DEF Nesting
  <2>2. nested[m][0][ph] = Loop(T, nested[m - 1], 0, ph)
    BY <1>2, <2>1
  <2> QED
    BY <1>2, <1>5, <2>2, LoopUnheld DEF Consistent
<1>7. nested[NLOCKS] = [k \in Locks |-> [r \in Inhs |-> Loop(T, nested[m], k, r)]]
  BY <1>1, <1>3, <1>4 DEF Nesting
<1>8. Inherit(T, l) = Loop(T, nested[m], l, pinh)
  BY <1>1, <1>7
<1> QED
  BY <1>5, <1>6, <1>8, LoopInherits

Inherits(i) ==
  waitq[i] # {} => \E h \in lproc[i] : FindPrio(h, pinh) >= FindMaxPriority(waitq[i], pinh)

\* What clients of single locks see of the tables: lock 0 is not used, a lockid names
\* a lock only while its process waits for it, who waits holds nothing, and a
\* holder has not ended.
Apart ==
  /\ lproc[0] = {} /\ waitq[0] = {}
  /\ \A p \in All : lockid[p] \in {NOTINWQ, 0} \/ p \in Pids(waitq[lockid[p]])
  /\ \A i, k \in Locks : \A p \in Pids(waitq[i]) : p \notin lproc[k]
Living == \A i \in Locks : \A p \in lproc[i] : pstate[p] # "PRFREE"

Singles == Apart /\ Living /\ kernel = "up" /\ \A i \in Locks : Inherits(i)

\* What is known of the clients already.
Known == HInv /\ TInv /\ WaiterHasHolder

LEMMA SinglesInit == Init => Singles
<1> SUFFICES ASSUME Init PROVE Singles
  OBVIOUS
<1>1. 0 \in Locks
  BY ProcsAssumption DEF Locks
<1>2. \A l \in Locks : lproc[l] = {} /\ waitq[l] = {} /\ Pids(waitq[l]) = {}
  BY DEF Init, Pids
<1>3. \A p \in All : lockid[p] \in {NOTINWQ, 0}
  BY DEF Init
<1> QED
  BY <1>1, <1>2, <1>3 DEF Init, Singles, Apart, Living, Inherits

LEMMA ReschedLives ==
  ASSUME NEW ps \in [All -> States], NEW rd, Resched(ps, rd), NEW p \in All, ps[p] # "PRFREE"
  PROVE  pstate'[p] # "PRFREE"
<1>1. PICK old : old = IF ps[currpid] = "PRCURR" THEN [ps EXCEPT ![currpid] = "PRREADY"] ELSE ps
  OBVIOUS
<1>2. old \in [All -> States] /\ old[p] # "PRFREE"
  BY <1>1 DEF States
<1>3. pstate' = ps \/ \E e : pstate' = [old EXCEPT ![e.pid] = "PRCURR"]
  BY <1>1, Zenon DEF Resched
<1> QED
  BY <1>2, <1>3

\* A step that leaves alone who holds and waits, and priorities.
LEMMA SinglesSame ==
  ASSUME Known, Singles, UNCHANGED <<lockid, lproc, waitq, pinh, kernel>>,
         \A p \in All : pstate[p] # "PRFREE" => pprio'[p] = pprio[p],
         \A p \in All : pstate[p] # "PRFREE" /\ (\E i \in Locks : p \in lproc[i]) => pstate'[p] # "PRFREE"
  PROVE  Singles'
<1>1. /\ \A i \in Locks : lproc[i] \subseteq All /\ Pids(waitq[i]) \subseteq All
      /\ \A i \in Locks : \A p \in Pids(waitq[i]) : pstate[p] = "PRWAIT"
  BY DEF Known, HInv, CInv, LTypes, PInv, Shape, Placement
<1>2. Apart'
  BY DEF Singles, Apart
<1>3. Living'
  BY <1>1 DEF Singles, Living
<1>4. ASSUME NEW i \in Locks  PROVE Inherits(i)'
  <2>1. \A p \in Pids(waitq[i]) : pprio'[p] = pprio[p]
    BY <1>1
  <2>2. { Max({pprio'[p], pinh[p]}) : p \in Pids(waitq[i]) } = { Max({pprio[p], pinh[p]}) : p \in Pids(waitq[i]) }
    BY <2>1
  <2>3. FindMaxPriority(waitq[i], pinh)' = FindMaxPriority(waitq[i], pinh)
    BY <2>2, Zenon DEF FindMaxPriority
  <2>4. \A h \in lproc[i] : FindPrio(h, pinh)' = FindPrio(h, pinh)
    BY <1>1 DEF FindPrio, Singles, Living
  <2> QED
    BY <2>3, <2>4 DEF Singles, Inherits
<1> QED
  BY <1>2, <1>3, <1>4 DEF Singles

\* A step that calls findProcessWithLock(l) at its end.
LEMMA SinglesFind ==
  ASSUME Known, Singles, Known', Apart', Living', pprio' = pprio,
         NEW l \in Locks, l # 0, NEW T,
         /\ T.lockid = lockid' /\ T.locksState = locksState' /\ T.lstate = lstate'
         /\ T.lproc = lproc' /\ T.waitq = waitq',
         FindProcessWithLock(T, l),
         \A k \in Locks \ {l} : lproc'[k] = lproc[k] /\ waitq'[k] = waitq[k]
  PROVE  Singles'
<1>1. Tables(T)
  BY DEF Known, TInv, Inheritance, Others, SInv, PInv, Shape, Tables
<1>2. Consistent(T)
  <2>1. ASSUME NEW i \in Locks, NEW j \in T.lproc[i]
        PROVE  /\ T.lockid[j] \in {NOTINWQ, 0}
               /\ T.locksState[j][i] \in Types /\ T.lstate[i] = "LUSED"
    <3>1. j \in All
      BY <1>1, <2>1 DEF Tables, All
    <3>2. Owned(i)'
      BY DEF Known, HInv, CInv
    <3>3. locksState'[j][i] \in Types /\ lstate'[i] = "LUSED"
      BY <3>1, <3>2 DEF Owned
    <3>4. lockid'[j] \in {NOTINWQ, 0} \/ j \in Pids(waitq'[lockid'[j]])
      BY <3>1 DEF Apart
    <3>5. lockid'[j] \in Locks \cup {NOTINWQ}
      BY <1>1, <3>1 DEF Tables
    <3> QED
      BY <3>3, <3>4, <3>5 DEF Apart
  <2> QED
    BY <1>1, <2>1 DEF Consistent, Apart
<1>3. T.waitq[l] # {} => T.lproc[l] # {}
  BY DEF Known, WaiterHasHolder
<1>4. \A i \in Locks \ {l} : Inherited(T, i, pinh)
  BY DEF Singles, Inherits, Inherited
<1>5. pinh \in Inhs
  BY DEF Known, TInv, Inheritance
<1>6. PICK R : R = Inherit(T, l)
  OBVIOUS
<1>7. R # {} /\ \A r \in R, i \in Locks : Inherited(T, i, r)
  BY <1>2, <1>3, <1>4, <1>5, <1>6, InheritInherits
<1>8. pinh' \in R /\ kernel' = kernel
  <2>1. /\ pinh' \in IF R = {} THEN {pinh} ELSE R
        /\ kernel' = IF R = {} THEN "overflow" ELSE kernel
    BY <1>6 DEF FindProcessWithLock
  <2> QED
    BY <1>7, <2>1
<1>9. ASSUME NEW i \in Locks  PROVE Inherits(i)'
  <2>1. Inherited(T, i, pinh')
    BY <1>7, <1>8
  <2>2. FindMaxPriority(waitq[i], pinh)' = FindMaxPriority(waitq'[i], pinh')
    BY Zenon DEF FindMaxPriority
  <2>3. \A h : FindPrio(h, pinh)' = FindPrio(h, pinh')
    BY DEF FindPrio
  <2> QED
    BY <2>1, <2>2, <2>3 DEF Inherited, Inherits
<1> QED
  BY <1>8, <1>9 DEF Singles

\* A process that joins the holders of a lock takes nothing from them.
LEMMA InheritsStill ==
  ASSUME UNCHANGED <<pprio, pinh, waitq>>, NEW i, lproc[i] \subseteq lproc'[i], Inherits(i)
  PROVE  Inherits(i)'
<1>1. FindMaxPriority(waitq[i], pinh)' = FindMaxPriority(waitq[i], pinh)
  <2>1. pprio' = pprio /\ pinh' = pinh /\ waitq' = waitq
    OBVIOUS
  <2> QED
    BY <2>1, Zenon DEF FindMaxPriority
<1>2. \A h : FindPrio(h, pinh)' = FindPrio(h, pinh)
  BY DEF FindPrio
<1> QED
  BY <1>1, <1>2 DEF Inherits

LEMMA SinglesLockFree ==
  ASSUME Known, Singles, NEW l \in Locks, Single(l), NEW type, LockFree(l, type)
  PROVE  Singles'
<1>1. /\ lockid' = [lockid EXCEPT ![currpid] = NOTINWQ]
      /\ lproc' = [lproc EXCEPT ![l] = @ \cup {currpid}]
      /\ UNCHANGED <<pstate, pprio, pinh, waitq, kernel>>
  BY DEF LockFree, schedVars
<1>2. currpid \in All /\ pstate[currpid] = "PRCURR" /\ \A k \in Locks : currpid \notin Pids(waitq[k])
  BY Current DEF Known, HInv, CInv
<1>3. \A k \in Locks : lproc'[k] = IF k = l THEN lproc[k] \cup {currpid} ELSE lproc[k]
  BY <1>1 DEF Known, HInv, CInv, LTypes
<1>4. \A p \in All : lockid'[p] = IF p = currpid THEN NOTINWQ ELSE lockid[p]
  BY <1>1 DEF Known, HInv, CInv, PInv, Shape
<1>5. l # 0 /\ 0 \in Locks
  BY ProcsAssumption DEF Single, Locks
<1>6. Apart'
  BY <1>1, <1>2, <1>3, <1>4, <1>5 DEF Singles, Apart
<1>7. Living'
  BY <1>1, <1>2, <1>3 DEF Singles, Living
<1>8. ASSUME NEW i \in Locks  PROVE Inherits(i)'
  BY <1>1, <1>3, InheritsStill DEF Singles
<1> QED
  BY <1>1, <1>6, <1>7, <1>8 DEF Singles

LEMMA SinglesLockJoin ==
  ASSUME Known, Singles, NEW l \in Locks, Single(l), NEW priority, LockJoin(l, priority)
  PROVE  Singles'
<1>1. /\ lproc' = [lproc EXCEPT ![l] = @ \cup {currpid}]
      /\ UNCHANGED <<pstate, pprio, pinh, lockid, waitq, kernel>>
  BY DEF LockJoin, schedVars
<1>2. currpid \in All /\ pstate[currpid] = "PRCURR" /\ \A k \in Locks : currpid \notin Pids(waitq[k])
  BY Current DEF Known, HInv, CInv
<1>3. \A k \in Locks : lproc'[k] = IF k = l THEN lproc[k] \cup {currpid} ELSE lproc[k]
  BY <1>1 DEF Known, HInv, CInv, LTypes
<1>4. l # 0 /\ 0 \in Locks
  BY ProcsAssumption DEF Single, Locks
<1>5. Apart'
  BY <1>1, <1>2, <1>3, <1>4 DEF Singles, Apart
<1>6. Living'
  BY <1>1, <1>2, <1>3 DEF Singles, Living
<1>7. ASSUME NEW i \in Locks  PROVE Inherits(i)'
  BY <1>1, <1>3, InheritsStill DEF Singles
<1> QED
  BY <1>1, <1>5, <1>6, <1>7 DEF Singles

LEMMA SinglesLockWait ==
  ASSUME Known, Singles, Known', NEW l \in Locks, Single(l), NEW type, NEW priority,
         LockWait(l, type, priority)
  PROVE  Singles'
<1>1. PICK T : T = [lockid |-> lockid', locksState |-> locksState',
                    lstate |-> lstate, lproc |-> lproc, waitq |-> waitq']
  OBVIOUS
<1>2. /\ lockid' = [lockid EXCEPT ![currpid] = l]
      /\ waitq' = [waitq EXCEPT ![l] = Insert(@, currpid, priority)]
      /\ FindProcessWithLock(T, l)
      /\ Resched([pstate EXCEPT ![currpid] = "PRWAIT"], rdy)
      /\ UNCHANGED <<pprio, lstate, lproc>>
  BY <1>1 DEF LockWait
<1>3. currpid \in All /\ pstate[currpid] = "PRCURR" /\ \A k \in Locks : currpid \notin Pids(waitq[k])
  BY Current DEF Known, HInv, CInv
<1>4. /\ \A k \in Locks \ {l} : waitq'[k] = waitq[k]
      /\ waitq'[l] = Insert(waitq[l], currpid, priority)
  BY <1>2 DEF Known, HInv, CInv, PInv, Shape
<1>5. \A k \in Locks : Pids(waitq'[k]) = IF k = l THEN Pids(waitq[k]) \cup {currpid} ELSE Pids(waitq[k])
  BY <1>4, PidsInsert
<1>6. \A p \in All : lockid'[p] = IF p = currpid THEN l ELSE lockid[p]
  BY <1>2 DEF Known, HInv, CInv, PInv, Shape
<1>7. l # 0 /\ 0 \in Locks /\ \A k \in Locks : currpid \notin lproc[k]
  BY ProcsAssumption DEF Single, Locks
<1>8. Apart'
  <2>1. lproc'[0] = {} /\ waitq'[0] = {}
    BY <1>2, <1>4, <1>7 DEF Singles, Apart
  <2>2. ASSUME NEW p \in All, lockid'[p] \notin {NOTINWQ, 0}  PROVE p \in Pids(waitq'[lockid'[p]])
    <3>1. CASE p = currpid
      BY <1>5, <1>6, <3>1
    <3>2. CASE p # currpid
      <4>1. lockid'[p] = lockid[p] /\ lockid[p] \in Locks /\ p \in Pids(waitq[lockid[p]])
        BY <1>6, <2>2, <3>2 DEF Singles, Apart, Known, HInv, CInv, PInv, Shape
      <4> QED
        BY <1>5, <4>1
    <3> QED
      BY <3>1, <3>2
  <2>3. ASSUME NEW i \in Locks, NEW k \in Locks, NEW p \in Pids(waitq'[i])  PROVE p \notin lproc'[k]
    <3>1. p = currpid \/ p \in Pids(waitq[i])
      BY <1>5
    <3>2. lproc'[k] = lproc[k]
      BY <1>2
    <3> QED
      BY <1>7, <3>1, <3>2 DEF Singles, Apart
  <2> QED
    BY <2>1, <2>2, <2>3 DEF Apart
<1>9. Living'
  <2>1. PICK ps : ps = [pstate EXCEPT ![currpid] = "PRWAIT"]
    OBVIOUS
  <2>2. ps \in [All -> States] /\ \A p \in All : pstate[p] # "PRFREE" => ps[p] # "PRFREE"
    BY <2>1 DEF Known, HInv, CInv, PInv, Shape, States
  <2>3. \A p \in All : ps[p] # "PRFREE" => pstate'[p] # "PRFREE"
    BY <1>2, <2>1, <2>2, ReschedLives
  <2>4. \A i \in Locks : lproc[i] \subseteq All
    BY DEF Known, HInv, CInv, LTypes
  <2> QED
    BY <1>2, <2>2, <2>3, <2>4 DEF Singles, Living
<1>10. /\ T.lockid = lockid' /\ T.locksState = locksState' /\ T.lstate = lstate'
       /\ T.lproc = lproc' /\ T.waitq = waitq'
  BY <1>1, <1>2
<1> QED
  BY <1>2, <1>4, <1>7, <1>8, <1>9, <1>10, SinglesFind

LEMMA SinglesGiveUp ==
  ASSUME Known, Singles, Known', NEW l, ReleaseShared(l) \/ ReleaseFree(l), pprio' = pprio
  PROVE  Singles'
<1>1. PICK T : T = [lockid |-> lockid, locksState |-> locksState',
                    lstate |-> lstate', lproc |-> lproc', waitq |-> waitq]
  OBVIOUS
<1>2. /\ l \in Locks /\ currpid \in lproc[l]
      /\ lproc' = [lproc EXCEPT ![l] = @ \ {currpid}]
      /\ FindProcessWithLock(T, l)
      /\ UNCHANGED <<lockid, waitq, pstate>>
  BY <1>1, Releaser DEF ReleaseShared, ReleaseFree, GiveUp, NobodyAdmitted, schedVars, Known, HInv
<1>3. l # 0 /\ 0 \in Locks
  BY <1>2, ProcsAssumption DEF Singles, Apart, Locks
<1>4. \A k \in Locks : lproc'[k] = IF k = l THEN lproc[k] \ {currpid} ELSE lproc[k]
  BY <1>2 DEF Known, HInv, CInv, LTypes
<1>5. Apart'
  BY <1>2, <1>3, <1>4 DEF Singles, Apart
<1>6. Living'
  BY <1>2, <1>4 DEF Singles, Living
<1>7. /\ T.lockid = lockid' /\ T.locksState = locksState' /\ T.lstate = lstate'
      /\ T.lproc = lproc' /\ T.waitq = waitq'
  BY <1>1, <1>2
<1>8. \A k \in Locks \ {l} : lproc'[k] = lproc[k] /\ waitq'[k] = waitq[k]
  BY <1>2, <1>4
<1> QED
  BY <1>2, <1>3, <1>5, <1>6, <1>7, <1>8, SinglesFind

LEMMA SinglesHandOver ==
  ASSUME Known, Singles, Known', NEW l, ReleaseHandOver(l), pprio' = pprio
  PROVE  Singles'
<1> DEFINE G == Pids(Admitted(l))
           turn(p) == Cardinality({e \in waitq[l] : \E f \in waitq[l] : f.pid = p /\ Ahead(e, f)})
           E == { [pid |-> p, key |-> FindPrio(p, pinh), turn |-> turn(p)] : p \in G }
<1>1. PICK T : T = [lockid |-> lockid', locksState |-> locksState',
                    lstate |-> lstate', lproc |-> lproc', waitq |-> waitq']
  OBVIOUS
<1>2. /\ l \in Locks
      /\ lockid' = OffQueue(G)
      /\ FindProcessWithLock(T, l)
      /\ Resched(ReadyState(G), InsertAll(rdy, E))
  BY <1>1, Zenon DEF ReleaseHandOver, Releasable, ReadyList
<1> HIDE DEF turn, E
<1>3. /\ lproc[l] = {currpid} /\ lproc'[l] = G
      /\ waitq'[l] = Remove(waitq[l], G)
      /\ \A k \in Locks \ {l} : lproc'[k] = lproc[k] /\ waitq'[k] = waitq[k]
  BY HandedOver DEF Unaffected, Known
<1>4. G \subseteq Pids(waitq[l]) /\ Pids(waitq[l]) \subseteq All
  BY <1>2, AdmittedWaits DEF Known, HInv, CInv, PInv, Shape
<1> HIDE DEF G
<1>5. l # 0 /\ 0 \in Locks
  BY <1>2, <1>3, ProcsAssumption DEF Singles, Apart, Locks
<1>6. \A k \in Locks : Pids(waitq'[k]) = IF k = l THEN Pids(waitq[k]) \ G ELSE Pids(waitq[k])
  BY <1>3, PidsRemove
<1>7. \A p \in All : lockid'[p] = IF p \in G THEN NOTINWQ ELSE lockid[p]
  BY <1>2 DEF OffQueue
<1>8. Apart'
  <2>1. lproc'[0] = {} /\ waitq'[0] = {}
    BY <1>3, <1>5 DEF Singles, Apart
  <2>2. ASSUME NEW p \in All, lockid'[p] \notin {NOTINWQ, 0}  PROVE p \in Pids(waitq'[lockid'[p]])
    <3>1. p \notin G /\ lockid'[p] = lockid[p]
      BY <1>7, <2>2
    <3>2. lockid[p] \in Locks /\ p \in Pids(waitq[lockid[p]])
      BY <2>2, <3>1 DEF Singles, Apart, Known, HInv, CInv, PInv, Shape
    <3> QED
      BY <1>6, <3>1, <3>2
  <2>3. ASSUME NEW i \in Locks, NEW k \in Locks, NEW p \in Pids(waitq'[i])  PROVE p \notin lproc'[k]
    <3>1. p \in Pids(waitq[i]) /\ (i = l => p \notin G)
      BY <1>6
    <3>2. p \in G => i = l
      BY <1>2, <1>4, <3>1, OneQueue DEF Known, HInv, CInv
    <3> QED
      BY <1>3, <3>1, <3>2 DEF Singles, Apart
  <2> QED
    BY <2>1, <2>2, <2>3 DEF Apart
<1>9. Living'
  <2>1. PICK ps : ps = ReadyState(G)
    OBVIOUS
  <2>2. ps \in [All -> States] /\ \A p \in All : ps[p] = IF p \in G THEN "PRREADY" ELSE pstate[p]
    BY <2>1 DEF ReadyState, Known, HInv, CInv, PInv, Shape, States
  <2>3. \A p \in All : ps[p] # "PRFREE" => pstate'[p] # "PRFREE"
    BY <1>2, <2>1, <2>2, ReschedLives
  <2>4. ASSUME NEW i \in Locks, NEW p \in lproc'[i]  PROVE pstate'[p] # "PRFREE"
    <3>1. CASE i = l
      BY <1>3, <1>4, <2>2, <2>3, <3>1
    <3>2. CASE i # l
      <4>1. p \in All /\ pstate[p] # "PRFREE"
        BY <1>3, <3>2 DEF Singles, Living, Known, HInv, CInv, LTypes
      <4> QED
        BY <2>2, <2>3, <4>1
    <3> QED
      BY <3>1, <3>2
  <2> QED
    BY <2>4 DEF Living
<1>10. /\ T.lockid = lockid' /\ T.locksState = locksState' /\ T.lstate = lstate'
       /\ T.lproc = lproc' /\ T.waitq = waitq'
  BY <1>1
<1> QED
  BY <1>2, <1>3, <1>5, <1>8, <1>9, <1>10, SinglesFind

LEMMA SinglesRelease ==
  ASSUME Known, Singles, Known', NEW l, NEW more, Release(l, more)
  PROVE  Singles'
<1>1. pprio' = pprio
  BY DEF Release
<1>2. CASE ReleaseRefused(l)
  BY <1>1, <1>2, SinglesSame DEF ReleaseRefused, schedVars
<1>3. CASE ReleaseShared(l) \/ ReleaseFree(l)
  BY <1>1, <1>3, SinglesGiveUp
<1>4. CASE ReleaseHandOver(l)
  BY <1>1, <1>4, SinglesHandOver
<1> QED
  BY <1>2, <1>3, <1>4 DEF Release

\* resched() after a change that ends nobody who holds a lock.
LEMMA SinglesResched ==
  ASSUME Known, Singles, UNCHANGED <<procVars, pinh, lockVars, kernel>>,
         NEW ps \in [All -> States], NEW rd, Resched(ps, rd),
         \A p \in All : pstate[p] # "PRFREE" /\ (\E i \in Locks : p \in lproc[i]) => ps[p] # "PRFREE"
  PROVE  Singles'
<1>1. \A p \in All : ps[p] # "PRFREE" => pstate'[p] # "PRFREE"
  BY ReschedLives
<1>2. UNCHANGED <<lockid, lproc, waitq, pinh, kernel, pprio>>
  BY DEF procVars, lockVars
<1> QED
  BY <1>1, <1>2, SinglesSame

LEMMA SinglesScheduling ==
  ASSUME NewPrios = {}, Known, Singles, Scheduling
  PROVE  Singles'
<1>1. pstate \in [All -> States] /\ currpid \in All
  BY DEF Known, HInv, CInv, PInv, Shape
<1>2. CASE Sleep
  <2>1. PICK ps : ps = [pstate EXCEPT ![currpid] = "PRSLEEP"]
    OBVIOUS
  <2>2. ps \in [All -> States] /\ \A p \in All : pstate[p] # "PRFREE" => ps[p] # "PRFREE"
    BY <1>1, <2>1 DEF States
  <2> QED
    BY <1>2, <2>1, <2>2, SinglesResched DEF Sleep
<1>3. CASE \E S \in SUBSET Procs : Wakeup(S)
  <2>1. PICK S \in SUBSET Procs : Wakeup(S)
    BY <1>3
  <2>2. PICK rd : Resched(ReadyState(S), rd)
    BY <2>1, Zenon DEF Wakeup
  <2>3. /\ ReadyState(S) \in [All -> States]
        /\ \A p \in All : pstate[p] # "PRFREE" => ReadyState(S)[p] # "PRFREE"
    BY <1>1 DEF ReadyState, States
  <2> QED
    BY <2>1, <2>2, <2>3, SinglesResched DEF Wakeup
<1>4. CASE ClkInt
  BY <1>1, <1>4, SinglesResched DEF ClkInt
<1>5. CASE \E p \in Procs, v \in NewPrios : Chprio(p, v)
  BY <1>5
<1>6. CASE \E p \in Procs, v \in Prios : Create(p, v)
  <2>1. PICK p \in Procs, v \in Prios : Create(p, v)
    BY <1>6
  <2>2. /\ pstate[p] = "PRFREE" /\ p \in All
        /\ pstate' = [pstate EXCEPT ![p] = "PRSUSP"] /\ pprio' = [pprio EXCEPT ![p] = v]
        /\ UNCHANGED <<lockid, lproc, waitq, pinh, kernel>>
    BY <2>1 DEF Create, Alive, lockVars, All
  <2>3. pprio \in [All -> Nat]
    BY DEF Known, TInv, Inheritance
  <2>4. \A q \in All : pstate[q] # "PRFREE" => pprio'[q] = pprio[q] /\ pstate'[q] # "PRFREE"
    BY <1>1, <2>2, <2>3
  <2> QED
    BY <2>2, <2>4, SinglesSame
<1>7. CASE \E p \in Procs : Resume(p)
  <2>1. PICK p \in Procs : Resume(p)
    BY <1>7
  <2>2. PICK rd : Resched(ReadyState({p}), rd)
    BY <2>1, Zenon DEF Resume
  <2>3. /\ ReadyState({p}) \in [All -> States]
        /\ \A q \in All : pstate[q] # "PRFREE" => ReadyState({p})[q] # "PRFREE"
    BY <1>1 DEF ReadyState, States
  <2> QED
    BY <2>1, <2>2, <2>3, SinglesResched DEF Resume
<1> QED
  BY <1>2, <1>3, <1>4, <1>5, <1>6, <1>7 DEF Scheduling

LEMMA SingleSteps == SingleNext => ClientNext
  BY DEF SingleNext, ClientNext, Ask, Single, Fresh

LEMMA SinglesNext ==
  ASSUME NewPrios = {}, Known, Singles, Known', [SingleNext]_vars
  PROVE  Singles'
<1>1. pstate \in [All -> States] /\ currpid \in All
  BY DEF Known, HInv, CInv, PInv, Shape
<1>2. CASE \E l \in Locks : Lcreate(l)
  BY <1>2, SinglesSame DEF Lcreate, procVars, schedVars
<1>3. CASE \E l \in Locks : Unused(l) /\ Ldelete(l)
  <2>1. PICK l \in Locks : Unused(l) /\ Ldelete(l)
    BY <1>3
  <2>2. UNCHANGED <<lproc, waitq>>
    BY <2>1, PolicyDelete DEF Known
  <2>3. Pids(waitq[l]) = {}
    BY <2>1 DEF Unused, Pids
  <2>4. UNCHANGED <<pprio, pinh, kernel, pstate>> /\ lockid' = OffQueue({})
    BY <2>1, <2>3 DEF Ldelete, schedVars
  <2>5. lockid' = lockid
    BY <2>4 DEF OffQueue, Known, HInv, CInv, PInv, Shape
  <2> QED
    BY <2>2, <2>4, <2>5, SinglesSame
<1>4. CASE Ask(Single)
  <2>1. PICK l \in Locks : Single(l) /\ LockCall(l)
    BY <1>4 DEF Ask
  <2> QED
    BY <2>1, SinglesLockFree, SinglesLockJoin, SinglesLockWait DEF LockCall
<1>5. CASE ReleaseCall
  BY <1>5, SinglesRelease DEF ReleaseCall, Releaseall
<1>6. CASE ReleaseNext
  BY <1>6, SinglesRelease DEF ReleaseNext
<1>7. CASE Scheduling
  BY <1>7, SinglesScheduling
<1>8. CASE Uninvolved(currpid) /\ Exit
  <2>1. PICK ps : ps = [pstate EXCEPT ![currpid] = "PRFREE"]
    OBVIOUS
  <2>2. ps \in [All -> States] /\ \A p \in All : p # currpid => ps[p] = pstate[p]
    BY <1>1, <2>1 DEF States
  <2> QED
    BY <1>8, <2>1, <2>2, SinglesResched DEF Exit, Uninvolved
<1>9. CASE \E p \in Procs : Uninvolved(p) /\ KillIdle(p)
  <2>1. PICK p \in Procs : Uninvolved(p) /\ KillIdle(p)
    BY <1>9
  <2>2. \A q \in All : q # p => pstate'[q] = pstate[q]
    BY <1>1, <2>1 DEF KillIdle
  <2> QED
    BY <2>1, <2>2, SinglesSame DEF KillIdle, Uninvolved, procVars, lockVars
<1>10. CASE UNCHANGED vars
  BY <1>10, SinglesSame DEF vars
<1> QED
  BY <1>2, <1>3, <1>4, <1>5, <1>6, <1>7, <1>8, <1>9, <1>10 DEF SingleNext, OtherStep

\* Priority inheritance works for clients that use one lock at a time, know no
\* chprio() and have close ids: findProcessWithLock() returns, and through joins,
\* hand-overs, the releases of other holders and its own walk over other locks some
\* holder of each lock runs at the priority of all that wait for it.
THEOREM InheritsTheorem ==
  ASSUME Close, NewPrios = {}
  PROVE  SingleSpec => []SomeHolderInherits
<1>1. Singles => SomeHolderInherits
  BY DEF Singles, Inherits, SomeHolderInherits
<1>2. Known /\ Singles /\ Known' /\ [SingleNext]_vars => Singles'
  BY SinglesNext
<1>3. [SingleNext]_vars => [ClientNext]_vars /\ [Next]_vars
  BY SingleSteps, ClientSteps
<1>4. SingleSpec => ClientSpec
  BY <1>3, PTL DEF SingleSpec, ClientSpec
<1>5. ClientSpec => []WaiterHasHolder
  BY HolderTheorem
<1> QED
  BY <1>1, <1>2, <1>3, <1>4, <1>5, SinglesInit, HInvInit, HInvNext, TInvInit, TInvNext, PTL
     DEF SingleSpec, Known
=============================================================================
