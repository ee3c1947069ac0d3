----------------------------- MODULE RWLockAbs -----------------------------
(***************************************************************************)
(* What the readers/writer locks promise their clients (the locking policy *)
(* of the README): who owns each lock, who waits for it and with which     *)
(* lock priority, and whom a release may admit.  No scheduling, no         *)
(* descriptors' life cycle, no process table.                              *)
(***************************************************************************)
EXTENDS Integers

CONSTANTS Client, Lock, Priority

VARIABLES
  owners,   \* owners[l]: the set of [pid, type] that hold l
  waiters   \* waiters[l]: the set of [pid, type, key] that wait for l

Type == {"READ", "WRITE"}
Owner == [pid : Client, type : Type]
Waiter == [pid : Client, type : Type, key : Priority]

Writing(S) == {x \in S : x.type = "WRITE"}
Reading(S) == {x \in S : x.type = "READ"}
AsOwner(w) == [pid |-> w.pid, type |-> w.type]

Idle(p, l) == \A x \in owners[l] \cup waiters[l] : x.pid # p

\* A request is granted at once on a lock without owners, and to a reader that
\* joins readers while no writer of higher priority waits.
Grantable(l, w) ==
  \/ owners[l] = {}
  \/ /\ w.type = "READ" /\ Writing(owners[l]) = {}
     /\ \A x \in Writing(waiters[l]) : x.key <= w.key

Request(l, w) ==
  /\ Idle(w.pid, l)
  /\ IF Grantable(l, w)
       THEN owners' = [owners EXCEPT ![l] = @ \cup {AsOwner(w)}] /\ UNCHANGED waiters
       ELSE waiters' = [waiters EXCEPT ![l] = @ \cup {w}] /\ UNCHANGED owners

\* A is a choice the policy allows among the waiters Q of a lock without owners:
\* one writer that nobody beats, or readers that no writer left waiting beats,
\* every reader that beats all writers among them.
Admissible(A, Q) ==
  \/ \E w \in Writing(Q) : A = {w} /\ \A x \in Q : x.key <= w.key
  \/ /\ A # {} /\ A \subseteq Reading(Q)
     /\ \A r \in A, w \in Writing(Q) : w.key <= r.key
     /\ \A r \in Reading(Q) : (\A w \in Writing(Q) : w.key < r.key) => r \in A

Release(l, o) ==
  /\ o \in owners[l]
  /\ IF owners[l] # {o} \/ waiters[l] = {}
       THEN owners' = [owners EXCEPT ![l] = @ \ {o}] /\ UNCHANGED waiters
       ELSE \E A \in SUBSET waiters[l] :
              /\ Admissible(A, waiters[l])
              /\ owners' = [owners EXCEPT ![l] = {AsOwner(w) : w \in A}]
              /\ waiters' = [waiters EXCEPT ![l] = @ \ A]

Init ==
  /\ owners = [l \in Lock |-> {}]
  /\ waiters = [l \in Lock |-> {}]

Next == \E l \in Lock :
  \/ \E w \in Waiter : Request(l, w)
  \/ \E o \in owners[l] : Release(l, o)

Spec == Init /\ [][Next]_<<owners, waiters>>
=============================================================================
