------------------------------- MODULE MCLock -------------------------------
(* Small instances of the lock modules. *)
EXTENDS RWLockClient

\* Distinct priorities, the highest process id first.
PrioById  == [p \in Started |-> p]
\* All processes have the same priority.
PrioSame  == [p \in Started |-> 1]

OneLock   == { <<l>> : l \in Locks }
\* Two locks in one call, and one lock twice.
TwoLocks  == OneLock \cup { <<k, l>> : k, l \in Locks }
\* A descriptor out of range as well.
AnyArgs   == { <<l>> : l \in Locks } \cup { <<NLOCKS, l>> : l \in Locks }
=============================================================================
