----------------------------- MODULE KeyedList -----------------------------
(***************************************************************************)
(* The key-ordered lists of the q[] table (sys/insert.c, sys/queue.c,      *)
(* sys/getitem.c) as sets.  A list is a set of entries [pid, key, age]:    *)
(* insert() puts a process in front of every entry whose key is not        *)
(* smaller than its own, so the list is ordered by key from head to tail   *)
(* and, among equal keys, from the latest to the earliest arrival.  age    *)
(* counts the entries of the same key that arrived later; with it the      *)
(* order needs no pointers and no positions.                               *)
(***************************************************************************)
EXTENDS Integers, FiniteSets

Pids(L) == { e.pid : e \in L }

\* e is nearer the tail of its list than f: a scan along qprev meets e first.
Ahead(e, f) == e.key > f.key \/ (e.key = f.key /\ e.age > f.age)

\* e is the entry in front of the tail: q[tail].qprev.
IsLast(L, e) == e \in L /\ \A f \in L \ {e} : Ahead(e, f)

\* Processes inserted one after another: E is a set of [pid, key, turn] and
\* insert() is called in increasing order of turn.
InsertAll(L, E) ==
  LET Same(S, k) == Cardinality({x \in S : x.key = k})
      After(x)   == Cardinality({y \in E : y.key = x.key /\ y.turn > x.turn})
  IN  { [pid |-> e.pid, key |-> e.key, age |-> e.age + Same(E, e.key)] : e \in L }
      \cup { [pid |-> x.pid, key |-> x.key, age |-> After(x)] : x \in E }

Insert(L, p, k) == InsertAll(L, {[pid |-> p, key |-> k, turn |-> 0]})

\* dequeue() of every process of S that is on the list.
Remove(L, S) ==
  LET K == {e \in L : e.pid \notin S}
      After(e) == Cardinality({f \in K : f.key = e.key /\ f.age < e.age})
  IN  { [pid |-> e.pid, key |-> e.key, age |-> After(e)] : e \in K }

\* The longest run of entries, met in order by a scan of S from the tail, whose
\* members all satisfy Ok.
Prefix(S, Ok(_)) ==
  { e \in S : \A x \in S : (x = e \/ Ahead(x, e)) => Ok(x) }

=============================================================================
