------------------------------ MODULE ListProof ------------------------------
(***************************************************************************)
(* The facts about lists that the proofs about the locks, the kernel and   *)
(* the serial line rest on: what the operations of KeyedList do to who is  *)
(* on a list, that they keep it strictly ordered, and what joining and     *)
(* leaving do to a queue, which is a sequence.  Before that, least and     *)
(* greatest elements of finite sets and functions defined step by step.    *)
(***************************************************************************)
EXTENDS KeyedList, FiniteSetTheorems, SequenceTheorems, WellFoundedInduction, TLAPS

-----------------------------------------------------------------------------
(* Least elements *)

\* In a finite set that a relation orders strictly there is an element that
\* nothing comes before.
LEMMA FirstExists ==
  ASSUME NEW S, IsFiniteSet(S), S # {}, NEW R,
         \A x, y, z \in S : <<x, y>> \in R /\ <<y, z>> \in R => <<x, z>> \in R,
         \A x \in S : <<x, x>> \notin R
  PROVE  \E x \in S : \A y \in S : <<y, x>> \notin R
<1> DEFINE Before(x) == {y \in S : <<y, x>> \in R}
           D == {Before(x) : x \in S}
<1>1. \A x \in S : Before(x) \in SUBSET S /\ Before(x) \in D
  OBVIOUS
<1>2. D # {}
  BY <1>1
<1>3. D \subseteq FiniteSubsetsOf(S)
  <2>1. FiniteSubsetsOf(S) = SUBSET S
    BY FS_FiniteSubsetsOfFinite
  <2>2. ASSUME NEW d \in D  PROVE d \in SUBSET S
    <3>1. PICK x \in S : d = Before(x)
      OBVIOUS
    <3> HIDE DEF Before
    <3> QED
      BY <1>1, <3>1
  <2> HIDE DEF D
  <2> QED
    BY <2>1, <2>2
<1>4. \E d \in D : \A c \in D : <<c, d>> \notin StrictSubsetOrdering(S)
  <2> HIDE DEF D
  <2> QED
    BY <1>2, <1>3, FS_StrictSubsetOrderingWellFounded, WFMin
<1>5. PICK x \in S : \A c \in D : <<c, Before(x)>> \notin StrictSubsetOrdering(S)
  BY <1>4
<1>6. ASSUME NEW y \in S, <<y, x>> \in R  PROVE FALSE
  <2>1. y \in Before(x) /\ y \notin Before(y) /\ Before(y) \subseteq Before(x)
    BY <1>6
  <2> HIDE DEF Before
  <2>2. <<Before(y), Before(x)>> \in StrictSubsetOrdering(S)
    BY <1>1, <2>1 DEF StrictSubsetOrdering
  <2> QED
    BY <1>1, <1>5, <2>2
<1> QED
  BY <1>6

\* A non-empty set of indices has a first one.
LEMMA FirstIndex ==
  ASSUME NEW n \in Nat, NEW S \in SUBSET (1 .. n), S # {}
  PROVE  \E i \in S : \A j \in 1 .. i - 1 : j \notin S
<1> DEFINE R == {x \in S \X S : x[1] < x[2]}
<1>1. \A x, y \in S : <<x, y>> \in R <=> x < y
  OBVIOUS
<1>2. IsFiniteSet(1 .. n)
  BY FS_Interval
<1>3. IsFiniteSet(S)
  BY <1>2, FS_Subset
<1> HIDE DEF R
<1>4. /\ \A x, y, z \in S : <<x, y>> \in R /\ <<y, z>> \in R => <<x, z>> \in R
      /\ \A x \in S : <<x, x>> \notin R
  BY <1>1
<1>5. PICK i \in S : \A y \in S : <<y, i>> \notin R
  BY <1>3, <1>4, FirstExists
<1>6. ASSUME NEW j \in 1 .. i - 1, j \in S  PROVE FALSE
  <2>1. j < i /\ i \in S /\ j \in S
    BY <1>6
  <2>2. <<j, i>> \in R
    BY <1>1, <2>1
  <2> QED
    BY <1>5, <2>1, <2>2
<1> QED
  BY <1>6
-----------------------------------------------------------------------------
(* The greatest element, and functions defined step by step *)

LEMMA GreatestExists ==
  ASSUME NEW S, IsFiniteSet(S), S # {}, \A x \in S : x \in Int
  PROVE  \E x \in S : \A y \in S : x >= y
<1> DEFINE R == {z \in S \X S : z[1] > z[2]}
<1>1. \A x, y \in S : <<x, y>> \in R <=> x > y
  OBVIOUS
<1> HIDE DEF R
<1>2. /\ \A x, y, z \in S : <<x, y>> \in R /\ <<y, z>> \in R => <<x, z>> \in R
      /\ \A x \in S : <<x, x>> \notin R
  BY <1>1
<1>3. PICK x \in S : \A y \in S : <<y, x>> \notin R
  BY <1>2, FirstExists
<1>4. ASSUME NEW y \in S  PROVE x >= y
  <2>1. x \in Int /\ y \in Int /\ ~(y > x)
    BY <1>1, <1>3
  <2> QED
    BY <2>1
<1> QED
  BY <1>4

\* f is a until it has taken its first step, and each step leads from one value
\* to the next.
Steps(f, a, step, n) ==
  f[0] = a /\ \A i \in 1 .. n : f[i] = step[<<i, f[i - 1]>>]

LEMMA StepsExist ==
  ASSUME NEW P, NEW a \in P, NEW n \in Nat, NEW step \in [(1 .. n) \X P -> P]
  PROVE  \E f \in [0 .. n -> P] : Steps(f, a, step, n)
<1> DEFINE Good(m) == \E f \in [0 .. m -> P] : Steps(f, a, step, m)
           Bad == {m \in 1 .. n : ~Good(m)}
<1>1. Good(0)
  <2>1. PICK f : f = [i \in 0 .. 0 |-> a]
    OBVIOUS
  <2>2. f \in [0 .. 0 -> P] /\ f[0] = a
    BY <2>1
  <2>3. Steps(f, a, step, 0)
    BY <2>2 DEF Steps
  <2> QED
    BY <2>2, <2>3
<1>2. ASSUME NEW m \in 1 .. n, Good(m - 1)  PROVE Good(m)
  <2>1. PICK f \in [0 .. m - 1 -> P] : Steps(f, a, step, m - 1)
    BY <1>2
  <2>2. PICK g : g = [i \in 0 .. m |-> IF i = m THEN step[<<m, f[m - 1]>>] ELSE f[i]]
    OBVIOUS
  <2>3. m \in Nat /\ m - 1 \in 0 .. m - 1 /\ 0 \in 0 .. m - 1
    OBVIOUS
  <2>4. f[m - 1] \in P
    BY <2>3
  <2>5. step[<<m, f[m - 1]>>] \in P
    BY <2>4
  <2>6. \A i \in 0 .. m : i # m => i \in 0 .. m - 1 /\ f[i] \in P
    BY <2>3
  <2>7. g \in [0 .. m -> P]
    BY <2>2, <2>5, <2>6
  <2>8. /\ g[m] = step[<<m, f[m - 1]>>]
        /\ \A i \in 0 .. m - 1 : g[i] = f[i]
    BY <2>2, <2>3
  <2>9. g[0] = a
    BY <2>1, <2>3, <2>8 DEF Steps
  <2>10. ASSUME NEW i \in 1 .. m  PROVE g[i] = step[<<i, g[i - 1]>>]
    <3>1. i - 1 \in 0 .. m - 1 /\ g[i - 1] = f[i - 1]
      BY <2>8
    <3>2. CASE i = m
      BY <2>8, <3>1, <3>2
    <3>3. CASE i # m
      <4>1. i \in 1 .. m - 1 /\ i \in 0 .. m - 1
        BY <3>3
      <4>2. f[i] = step[<<i, f[i - 1]>>]
        BY <2>1, <4>1 DEF Steps
      <4>3. g[i] = f[i]
        BY <2>8, <4>1
      <4> QED
        BY <3>1, <4>2, <4>3
    <3> QED
      BY <3>2, <3>3
  <2>11. Steps(g, a, step, m)
    BY <2>9, <2>10 DEF Steps
  <2> QED
    BY <2>7, <2>11
<1>3. Bad \in SUBSET (1 .. n)
  OBVIOUS
<1>4. ASSUME NEW m \in Bad, \A j \in 1 .. m - 1 : j \notin Bad  PROVE FALSE
  <2>1. m \in 1 .. n /\ ~Good(m)
    OBVIOUS
  <2> HIDE DEF Good
  <2>2. m - 1 = 0 \/ m - 1 \in 1 .. m - 1
    BY <2>1
  <2>3. m - 1 \in 1 .. m - 1 => m - 1 \in 1 .. n
    BY <2>1
  <2>4. Good(m - 1)
    BY <1>1, <1>4, <2>2, <2>3
  <2> QED
    BY <1>2, <2>1, <2>4
<1>5. Bad = {}
  <2> HIDE DEF Bad
  <2> QED
    BY <1>3, <1>4, FirstIndex
<1>6. n = 0 \/ n \in 1 .. n
  OBVIOUS
<1> HIDE DEF Good
<1>7. Good(n)
  BY <1>1, <1>5, <1>6
<1> QED
  BY <1>7 DEF Good

\* What the first value has and each step keeps, all values have.
LEMMA StepsKeep ==
  ASSUME NEW n \in Nat, NEW f, NEW K, f[0] \in K[0],
         \A i \in 1 .. n : f[i - 1] \in K[i - 1] => f[i] \in K[i]
  PROVE  \A i \in 0 .. n : f[i] \in K[i]
<1> DEFINE Bad == {i \in 1 .. n : f[i] \notin K[i]}
<1>1. Bad \in SUBSET (1 .. n)
  OBVIOUS
<1>2. ASSUME NEW i \in Bad, \A j \in 1 .. i - 1 : j \notin Bad  PROVE FALSE
  <2>1. i \in 1 .. n /\ f[i] \notin K[i]
    OBVIOUS
  <2>2. i - 1 = 0 \/ (i - 1 \in 1 .. i - 1 /\ i - 1 \in 1 .. n)
    BY <2>1
  <2>3. f[i - 1] \in K[i - 1]
    BY <1>2, <2>2
  <2> QED
    BY <2>1, <2>3
<1>3. Bad = {}
  <2> HIDE DEF Bad
  <2> QED
    BY <1>1, <1>2, FirstIndex
<1>4. ASSUME NEW i \in 0 .. n  PROVE f[i] \in K[i]
  <2>1. i = 0 \/ i \in 1 .. n
    OBVIOUS
  <2> QED
    BY <1>3, <2>1
<1> QED
  BY <1>4
-----------------------------------------------------------------------------
(* Ordered lists *)

\* What insert() and dequeue() keep of a list: no process is on it twice and
\* no two entries are at the same place.
Ordered(L) ==
  /\ IsFiniteSet(L)
  /\ \A e \in L : e.key \in Int /\ e.age \in Nat
  /\ \A e, f \in L : e # f => e.pid # f.pid /\ (e.key = f.key => e.age # f.age)

\* The entries of a list have an order: any of them are before the tail.
LEMMA LastExists ==
  ASSUME NEW L, Ordered(L), NEW S \in SUBSET L, S # {}
  PROVE  \E e \in S : IsLast(S, e)
<1> DEFINE R == {x \in S \X S : Ahead(x[1], x[2])}
<1>1. \A e, f \in S : <<e, f>> \in R <=> Ahead(e, f)
  OBVIOUS
<1>2. \A e, f, g \in S : Ahead(e, f) /\ Ahead(f, g) => Ahead(e, g)
  BY DEF Ordered, Ahead
<1>3. \A e \in S : ~Ahead(e, e)
  BY DEF Ordered, Ahead
<1>4. IsFiniteSet(S)
  BY FS_Subset DEF Ordered
<1> HIDE DEF R
<1>5. PICK e \in S : \A f \in S : <<f, e>> \notin R
  BY <1>1, <1>2, <1>3, <1>4, FirstExists
<1>6. ASSUME NEW f \in S, f # e  PROVE Ahead(e, f)
  <2>1. ~Ahead(f, e)
    BY <1>1, <1>5
  <2>2. e.key \in Int /\ f.key \in Int /\ e.age \in Nat /\ f.age \in Nat
    BY DEF Ordered
  <2>3. e.key = f.key => e.age # f.age
    BY <1>6 DEF Ordered
  <2> QED
    BY <2>1, <2>2, <2>3 DEF Ahead
<1> QED
  BY <1>6 DEF IsLast
-----------------------------------------------------------------------------
(* Who is on a list *)

\* Copying entries with other ages changes nobody's membership.
LEMMA PidsAged ==
  ASSUME NEW S, NEW age
  PROVE  Pids({[pid |-> e.pid, key |-> e.key, age |-> age[e]] : e \in S}) = {e.pid : e \in S}
<1> DEFINE T == {[pid |-> e.pid, key |-> e.key, age |-> age[e]] : e \in S}
<1>1. ASSUME NEW t \in T  PROVE t.pid \in {e.pid : e \in S}
  OBVIOUS
<1>2. ASSUME NEW e \in S  PROVE \E t \in T : t.pid = e.pid
  <2> [pid |-> e.pid, key |-> e.key, age |-> age[e]] \in T
    OBVIOUS
  <2> QED
    OBVIOUS
<1> HIDE DEF T
<1>3. {t.pid : t \in T} = {e.pid : e \in S}
  BY <1>1, <1>2
<1> QED
  BY <1>3 DEF Pids, T

\* insert() adds the processes it is called for and no others.
LEMMA PidsInsertAll ==
  ASSUME NEW L, NEW E
  PROVE  Pids(InsertAll(L, E)) = Pids(L) \cup Pids(E)
<1> DEFINE older == [e \in L |-> e.age + Cardinality({x \in E : x.key = e.key})]
           after == [x \in E |-> Cardinality({y \in E : y.key = x.key /\ y.turn > x.turn})]
           kept  == { [pid |-> e.pid, key |-> e.key, age |-> older[e]] : e \in L }
           new   == { [pid |-> x.pid, key |-> x.key, age |-> after[x]] : x \in E }
<1>1. InsertAll(L, E) = kept \cup new
  BY Zenon DEF InsertAll
<1> HIDE DEF older, after
<1>2. Pids(kept) = {e.pid : e \in L} /\ Pids(new) = {x.pid : x \in E}
  BY PidsAged
<1> HIDE DEF kept, new
<1>3. Pids(kept \cup new) = Pids(kept) \cup Pids(new)
  BY DEF Pids
<1> QED
  BY <1>1, <1>2, <1>3 DEF Pids

\* E has an entry for every process of S and no others.
LEMMA PidsOf ==
  ASSUME NEW S, NEW E, \A x \in E : x.pid \in S, \A p \in S : \E x \in E : x.pid = p
  PROVE  Pids(E) = S
  BY DEF Pids

LEMMA PidsInsert ==
  ASSUME NEW L, NEW p, NEW k
  PROVE  Pids(Insert(L, p, k)) = Pids(L) \cup {p}
<1>1. Pids({[pid |-> p, key |-> k, turn |-> 0]}) = {p}
  BY DEF Pids
<1> QED
  BY <1>1, PidsInsertAll, Zenon DEF Insert

\* dequeue() removes the processes it is called for and no others.
LEMMA PidsRemove ==
  ASSUME NEW L, NEW S
  PROVE  Pids(Remove(L, S)) = Pids(L) \ S
<1> DEFINE K == {e \in L : e.pid \notin S}
           after == [e \in K |-> Cardinality({f \in K : f.key = e.key /\ f.age < e.age})]
           kept  == { [pid |-> e.pid, key |-> e.key, age |-> after[e]] : e \in K }
<1>1. Remove(L, S) = kept
  BY Zenon DEF Remove
<1> HIDE DEF after, K
<1>2. Pids(kept) = {e.pid : e \in K}
  BY PidsAged
<1>3. {e.pid : e \in K} = {e.pid : e \in L} \ S
  BY DEF K
<1> HIDE DEF kept
<1> QED
  BY <1>1, <1>2, <1>3, Zenon DEF Pids
-----------------------------------------------------------------------------
(* Copies of a list with other ages *)

LEMMA OrderedAged ==
  ASSUME NEW S, IsFiniteSet(S), NEW age \in [S -> Nat],
         \A e \in S : e.key \in Int,
         \A e, f \in S : e # f => e.pid # f.pid /\ (e.key = f.key => age[e] # age[f])
  PROVE  Ordered({[pid |-> e.pid, key |-> e.key, age |-> age[e]] : e \in S})
<1> DEFINE copy == [e \in S |-> [pid |-> e.pid, key |-> e.key, age |-> age[e]]]
           T == {[pid |-> e.pid, key |-> e.key, age |-> age[e]] : e \in S}
<1>1. copy \in Surjection(S, T)
  BY DEF Surjection
<1>2. IsFiniteSet(T)
  <2> HIDE DEF T, copy
  <2> QED
    BY <1>1, FS_Surjection
<1>3. \A t \in T : \E e \in S : t = [pid |-> e.pid, key |-> e.key, age |-> age[e]]
  OBVIOUS
<1> HIDE DEF T
<1>4. \A t \in T : t.key \in Int /\ t.age \in Nat
  BY <1>3
<1>5. ASSUME NEW t \in T, NEW u \in T, t # u
      PROVE  t.pid # u.pid /\ (t.key = u.key => t.age # u.age)
  <2>1. PICK e \in S : t = [pid |-> e.pid, key |-> e.key, age |-> age[e]]
    BY <1>3
  <2>2. PICK f \in S : u = [pid |-> f.pid, key |-> f.key, age |-> age[f]]
    BY <1>3
  <2>3. e # f
    BY <1>5, <2>1, <2>2
  <2> QED
    BY <2>1, <2>2, <2>3
<1>6. Ordered(T)
  BY <1>2, <1>4, <1>5 DEF Ordered
<1> QED
  BY <1>6 DEF T

\* insert() of one process, entry by entry: it comes last among the entries of
\* its key, which grow older by one.
LEMMA InsertIs ==
  ASSUME NEW L, NEW p, NEW k
  PROVE  Insert(L, p, k) =
           {[pid |-> e.pid, key |-> e.key, age |-> IF e.key = k THEN e.age + 1 ELSE e.age + 0] : e \in L}
           \cup {[pid |-> p, key |-> k, age |-> 0]}
<1> DEFINE x == [pid |-> p, key |-> k, turn |-> 0]
           same(j) == Cardinality({y \in {x} : y.key = j})
           after(z) == Cardinality({y \in {x} : y.key = z.key /\ y.turn > z.turn})
<1>1. ASSUME NEW j  PROVE same(j) = IF j = k THEN 1 ELSE 0
  <2>1. {y \in {x} : y.key = j} = IF j = k THEN {x} ELSE {}
    OBVIOUS
  <2> QED
    BY <2>1, FS_EmptySet, FS_Singleton
<1>2. after(x) = 0
  <2>1. {y \in {x} : y.key = x.key /\ y.turn > x.turn} = {}
    OBVIOUS
  <2> QED
    BY <2>1, FS_EmptySet
<1>3. Insert(L, p, k) =
        {[pid |-> e.pid, key |-> e.key, age |-> e.age + same(e.key)] : e \in L}
        \cup {[pid |-> z.pid, key |-> z.key, age |-> after(z)] : z \in {x}}
  BY Zenon DEF Insert, InsertAll
<1>4. {[pid |-> z.pid, key |-> z.key, age |-> after(z)] : z \in {x}}
        = {[pid |-> p, key |-> k, age |-> 0]}
  <2> HIDE DEF after
  <2> QED
    BY <1>2
<1> HIDE DEF same, after
<1>5. {[pid |-> e.pid, key |-> e.key, age |-> e.age + same(e.key)] : e \in L}
        = {[pid |-> e.pid, key |-> e.key, age |-> IF e.key = k THEN e.age + 1 ELSE e.age + 0] : e \in L}
  BY <1>1
<1> QED
  BY <1>3, <1>4, <1>5

LEMMA OrderedEmpty == Ordered({})
  BY FS_EmptySet DEF Ordered

\* insert() keeps a list ordered.
LEMMA OrderedInsert ==
  ASSUME NEW L, Ordered(L), NEW p, p \notin Pids(L), NEW k \in Int
  PROVE  Ordered(Insert(L, p, k))
<1> DEFINE older == [e \in L |-> IF e.key = k THEN e.age + 1 ELSE e.age + 0]
           K == {[pid |-> e.pid, key |-> e.key, age |-> older[e]] : e \in L}
           new == [pid |-> p, key |-> k, age |-> 0]
<1>1. /\ older \in [L -> Nat]
      /\ \A e \in L : older[e] = IF e.key = k THEN e.age + 1 ELSE e.age
  BY DEF Ordered
<1>2. Insert(L, p, k) = K \cup {new}
  <2>1. K = {[pid |-> e.pid, key |-> e.key, age |-> IF e.key = k THEN e.age + 1 ELSE e.age + 0] : e \in L}
    OBVIOUS
  <2> QED
    BY <2>1, InsertIs
<1> HIDE DEF older
<1>3. \A e \in K : e.pid # p /\ (e.key = k => e.age # 0)
  <2> SUFFICES ASSUME NEW e \in L  PROVE e.pid # p /\ (e.key = k => older[e] # 0)
    OBVIOUS
  <2>1. e.age \in Nat
    BY DEF Ordered
  <2> QED
    BY <1>1, <2>1 DEF Pids
<1>4. Ordered(K)
  <2>1. \A e, f \in L : e # f => e.pid # f.pid /\ (e.key = f.key => older[e] # older[f])
    BY <1>1 DEF Ordered
  <2>2. IsFiniteSet(L) /\ \A e \in L : e.key \in Int
    BY DEF Ordered
  <2> QED
    BY <1>1, <2>1, <2>2, OrderedAged
<1> HIDE DEF K
<1>5. IsFiniteSet(K \cup {new})
  BY <1>4, FS_AddElement DEF Ordered
<1>6. Ordered(K \cup {new})
  BY <1>3, <1>4, <1>5 DEF Ordered
<1> QED
  BY <1>2, <1>6

\* dequeue() keeps a list ordered.
LEMMA OrderedRemove ==
  ASSUME NEW L, Ordered(L), NEW S
  PROVE  Ordered(Remove(L, S))
<1> DEFINE K == {e \in L : e.pid \notin S}
           younger(e) == {f \in K : f.key = e.key /\ f.age < e.age}
           after == [e \in K |-> Cardinality(younger(e))]
<1>1. Remove(L, S) = {[pid |-> e.pid, key |-> e.key, age |-> after[e]] : e \in K}
  BY Zenon DEF Remove
<1>2. IsFiniteSet(K) /\ \A e \in K : e.key \in Int /\ e.age \in Nat
  BY FS_Subset DEF Ordered
<1>3. \A e \in K : younger(e) \in SUBSET K /\ IsFiniteSet(younger(e))
  BY <1>2, FS_Subset
<1>4. after \in [K -> Nat] /\ \A e \in K : after[e] = Cardinality(younger(e))
  BY <1>3, FS_CardinalityType
<1>5. ASSUME NEW e \in K, NEW f \in K, e.key = f.key, e.age < f.age
      PROVE  after[e] # after[f]
  <2>1. /\ younger(e) \in SUBSET younger(f)
        /\ e \in younger(f) /\ e \notin younger(e)
    BY <1>2, <1>5
  <2> HIDE DEF younger, after
  <2> QED
    BY <1>3, <1>4, <2>1, FS_Subset
<1>6. \A e, f \in K : e # f => e.pid # f.pid /\ (e.key = f.key => e.age # f.age)
  BY DEF Ordered
<1> HIDE DEF K, younger, after
<1>7. \A e, f \in K : e # f => e.pid # f.pid /\ (e.key = f.key => after[e] # after[f])
  BY <1>2, <1>5, <1>6
<1> QED
  BY <1>1, <1>2, <1>4, <1>7, OrderedAged
-----------------------------------------------------------------------------
(* Which process is on a list with which key *)

KeysOn(L) == {<<e.pid, e.key>> : e \in L}

LEMMA KeysAged ==
  ASSUME NEW S, NEW age
  PROVE  KeysOn({[pid |-> e.pid, key |-> e.key, age |-> age[e]] : e \in S}) = KeysOn(S)
<1> DEFINE T == {[pid |-> e.pid, key |-> e.key, age |-> age[e]] : e \in S}
<1>1. \A t \in T : <<t.pid, t.key>> \in KeysOn(S)
  BY DEF KeysOn
<1>2. ASSUME NEW e \in S  PROVE \E t \in T : t.pid = e.pid /\ t.key = e.key
  <2> [pid |-> e.pid, key |-> e.key, age |-> age[e]] \in T
    OBVIOUS
  <2> QED
    OBVIOUS
<1> HIDE DEF T
<1>3. \A e \in S : <<e.pid, e.key>> \in KeysOn(T)
  BY <1>2 DEF KeysOn
<1>4. KeysOn(T) = KeysOn(S)
  BY <1>1, <1>3 DEF KeysOn
<1> QED
  BY <1>4 DEF T

\* insert() leaves the keys of the others.
LEMMA KeysInsert ==
  ASSUME NEW L, NEW p, NEW k
  PROVE  KeysOn(Insert(L, p, k)) = KeysOn(L) \cup {<<p, k>>}
<1> DEFINE older == [e \in L |-> IF e.key = k THEN e.age + 1 ELSE e.age + 0]
           K == {[pid |-> e.pid, key |-> e.key, age |-> older[e]] : e \in L}
           new == [pid |-> p, key |-> k, age |-> 0]
<1>1. Insert(L, p, k) = K \cup {new}
  <2>1. K = {[pid |-> e.pid, key |-> e.key, age |-> IF e.key = k THEN e.age + 1 ELSE e.age + 0] : e \in L}
    OBVIOUS
  <2> QED
    BY <2>1, InsertIs
<1> HIDE DEF older
<1>2. KeysOn(K) = KeysOn(L)
  BY KeysAged
<1> HIDE DEF K
<1>3. KeysOn({new}) = {<<p, k>>}
  BY DEF KeysOn
<1>4. KeysOn(K \cup {new}) = KeysOn(K) \cup KeysOn({new})
  <2> HIDE DEF new
  <2> QED
    BY DEF KeysOn
<1> QED
  BY <1>1, <1>2, <1>3, <1>4

\* dequeue() leaves the keys of the others.
LEMMA KeysRemove ==
  ASSUME NEW L, NEW S
  PROVE  KeysOn(Remove(L, S)) = {x \in KeysOn(L) : x[1] \notin S}
<1> DEFINE K == {e \in L : e.pid \notin S}
           after == [e \in K |-> Cardinality({f \in K : f.key = e.key /\ f.age < e.age})]
<1>1. Remove(L, S) = {[pid |-> e.pid, key |-> e.key, age |-> after[e]] : e \in K}
  BY Zenon DEF Remove
<1> HIDE DEF after, K
<1>2. KeysOn(Remove(L, S)) = KeysOn(K)
  BY <1>1, KeysAged
<1>3. KeysOn(K) = {x \in KeysOn(L) : x[1] \notin S}
  BY DEF KeysOn, K
<1> QED
  BY <1>2, <1>3
-----------------------------------------------------------------------------
(* Queues in which nobody is twice *)

Distinct(Q) == \A i, j \in 1 .. Len(Q) : Q[i] = Q[j] => i = j
Members(Q) == {Q[i] : i \in 1 .. Len(Q)}

\* The entry i leaves.
Gone(Q, i) == SubSeq(Q, 1, i - 1) \o SubSeq(Q, i + 1, Len(Q))

LEMMA SubSeqOf ==
  ASSUME NEW S, NEW Q \in Seq(S), NEW m \in Nat \ {0}, NEW n \in Nat, n <= Len(Q)
  PROVE  /\ SubSeq(Q, m, n) \in Seq(S)
         /\ Len(SubSeq(Q, m, n)) = IF m <= n THEN n - m + 1 ELSE 0
         /\ \A i \in 1 .. Len(SubSeq(Q, m, n)) : SubSeq(Q, m, n)[i] = Q[m + i - 1]
<1>1. \A i \in m .. n : Q[i] \in S
  BY LenProperties, ElementOfSeq
<1>2. m \in Int /\ n \in Int
  OBVIOUS
<1>3. /\ SubSeq(Q, m, n) \in Seq(S)
      /\ Len(SubSeq(Q, m, n)) = IF m <= n THEN n - m + 1 ELSE 0
      /\ \A i \in 1 .. n - m + 1 : SubSeq(Q, m, n)[i] = Q[m + i - 1]
  BY <1>1, <1>2, SubSeqProperties
<1> QED
  BY <1>3

LEMMA GoneIs ==
  ASSUME NEW S, NEW Q \in Seq(S), NEW i \in 1 .. Len(Q)
  PROVE  /\ Gone(Q, i) \in Seq(S) /\ Len(Gone(Q, i)) = Len(Q) - 1
         /\ \A j \in 1 .. Len(Q) - 1 : Gone(Q, i)[j] = IF j < i THEN Q[j] ELSE Q[j + 1]
<1> DEFINE a == SubSeq(Q, 1, i - 1)
           b == SubSeq(Q, i + 1, Len(Q))
<1>1. Len(Q) \in Nat
  BY LenProperties
<1>2. a \in Seq(S) /\ Len(a) = i - 1 /\ \A j \in 1 .. i - 1 : a[j] = Q[j]
  BY <1>1, SubSeqOf
<1>3. b \in Seq(S) /\ Len(b) = Len(Q) - i /\ \A j \in 1 .. Len(Q) - i : b[j] = Q[i + j]
  BY <1>1, SubSeqOf
<1> HIDE DEF a, b
<1>4. PICK c : c = a \o b
  OBVIOUS
<1>5. /\ c \in Seq(S) /\ Len(c) = Len(a) + Len(b)
      /\ \A j \in 1 .. Len(a) + Len(b) : c[j] = IF j <= Len(a) THEN a[j] ELSE b[j - Len(a)]
  <2>1. /\ a \o b \in Seq(S) /\ Len(a \o b) = Len(a) + Len(b)
        /\ \A j \in 1 .. Len(a) + Len(b) : (a \o b)[j] = IF j <= Len(a) THEN a[j] ELSE b[j - Len(a)]
    BY <1>2, <1>3, ConcatProperties
  <2> QED
    BY <1>4, <2>1, Zenon
<1>6. ASSUME NEW j \in 1 .. Len(Q) - 1  PROVE c[j] = IF j < i THEN Q[j] ELSE Q[j + 1]
  <2>1. Len(a) = i - 1 /\ Len(b) = Len(Q) - i /\ j \in 1 .. Len(a) + Len(b)
    BY <1>1, <1>2, <1>3
  <2>2. c[j] = IF j <= Len(a) THEN a[j] ELSE b[j - Len(a)]
    BY <1>5, <2>1, Zenon
  <2>3. CASE j < i
    <3>1. j \in 1 .. i - 1 /\ j <= Len(a)
      BY <1>1, <2>1, <2>3
    <3>2. a[j] = Q[j]
      BY <1>2, <3>1, Zenon
    <3>3. c[j] = a[j]
      BY <2>2, <3>1, Zenon
    <3> QED
      BY <2>3, <3>2, <3>3
  <2>4. CASE ~(j < i)
    <3>1. j - Len(a) \in 1 .. Len(Q) - i /\ i + (j - Len(a)) = j + 1 /\ ~(j <= Len(a))
      BY <1>1, <2>1, <2>4
    <3>2. b[j - Len(a)] = Q[j + 1]
      BY <1>3, <3>1, Zenon
    <3>3. c[j] = b[j - Len(a)]
      BY <2>2, <3>1, Zenon
    <3> QED
      BY <2>4, <3>2, <3>3
  <2> QED
    BY <2>3, <2>4
<1>7. c = Gone(Q, i)
  BY <1>4 DEF Gone, a, b
<1>8. Len(c) = Len(Q) - 1
  BY <1>1, <1>2, <1>3, <1>5
<1> QED
  BY <1>5, <1>6, <1>7, <1>8

LEMMA GoneMembers ==
  ASSUME NEW S, NEW Q \in Seq(S), Distinct(Q), NEW i \in 1 .. Len(Q)
  PROVE  Distinct(Gone(Q, i)) /\ Members(Gone(Q, i)) = Members(Q) \ {Q[i]}
<1>1. /\ Len(Q) \in Nat /\ Len(Gone(Q, i)) = Len(Q) - 1
      /\ \A j \in 1 .. Len(Q) - 1 : Gone(Q, i)[j] = IF j < i THEN Q[j] ELSE Q[j + 1]
  BY GoneIs, LenProperties
<1>2. Distinct(Gone(Q, i))
  BY <1>1 DEF Distinct
<1>3. Members(Gone(Q, i)) \subseteq Members(Q) \ {Q[i]}
  BY <1>1 DEF Members, Distinct
<1>4. ASSUME NEW x \in Members(Q) \ {Q[i]}  PROVE x \in Members(Gone(Q, i))
  <2>1. PICK j \in 1 .. Len(Q) : x = Q[j] /\ j # i
    BY DEF Members
  <2>2. CASE j < i
    BY <1>1, <2>1, <2>2 DEF Members
  <2>3. CASE j > i
    <3>1. j - 1 \in 1 .. Len(Q) - 1 /\ Gone(Q, i)[j - 1] = Q[j]
      BY <1>1, <2>1, <2>3
    <3> QED
      BY <1>1, <2>1, <3>1 DEF Members
  <2> QED
    BY <1>1, <2>1, <2>2, <2>3
<1> QED
  BY <1>2, <1>3, <1>4

\* The first k leave.
LEMMA FirstGone ==
  ASSUME NEW S, NEW Q \in Seq(S), Distinct(Q), NEW k \in 0 .. Len(Q)
  PROVE  /\ SubSeq(Q, k + 1, Len(Q)) \in Seq(S) /\ Len(SubSeq(Q, k + 1, Len(Q))) = Len(Q) - k
         /\ Distinct(SubSeq(Q, k + 1, Len(Q)))
         /\ Members(SubSeq(Q, k + 1, Len(Q))) = Members(Q) \ Members(SubSeq(Q, 1, k))
         /\ Members(SubSeq(Q, 1, k)) \subseteq Members(Q)
<1> DEFINE a == SubSeq(Q, 1, k)
           b == SubSeq(Q, k + 1, Len(Q))
<1>1. Len(Q) \in Nat
  BY LenProperties
<1>2. Len(a) = k /\ \A j \in 1 .. k : a[j] = Q[j]
  BY <1>1, SubSeqOf
<1>3. b \in Seq(S) /\ Len(b) = Len(Q) - k /\ \A j \in 1 .. Len(Q) - k : b[j] = Q[k + j]
  BY <1>1, SubSeqOf
<1> HIDE DEF a, b
<1>4. Distinct(b)
  BY <1>1, <1>3 DEF Distinct
<1>5. Members(a) \subseteq Members(Q)
  BY <1>1, <1>2 DEF Members
<1>6. Members(b) \subseteq Members(Q) \ Members(a)
  BY <1>1, <1>2, <1>3 DEF Members, Distinct
<1>7. ASSUME NEW x \in Members(Q) \ Members(a)  PROVE x \in Members(b)
  <2>1. PICK j \in 1 .. Len(Q) : x = Q[j]
    BY DEF Members
  <2>2. j > k
    BY <1>1, <1>2, <2>1 DEF Members
  <2>3. j - k \in 1 .. Len(Q) - k /\ b[j - k] = Q[j]
    BY <1>1, <1>3, <2>2
  <2> QED
    BY <1>3, <2>1, <2>3 DEF Members
<1> QED
  BY <1>3, <1>4, <1>5, <1>6, <1>7 DEF a, b

LEMMA OneJoins ==
  ASSUME NEW S, NEW Q \in Seq(S), Distinct(Q), NEW p \in S, p \notin Members(Q)
  PROVE  /\ Append(Q, p) \in Seq(S) /\ Len(Append(Q, p)) = Len(Q) + 1
         /\ Distinct(Append(Q, p)) /\ Members(Append(Q, p)) = Members(Q) \cup {p}
<1>1. /\ Len(Q) \in Nat
      /\ Append(Q, p) \in Seq(S) /\ Len(Append(Q, p)) = Len(Q) + 1
      /\ \A i \in 1 .. Len(Q) : Append(Q, p)[i] = Q[i]
      /\ Append(Q, p)[Len(Q) + 1] = p
  BY LenProperties, AppendProperties
<1>2. \A i \in 1 .. Len(Q) + 1 : Append(Q, p)[i] = IF i <= Len(Q) THEN Q[i] ELSE p
  BY <1>1
<1>3. Distinct(Append(Q, p))
  BY <1>1, <1>2 DEF Distinct, Members
<1>4. Members(Append(Q, p)) = Members(Q) \cup {p}
  BY <1>1, <1>2 DEF Members
<1> QED
  BY <1>1, <1>3, <1>4

LEMMA Nobody ==
  ASSUME NEW S
  PROVE  <<>> \in Seq(S) /\ Len(<<>>) = 0 /\ Distinct(<<>>) /\ Members(<<>>) = {}
  BY EmptySeq DEF Distinct, Members

LEMMA Somebody ==
  ASSUME NEW S, NEW Q \in Seq(S)
  PROVE  Q = <<>> <=> Len(Q) = 0
  BY EmptySeq, LenProperties
=============================================================================
