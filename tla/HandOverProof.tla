--------------------------- MODULE HandOverProof ---------------------------
(***************************************************************************)
(* For any processes, priorities and numbers of waiters: the links of q[]  *)
(* are the list that RWLock computes with, and the loops of release()      *)
(* admit exactly the processes of RWLock's Admitted.                       *)
(***************************************************************************)
EXTENDS HandOver, ListProof

-----------------------------------------------------------------------------
(* Order *)

LEMMA AheadOrder ==
  ASSUME NEW E, Ordered(E)
  PROVE  /\ \A e \in E : ~Ahead(e, e)
         /\ \A e, f, g \in E : Ahead(e, f) /\ Ahead(f, g) => Ahead(e, g)
         /\ \A e, f \in E : e = f \/ Ahead(e, f) \/ Ahead(f, e)
         /\ \A e, f \in E : Ahead(e, f) => ~Ahead(f, e)
         /\ \A e, f \in E : e.pid = f.pid => e = f
  BY DEF Ordered, Ahead

LEMMA OrderedPart ==
  ASSUME NEW E, Ordered(E), NEW S \in SUBSET E
  PROVE  Ordered(S)
  BY FS_Subset DEF Ordered

\* Any entries of a list have one that the others are ahead of.
LEMMA HindmostExists ==
  ASSUME NEW L, Ordered(L), NEW S \in SUBSET L, S # {}
  PROVE  \E e \in S : \A f \in S \ {e} : Ahead(f, e)
<1> DEFINE R == {x \in S \X S : Ahead(x[2], x[1])}
<1>1. \A e, f \in S : <<e, f>> \in R <=> Ahead(f, e)
  OBVIOUS
<1>2. /\ \A e, f, g \in S : Ahead(e, f) /\ Ahead(f, g) => Ahead(e, g)
      /\ \A e \in S : ~Ahead(e, e)
      /\ \A e, f \in S : e = f \/ Ahead(e, f) \/ Ahead(f, e)
  BY AheadOrder
<1>3. IsFiniteSet(S)
  BY FS_Subset DEF Ordered
<1> HIDE DEF R
<1>4. /\ \A x, y, z \in S : <<x, y>> \in R /\ <<y, z>> \in R => <<x, z>> \in R
      /\ \A x \in S : <<x, x>> \notin R
  BY <1>1, <1>2
<1>5. PICK e \in S : \A f \in S : <<f, e>> \notin R
  BY <1>3, <1>4, FirstExists
<1>6. ASSUME NEW f \in S \ {e}  PROVE Ahead(f, e)
  BY <1>1, <1>2, <1>5
<1> QED
  BY <1>6
-----------------------------------------------------------------------------
(* Scans *)

\* The places P lie on the way from `from` to target, the only stop among them;
\* R tells which of two is nearer to target.
Leads(link, P, from, stops, target, R) ==
  /\ P \in SUBSET DOMAIN link /\ IsFiniteSet(P) /\ from \in P /\ target \in P
  /\ P \cap stops = {target}
  /\ \A x, y, z \in P : <<x, y>> \in R /\ <<y, z>> \in R => <<x, z>> \in R
  /\ \A x \in P : <<x, x>> \notin R
  /\ \A n \in P \ {target} : link[n] \in P /\ <<link[n], n>> \in R

\* A scan that keeps coming nearer to the only stop on its way ends there.
LEMMA MetIs ==
  ASSUME NEW link, NEW P, NEW from, NEW stops, NEW target, NEW R, Leads(link, P, from, stops, target, R)
  PROVE  Met(link, from, stops) = {target}
<1>0. /\ P \in SUBSET DOMAIN link /\ IsFiniteSet(P) /\ from \in P /\ target \in P
      /\ P \cap stops = {target}
      /\ \A x, y, z \in P : <<x, y>> \in R /\ <<y, z>> \in R => <<x, z>> \in R
      /\ \A x \in P : <<x, x>> \notin R
      /\ \A n \in P \ {target} : link[n] \in P /\ <<link[n], n>> \in R
  BY DEF Leads
<1>1. \A n \in Met(link, from, stops) : n \in P
  BY <1>0 DEF Met
<1>2. ASSUME NEW S \in SUBSET DOMAIN link, from \in S, \A m \in S \ stops : link[m] \in S
      PROVE  target \in S
  <2> DEFINE T == S \cap P
  <2>1. T # {} /\ IsFiniteSet(T)
    BY <1>0, <1>2, FS_Subset
  <2>2. PICK m \in T : \A y \in T : <<y, m>> \notin R
    <3> HIDE DEF T
    <3>1. T \subseteq P
      BY DEF T
    <3> QED
      BY <1>0, <2>1, <3>1, FirstExists
  <2>3. CASE m # target
    <3>1. m \notin stops /\ link[m] \in P /\ <<link[m], m>> \in R
      BY <1>0, <2>3
    <3>2. link[m] \in T
      BY <1>2, <3>1
    <3> QED
      BY <2>2, <3>1, <3>2
  <2> QED
    BY <2>3
<1>3. target \in Met(link, from, stops)
  BY <1>0, <1>2 DEF Met
<1>4. \A n \in Met(link, from, stops) : n = target
  BY <1>0, <1>1 DEF Met
<1> QED
  BY <1>3, <1>4
-----------------------------------------------------------------------------
(* The links *)

EntryType == [qkey : Int, qnext : Int, qprev : Int]

Relinked(t, a, x, b, y) == [t EXCEPT ![a].qnext = x, ![b].qprev = y]

AreRelinked(N, t, a, x, b, y, u) ==
  /\ u \in [N -> EntryType]
  /\ \A i \in N : /\ u[i].qkey = t[i].qkey
                  /\ u[i].qnext = IF i = a THEN x ELSE t[i].qnext
                  /\ u[i].qprev = IF i = b THEN y ELSE t[i].qprev

\* Two entries of a table change.
LEMMA TwoLinks ==
  ASSUME NEW N, NEW t \in [N -> EntryType], NEW a \in N, NEW b \in N, NEW x \in Int, NEW y \in Int
  PROVE  AreRelinked(N, t, a, x, b, y, Relinked(t, a, x, b, y))
<1>0. PICK u : u = Relinked(t, a, x, b, y)
  OBVIOUS
<1>1. PICK c : c = [t[a] EXCEPT !.qnext = x]
  OBVIOUS
<1>2. PICK v : v = [t EXCEPT ![a] = c]
  OBVIOUS
<1>3. PICK d : d = [v[b] EXCEPT !.qprev = y]
  OBVIOUS
<1>4. u = [v EXCEPT ![b] = d]
  BY <1>0, <1>1, <1>2, <1>3 DEF Relinked
<1>5. t[a] \in EntryType /\ \A i \in N : t[i] \in EntryType
  OBVIOUS
<1>6. c \in EntryType /\ c.qkey = t[a].qkey /\ c.qnext = x /\ c.qprev = t[a].qprev
  BY <1>1, <1>5 DEF EntryType
<1>7. v \in [N -> EntryType] /\ \A i \in N : v[i] = IF i = a THEN c ELSE t[i]
  BY <1>2, <1>6
<1>8. v[b] \in EntryType
  BY <1>7
<1>9. d \in EntryType /\ d.qkey = v[b].qkey /\ d.qnext = v[b].qnext /\ d.qprev = y
  BY <1>3, <1>8 DEF EntryType
<1>10. u \in [N -> EntryType] /\ \A i \in N : u[i] = IF i = b THEN d ELSE v[i]
  BY <1>4, <1>7, <1>9
<1>11. AreRelinked(N, t, a, x, b, y, u)
  BY <1>6, <1>7, <1>9, <1>10 DEF AreRelinked
<1> QED
  BY <1>0, <1>11

LEMMA DequeueIs ==
  ASSUME NEW N, NEW t \in [N -> EntryType], NEW i \in N, t[i].qprev \in N, t[i].qnext \in N
  PROVE  /\ QDequeue(t, i) \in [N -> EntryType]
         /\ \A j \in N : /\ QDequeue(t, i)[j].qkey = t[j].qkey
                         /\ QDequeue(t, i)[j].qnext = IF j = t[i].qprev THEN t[i].qnext ELSE t[j].qnext
                         /\ QDequeue(t, i)[j].qprev = IF j = t[i].qnext THEN t[i].qprev ELSE t[j].qprev
<1>1. t[i] \in EntryType
  OBVIOUS
<1>2. t[i].qnext \in Int /\ t[i].qprev \in Int
  BY <1>1 DEF EntryType
<1>3. PICK a : a = t[i].qprev
  OBVIOUS
<1>4. PICK b : b = t[i].qnext
  OBVIOUS
<1>5. PICK u : u = QDequeue(t, i)
  OBVIOUS
<1>6. u = Relinked(t, a, b, b, a)
  BY <1>3, <1>4, <1>5 DEF QDequeue, Relinked
<1>7. a \in N /\ b \in N /\ a \in Int /\ b \in Int
  BY <1>2, <1>3, <1>4
<1>8. AreRelinked(N, t, a, b, b, a, u)
  BY <1>6, <1>7, TwoLinks, Zenon
<1> QED
  BY <1>3, <1>4, <1>5, <1>8 DEF AreRelinked

\* u is the table t without the entry e; another dequeue() changes nothing.
Dequeued(N, t, E, e, u) ==
  /\ u \in [N -> EntryType]
  /\ \A i \in N : u[i].qkey = t[i].qkey
  /\ Links(u, E \ {e})
  /\ QDequeue(u, e.pid) = u

\* An entry between two others leaves, once or twice.
LEMMA LinksDequeue ==
  ASSUME NEW E, Ordered(E), NEW N, Pids(E) \subseteq N, NEW t \in [N -> EntryType], Links(t, E),
         NEW a \in E, NEW e \in E, NEW b \in E, Beside(E, a, e), Beside(E, e, b)
  PROVE  Dequeued(N, t, E, e, QDequeue(t, e.pid))
<1>1. /\ \A f \in E : ~Ahead(f, f)
      /\ \A f, g, h \in E : Ahead(f, g) /\ Ahead(g, h) => Ahead(f, h)
      /\ \A f, g \in E : f = g \/ Ahead(f, g) \/ Ahead(g, f)
      /\ \A f, g \in E : f.pid = g.pid => f = g
  BY AheadOrder
<1>2. \A f \in E : f.pid \in N
  BY DEF Pids
<1>3. t[e.pid].qprev = a.pid /\ t[e.pid].qnext = b.pid
  BY DEF Links
<1>4. a # e /\ b # e /\ a # b
  BY <1>1 DEF Beside
<1>5. a.pid # e.pid /\ b.pid # e.pid /\ a.pid # b.pid
  BY <1>1, <1>4
<1>6. PICK u : u = QDequeue(t, e.pid)
  OBVIOUS
<1>7. /\ u \in [N -> EntryType]
      /\ \A j \in N : /\ u[j].qkey = t[j].qkey
                      /\ u[j].qnext = IF j = a.pid THEN b.pid ELSE t[j].qnext
                      /\ u[j].qprev = IF j = b.pid THEN a.pid ELSE t[j].qprev
  BY <1>2, <1>3, <1>6, DequeueIs
<1>8. ASSUME NEW c \in E \ {e}, NEW d \in E \ {e}, Beside(E \ {e}, c, d)
      PROVE  u[c.pid].qnext = d.pid /\ u[d.pid].qprev = c.pid
  <2>1. CASE Beside(E, c, d)
    <3>1. t[c.pid].qnext = d.pid /\ t[d.pid].qprev = c.pid
      BY <2>1 DEF Links
    <3>2. c # a
      BY <1>1, <2>1 DEF Beside
    <3>3. d # b
      BY <1>1, <2>1 DEF Beside
    <3> QED
      BY <1>1, <1>2, <1>7, <3>1, <3>2, <3>3
  <2>2. CASE ~Beside(E, c, d)
    <3>1. Ahead(d, e) /\ Ahead(e, c)
      BY <1>8, <2>2 DEF Beside
    <3>2. c = a
      BY <1>1, <1>4, <1>8, <3>1 DEF Beside
    <3>3. d = b
      BY <1>1, <1>4, <1>8, <3>1 DEF Beside
    <3> QED
      BY <1>2, <1>7, <3>2, <3>3
  <2> QED
    BY <2>1, <2>2
<1>9. Links(u, E \ {e})
  BY <1>8 DEF Links
<1>10. QDequeue(u, e.pid) = u
  <2>1. u[e.pid].qprev = a.pid /\ u[e.pid].qnext = b.pid
    BY <1>2, <1>3, <1>5, <1>7
  <2>2. PICK w : w = QDequeue(u, e.pid)
    OBVIOUS
  <2>3. /\ w \in [N -> EntryType]
        /\ \A j \in N : /\ w[j].qkey = u[j].qkey
                        /\ w[j].qnext = IF j = a.pid THEN b.pid ELSE u[j].qnext
                        /\ w[j].qprev = IF j = b.pid THEN a.pid ELSE u[j].qprev
    BY <1>2, <1>7, <2>1, <2>2, DequeueIs
  <2>4. \A j \in N : w[j] = u[j]
    <3> SUFFICES ASSUME NEW j \in N  PROVE w[j] = u[j]
      OBVIOUS
    <3>1. w[j] \in EntryType /\ u[j] \in EntryType
      BY <1>7, <2>3
    <3>2. w[j].qkey = u[j].qkey /\ w[j].qnext = u[j].qnext /\ w[j].qprev = u[j].qprev
      BY <1>7, <2>3
    <3> QED
      BY <3>1, <3>2 DEF EntryType
  <2>5. w = u
    BY <1>7, <2>3, <2>4
  <2> QED
    BY <2>2, <2>5
<1> QED
  BY <1>6, <1>7, <1>9, <1>10 DEF Dequeued

\* The table after insert().
PutIn(t, p, k, a, b) ==
  [t EXCEPT ![p] = [qkey |-> k, qnext |-> b, qprev |-> a], ![a].qnext = p, ![b].qprev = p]

IsPutIn(N, t, p, k, a, b, u) ==
  /\ u \in [N -> EntryType]
  /\ \A i \in N : /\ u[i].qkey = IF i = p THEN k ELSE t[i].qkey
                  /\ u[i].qnext = IF i = a THEN p ELSE IF i = p THEN b ELSE t[i].qnext
                  /\ u[i].qprev = IF i = b THEN p ELSE IF i = p THEN a ELSE t[i].qprev

LEMMA PutInIs ==
  ASSUME NEW N, N \subseteq Int, NEW t \in [N -> EntryType], NEW p \in N, NEW a \in N, NEW b \in N,
         NEW k \in Int
  PROVE  IsPutIn(N, t, p, k, a, b, PutIn(t, p, k, a, b))
<1>1. PICK r : r = [qkey |-> k, qnext |-> b, qprev |-> a]
  OBVIOUS
<1>2. p \in Int /\ a \in Int /\ b \in Int
  OBVIOUS
<1>3. r \in EntryType /\ r.qkey = k /\ r.qnext = b /\ r.qprev = a
  BY <1>1, <1>2 DEF EntryType
<1>4. PICK v : v = [t EXCEPT ![p] = r]
  OBVIOUS
<1>5. v \in [N -> EntryType] /\ \A i \in N : v[i] = IF i = p THEN r ELSE t[i]
  BY <1>3, <1>4
<1>6. PutIn(t, p, k, a, b) = Relinked(v, a, p, b, p)
  BY <1>1, <1>4 DEF PutIn, Relinked
<1>7. AreRelinked(N, v, a, p, b, p, Relinked(v, a, p, b, p))
  BY <1>2, <1>5, TwoLinks, Zenon
<1>8. PICK u : u = PutIn(t, p, k, a, b)
  OBVIOUS
<1>9. IsPutIn(N, t, p, k, a, b, u)
  BY <1>3, <1>5, <1>6, <1>7, <1>8 DEF AreRelinked, IsPutIn
<1> QED
  BY <1>8, <1>9

\* An entry x is put between a and b.
Inserted(N, t, E, x, u) ==
  /\ u \in [N -> EntryType]
  /\ \A i \in N : u[i].qkey = IF i = x.pid THEN x.key ELSE t[i].qkey
  /\ Links(u, E \cup {x})

LEMMA LinksInsert ==
  ASSUME NEW E, NEW x, x \notin E, Ordered(E \cup {x}),
         NEW N, Pids(E \cup {x}) \subseteq N, N \subseteq Int, x.key \in Int,
         NEW t \in [N -> EntryType], Links(t, E),
         NEW a \in E, NEW b \in E, Beside(E \cup {x}, a, x), Beside(E \cup {x}, x, b),
         NEW u, u = PutIn(t, x.pid, x.key, a.pid, b.pid)
  PROVE  Inserted(N, t, E, x, u)
<1> DEFINE F == E \cup {x}
<1>1. /\ \A f \in F : ~Ahead(f, f)
      /\ \A f, g, h \in F : Ahead(f, g) /\ Ahead(g, h) => Ahead(f, h)
      /\ \A f, g \in F : f = g \/ Ahead(f, g) \/ Ahead(g, f)
      /\ \A f, g \in F : f.pid = g.pid => f = g
  BY AheadOrder
<1>2. \A f \in F : f.pid \in N /\ f.pid \in Int
  BY DEF Pids
<1>3. a # x /\ b # x /\ a # b
  BY <1>1 DEF Beside
<1>4. IsPutIn(N, t, x.pid, x.key, a.pid, b.pid, u)
  BY <1>2, PutInIs, Zenon
<1>5. /\ u \in [N -> EntryType] /\ \A i \in N : u[i].qkey = IF i = x.pid THEN x.key ELSE t[i].qkey
      /\ \A i \in N : u[i].qnext = IF i = a.pid THEN x.pid ELSE IF i = x.pid THEN b.pid ELSE t[i].qnext
      /\ \A i \in N : u[i].qprev = IF i = b.pid THEN x.pid ELSE IF i = x.pid THEN a.pid ELSE t[i].qprev
  BY <1>4 DEF IsPutIn
<1>6. ASSUME NEW c \in F, NEW d \in F, Beside(F, c, d)
       PROVE  u[c.pid].qnext = d.pid /\ u[d.pid].qprev = c.pid
  <2>1. CASE c = x
    <3>1. d = b
      BY <1>1, <1>3, <1>6, <2>1 DEF Beside
    <3> QED
      BY <1>1, <1>2, <1>3, <1>5, <2>1, <3>1
  <2>2. CASE d = x
    <3>1. c = a
      BY <1>1, <1>3, <1>6, <2>2 DEF Beside
    <3> QED
      BY <1>1, <1>2, <1>3, <1>5, <2>2, <3>1
  <2>3. CASE c # x /\ d # x
    <3>1. c \in E /\ d \in E /\ Beside(E, c, d)
      BY <1>6, <2>3 DEF Beside
    <3>2. t[c.pid].qnext = d.pid /\ t[d.pid].qprev = c.pid
      BY <3>1 DEF Links
    <3>3. c # a
      BY <1>1, <1>6, <2>3 DEF Beside
    <3>4. d # b
      BY <1>1, <1>6, <2>3 DEF Beside
    <3>5. c.pid # x.pid /\ d.pid # x.pid /\ c.pid # a.pid /\ d.pid # b.pid
      BY <1>1, <2>3, <3>3, <3>4
    <3> QED
      BY <1>2, <1>5, <3>2, <3>5
  <2> QED
    BY <2>1, <2>2, <2>3
<1>7. Links(u, F)
  BY <1>6 DEF Links
<1> QED
  BY <1>5, <1>7 DEF Inserted

\* Copies of a list with other ages in the same order have the same links.
Copies(S, age) == {[pid |-> e.pid, key |-> e.key, age |-> age[e]] : e \in S}
SameOrder(S, age) == \A e, f \in S : e.key = f.key => (e.age > f.age <=> age[e] > age[f])

LEMMA LinksAged ==
  ASSUME NEW S, NEW age, SameOrder(S, age),
         NEW C, \A c \in C : \A e \in S : c.key # e.key,
         NEW t
  PROVE  Links(t, S \cup C) <=> Links(t, Copies(S, age) \cup C)
<1> DEFINE T == {[pid |-> e.pid, key |-> e.key, age |-> age[e]] : e \in S}
           copy(e) == IF e \in S THEN [pid |-> e.pid, key |-> e.key, age |-> age[e]] ELSE e
<1>1. \A e \in S \cup C : copy(e) \in T \cup C /\ copy(e).pid = e.pid
  OBVIOUS
<1>2. S \cap C = {}
  OBVIOUS
<1>3. \A u \in T \cup C : \E e \in S \cup C : u = copy(e)
  BY <1>2
<1>4. \A e, f \in S \cup C : Ahead(e, f) <=> Ahead(copy(e), copy(f))
  <2> SUFFICES ASSUME NEW e \in S \cup C, NEW f \in S \cup C
               PROVE  Ahead(e, f) <=> Ahead(copy(e), copy(f))
    OBVIOUS
  <2>1. CASE e \in S /\ f \in S
    <3>1. copy(e).key = e.key /\ copy(e).age = age[e] /\ copy(f).key = f.key /\ copy(f).age = age[f]
      BY <2>1
    <3>2. e.key = f.key => (e.age > f.age <=> age[e] > age[f])
      BY <2>1 DEF SameOrder
    <3> HIDE DEF copy
    <3> QED
      BY <3>1, <3>2 DEF Ahead
  <2>2. CASE e \in S /\ f \notin S
    <3>1. copy(e).key = e.key /\ copy(f) = f /\ f.key # e.key
      BY <2>2
    <3> HIDE DEF copy
    <3> QED
      BY <3>1 DEF Ahead
  <2>3. CASE e \notin S /\ f \in S
    <3>1. copy(f).key = f.key /\ copy(e) = e /\ f.key # e.key
      BY <2>3
    <3> HIDE DEF copy
    <3> QED
      BY <3>1 DEF Ahead
  <2>4. CASE e \notin S /\ f \notin S
    BY <2>4
  <2> QED
    BY <2>1, <2>2, <2>3, <2>4
<1> HIDE DEF T, copy
<1>5. \A e, f \in S \cup C : Beside(S \cup C, e, f) <=> Beside(T \cup C, copy(e), copy(f))
  BY <1>1, <1>3, <1>4 DEF Beside
<1>6. ASSUME Links(t, S \cup C)  PROVE Links(t, T \cup C)
  <2> SUFFICES ASSUME NEW u \in T \cup C, NEW v \in T \cup C, Beside(T \cup C, u, v)
               PROVE  t[u.pid].qnext = v.pid /\ t[v.pid].qprev = u.pid
    BY DEF Links
  <2>1. PICK e \in S \cup C : u = copy(e)
    BY <1>3
  <2>2. PICK f \in S \cup C : v = copy(f)
    BY <1>3
  <2>3. Beside(S \cup C, e, f)
    BY <1>5, <2>1, <2>2
  <2> QED
    BY <1>1, <1>6, <2>1, <2>2, <2>3 DEF Links
<1>7. ASSUME Links(t, T \cup C)  PROVE Links(t, S \cup C)
  <2> SUFFICES ASSUME NEW e \in S \cup C, NEW f \in S \cup C, Beside(S \cup C, e, f)
               PROVE  t[e.pid].qnext = f.pid /\ t[f.pid].qprev = e.pid
    BY DEF Links
  <2>1. Beside(T \cup C, copy(e), copy(f)) /\ copy(e) \in T \cup C /\ copy(f) \in T \cup C
    BY <1>1, <1>5
  <2> QED
    BY <1>1, <1>7, <2>1 DEF Links
<1> QED
  BY <1>6, <1>7 DEF T, Copies
-----------------------------------------------------------------------------
(* Scans of a list *)

\* Whoever is behind somebody has somebody right behind him.
LEMMA BehindExists ==
  ASSUME NEW E, Ordered(E), NEW c \in E, NEW t \in E, Ahead(c, t)
  PROVE  \E d \in E : Beside(E, d, c) /\ (d = t \/ Ahead(d, t))
<1> DEFINE S == {f \in E : Ahead(c, f)}
<1>1. PICK d \in S : IsLast(S, d)
  BY LastExists
<1>2. Beside(E, d, c)
  BY AheadOrder, <1>1 DEF IsLast, Beside
<1>3. d = t \/ Ahead(d, t)
  BY <1>1 DEF IsLast
<1> QED
  BY <1>2, <1>3

LEMMA AheadExists ==
  ASSUME NEW E, Ordered(E), NEW c \in E, NEW t \in E, Ahead(t, c)
  PROVE  \E d \in E : Beside(E, c, d) /\ (d = t \/ Ahead(t, d))
<1> DEFINE S == {f \in E : Ahead(f, c)}
<1>1. PICK d \in S : \A f \in S \ {d} : Ahead(f, d)
  BY HindmostExists
<1>2. Beside(E, c, d)
  BY AheadOrder, <1>1 DEF Beside
<1>3. d = t \/ Ahead(t, d)
  BY <1>1
<1> QED
  BY <1>2, <1>3

\* A scan of the entries S in an order Q.
Scanned(E, S, link, from, stops, target, Q) ==
  /\ S \in SUBSET E /\ from \in S /\ target \in S
  /\ Pids(S) \subseteq DOMAIN link
  /\ \A c \in S : c.pid \in stops <=> c = target
  /\ \A c, d, e \in S : <<c, d>> \in Q /\ <<d, e>> \in Q => <<c, e>> \in Q
  /\ \A c \in S : <<c, c>> \notin Q
  /\ \A c \in S \ {target} : \E d \in S : link[c.pid] = d.pid /\ <<d, c>> \in Q

LEMMA ScanIs ==
  ASSUME NEW E, Ordered(E), NEW S, NEW link, NEW from, NEW stops, NEW target, NEW Q,
         Scanned(E, S, link, from, stops, target, Q)
  PROVE  Met(link, from.pid, stops) = {target.pid}
<1>0. /\ S \in SUBSET E /\ from \in S /\ target \in S
      /\ Pids(S) \subseteq DOMAIN link
      /\ \A c \in S : c.pid \in stops <=> c = target
      /\ \A c, d, e \in S : <<c, d>> \in Q /\ <<d, e>> \in Q => <<c, e>> \in Q
      /\ \A c \in S : <<c, c>> \notin Q
      /\ \A c \in S \ {target} : \E d \in S : link[c.pid] = d.pid /\ <<d, c>> \in Q
  BY DEF Scanned
<1> DEFINE P == {c.pid : c \in S}
           R == {<<x[1].pid, x[2].pid>> : x \in {y \in S \X S : y \in Q}}
<1>1. \A c, d \in S : c.pid = d.pid => c = d
  BY <1>0, AheadOrder
<1>2. \A c, d \in S : <<c.pid, d.pid>> \in R <=> <<c, d>> \in Q
  <2> SUFFICES ASSUME NEW c \in S, NEW d \in S  PROVE <<c.pid, d.pid>> \in R <=> <<c, d>> \in Q
    OBVIOUS
  <2>1. ASSUME <<c, d>> \in Q  PROVE <<c.pid, d.pid>> \in R
    <3>1. PICK y \in S \X S : y = <<c, d>>
      OBVIOUS
    <3> QED
      BY <2>1, <3>1
  <2>2. ASSUME <<c.pid, d.pid>> \in R  PROVE <<c, d>> \in Q
    <3>1. PICK y \in S \X S : y \in Q /\ <<c.pid, d.pid>> = <<y[1].pid, y[2].pid>>
      BY <2>2
    <3>2. c = y[1] /\ d = y[2]
      BY <1>1, <3>1
    <3> QED
      BY <3>1, <3>2
  <2> QED
    BY <2>1, <2>2
<1>3. P \in SUBSET DOMAIN link /\ from.pid \in P /\ target.pid \in P
  BY <1>0 DEF Pids
<1>4. IsFiniteSet(P)
  <2>1. IsFiniteSet(S)
    BY <1>0, FS_Subset DEF Ordered
  <2> DEFINE name == [c \in S |-> c.pid]
  <2>2. name \in Surjection(S, P)
    BY DEF Surjection
  <2> HIDE DEF name, P
  <2> QED
    BY <2>1, <2>2, FS_Surjection
<1>5. P \cap stops = {target.pid}
  BY <1>0
<1>6. \A n \in P : \E c \in S : n = c.pid
  OBVIOUS
<1>7. \A c \in S : c.pid \in P
  OBVIOUS
<1> HIDE DEF P, R
<1>8. \A x, y, z \in P : <<x, y>> \in R /\ <<y, z>> \in R => <<x, z>> \in R
  <2> SUFFICES ASSUME NEW x \in P, NEW y \in P, NEW z \in P, <<x, y>> \in R, <<y, z>> \in R
               PROVE  <<x, z>> \in R
    OBVIOUS
  <2>1. PICK c \in S : x = c.pid
    BY <1>6
  <2>2. PICK d \in S : y = d.pid
    BY <1>6
  <2>3. PICK e \in S : z = e.pid
    BY <1>6
  <2>4. <<c, d>> \in Q /\ <<d, e>> \in Q
    BY <1>2, <2>1, <2>2, <2>3
  <2>5. <<c, e>> \in Q
    BY <1>0, <2>4
  <2> QED
    BY <1>2, <2>1, <2>3, <2>5
<1>9. ASSUME NEW x \in P  PROVE <<x, x>> \notin R
  <2>1. PICK c \in S : x = c.pid
    BY <1>6
  <2> QED
    BY <1>0, <1>2, <2>1
<1>10. \A n \in P \ {target.pid} : link[n] \in P /\ <<link[n], n>> \in R
  <2> SUFFICES ASSUME NEW n \in P, n # target.pid  PROVE link[n] \in P /\ <<link[n], n>> \in R
    OBVIOUS
  <2>1. PICK c \in S : n = c.pid
    BY <1>6
  <2>2. PICK d \in S : link[c.pid] = d.pid /\ <<d, c>> \in Q
    BY <1>0, <2>1
  <2> QED
    BY <1>2, <1>7, <2>1, <2>2
<1>11. Leads(link, P, from.pid, stops, target.pid, R)
  BY <1>3, <1>4, <1>5, <1>8, <1>9, <1>10 DEF Leads
<1> QED
  BY <1>11, MetIs, Zenon

\* target is the first stop from `from` on.
StopBehind(E, from, target, stops) ==
  /\ from \in E /\ target \in E /\ (from = target \/ Ahead(from, target)) /\ target.pid \in stops
  /\ \A c \in E : (c = from \/ Ahead(from, c)) /\ Ahead(c, target) => c.pid \notin stops

\* A scan along qprev ends at the first entry that is a stop.
LEMMA ScanPrev ==
  ASSUME NEW E, Ordered(E), NEW t, Pids(E) \subseteq DOMAIN t, Links(t, E),
         NEW from, NEW target, NEW stops, StopBehind(E, from, target, stops)
  PROVE  Met(Prevs(t), from.pid, stops) = {target.pid}
<1>0. /\ from \in E /\ target \in E /\ (from = target \/ Ahead(from, target)) /\ target.pid \in stops
      /\ \A c \in E : (c = from \/ Ahead(from, c)) /\ Ahead(c, target) => c.pid \notin stops
  BY DEF StopBehind
<1> DEFINE S == {c \in E : (c = from \/ Ahead(from, c)) /\ (c = target \/ Ahead(c, target))}
           Q == {x \in S \X S : Ahead(x[2], x[1])}
           link == Prevs(t)
<1>1. /\ \A f \in E : ~Ahead(f, f)
      /\ \A f, g, h \in E : Ahead(f, g) /\ Ahead(g, h) => Ahead(f, h)
  BY AheadOrder
<1>2. S \in SUBSET E /\ from \in S /\ target \in S
  BY <1>0
<1>3. \A c \in S : c.pid \in stops <=> c = target
  BY <1>0
<1>4. \A c, d \in S : <<c, d>> \in Q <=> Ahead(d, c)
  OBVIOUS
<1>5. ASSUME NEW c \in S \ {target}  PROVE \E d \in S : link[c.pid] = d.pid /\ Ahead(c, d)
  <2>1. c \in E /\ Ahead(c, target)
    OBVIOUS
  <2>2. PICK d \in E : Beside(E, d, c) /\ (d = target \/ Ahead(d, target))
    BY <1>0, <2>1, BehindExists
  <2>3. Ahead(c, d) /\ t[c.pid].qprev = d.pid
    BY <2>1, <2>2 DEF Beside, Links
  <2>4. c.pid \in DOMAIN t
    BY <2>1 DEF Pids
  <2>5. d \in S
    BY <1>0, <1>1, <2>2, <2>3
  <2> QED
    BY <2>3, <2>4, <2>5 DEF Prevs
<1>6. Pids(S) \subseteq DOMAIN link
  BY DEF Pids, Prevs
<1> HIDE DEF S, Q, link
<1>7. \A c, d, e \in S : <<c, d>> \in Q /\ <<d, e>> \in Q => <<c, e>> \in Q
  BY <1>1, <1>2, <1>4
<1>8. \A c \in S : <<c, c>> \notin Q
  BY <1>1, <1>2, <1>4
<1>9. \A c \in S \ {target} : \E d \in S : link[c.pid] = d.pid /\ <<d, c>> \in Q
  BY <1>4, <1>5
<1>10. Scanned(E, S, link, from, stops, target, Q)
  BY <1>2, <1>3, <1>6, <1>7, <1>8, <1>9 DEF Scanned
<1>11. Met(link, from.pid, stops) = {target.pid}
  BY <1>10, ScanIs, Zenon
<1> QED
  BY <1>11 DEF link

\* A scan along qnext ends at the last entry that is a stop.
LEMMA ScanNext ==
  ASSUME NEW E, Ordered(E), NEW t, Pids(E) \subseteq DOMAIN t, Links(t, E),
         NEW from \in E, NEW target \in E, from = target \/ Ahead(target, from),
         NEW stops, target.pid \in stops,
         \A c \in E : (c = from \/ Ahead(c, from)) /\ Ahead(target, c) => c.pid \notin stops
  PROVE  Met(Nexts(t), from.pid, stops) = {target.pid}
<1> DEFINE S == {c \in E : (c = from \/ Ahead(c, from)) /\ (c = target \/ Ahead(target, c))}
           Q == {x \in S \X S : Ahead(x[1], x[2])}
           link == Nexts(t)
<1>1. /\ \A f \in E : ~Ahead(f, f)
      /\ \A f, g, h \in E : Ahead(f, g) /\ Ahead(g, h) => Ahead(f, h)
  BY AheadOrder
<1>2. S \in SUBSET E /\ from \in S /\ target \in S
  OBVIOUS
<1>3. \A c \in S : c.pid \in stops <=> c = target
  OBVIOUS
<1>4. \A c, d \in S : <<c, d>> \in Q <=> Ahead(c, d)
  OBVIOUS
<1>5. ASSUME NEW c \in S \ {target}  PROVE \E d \in S : link[c.pid] = d.pid /\ Ahead(d, c)
  <2>1. c \in E /\ Ahead(target, c)
    OBVIOUS
  <2>2. PICK d \in E : Beside(E, c, d) /\ (d = target \/ Ahead(target, d))
    BY <2>1, AheadExists
  <2>3. Ahead(d, c) /\ t[c.pid].qnext = d.pid
    BY <2>1, <2>2 DEF Beside, Links
  <2>4. c.pid \in DOMAIN t
    BY <2>1 DEF Pids
  <2>5. d \in S
    BY <1>1, <2>2, <2>3
  <2> QED
    BY <2>3, <2>4, <2>5 DEF Nexts
<1>6. Pids(S) \subseteq DOMAIN link
  BY DEF Pids, Nexts
<1> HIDE DEF S, Q, link
<1>7. \A c, d, e \in S : <<c, d>> \in Q /\ <<d, e>> \in Q => <<c, e>> \in Q
  BY <1>1, <1>2, <1>4
<1>8. \A c \in S : <<c, c>> \notin Q
  BY <1>1, <1>2, <1>4
<1>9. \A c \in S \ {target} : \E d \in S : link[c.pid] = d.pid /\ <<d, c>> \in Q
  BY <1>4, <1>5
<1>10. Scanned(E, S, link, from, stops, target, Q)
  BY <1>2, <1>3, <1>6, <1>7, <1>8, <1>9 DEF Scanned
<1>11. Met(link, from.pid, stops) = {target.pid}
  BY <1>10, ScanIs, Zenon
<1> QED
  BY <1>11 DEF link
-----------------------------------------------------------------------------
(* The wait queue *)

Table == Waiting \cup {lhead, ltail}
Ends  == {HeadEntry(lhead), TailEntry(ltail)}

ListType(L) == Ordered(L) /\ L \subseteq [pid : Waiting, key : WaitPrios, age : Nat]

\* The table holds the list L and nothing has happened to the key of its tail.
Holds(t, L) ==
  /\ t \in [Table -> EntryType] /\ t[ltail].qkey = MAXINT
  /\ Represents(t, lhead, ltail, L)

LEMMA Numbers ==
  /\ Table \subseteq Int /\ lhead \notin Waiting /\ ltail \notin Waiting /\ lhead # ltail
  /\ \A p \in Waiting : p \in Nat /\ p < NPROC
  /\ \A k \in WaitPrios : k \in Int /\ MININT <= k /\ k <= MAXINT
  /\ HeadEntry(lhead).pid = lhead /\ HeadEntry(lhead).key < MININT /\ HeadEntry(lhead).key \in Int
  /\ TailEntry(ltail).pid = ltail /\ TailEntry(ltail).key > MAXINT /\ TailEntry(ltail).key \in Int
  /\ HeadEntry(lhead).age \in Nat /\ TailEntry(ltail).age \in Nat
  BY TableAssumption, WaitingAssumption DEF Table, lhead, ltail, HeadEntry, TailEntry

\* Head and tail are the ends of the line.
LEMMA LineIs ==
  ASSUME NEW L, ListType(L)
  PROVE  /\ Ordered(L \cup Ends) /\ Pids(L \cup Ends) \subseteq Table
         /\ \A e \in L : e.pid \in Waiting /\ e.pid < NPROC /\ e.key \in WaitPrios /\ e.age \in Nat
         /\ \A e \in L : Ahead(TailEntry(ltail), e) /\ Ahead(e, HeadEntry(lhead))
         /\ Ahead(TailEntry(ltail), HeadEntry(lhead))
<1>1. \A e \in L : e.pid \in Waiting /\ e.pid < NPROC /\ e.key \in WaitPrios /\ e.age \in Nat
  BY Numbers DEF ListType
<1>2. PICK h : h = HeadEntry(lhead)
  OBVIOUS
<1>3. PICK t : t = TailEntry(ltail)
  OBVIOUS
<1>4. IsFiniteSet(L \cup {h, t})
  <2>1. IsFiniteSet(L)
    BY DEF ListType, Ordered
  <2>2. IsFiniteSet(L \cup {h})
    BY <2>1, FS_AddElement
  <2>3. IsFiniteSet((L \cup {h}) \cup {t})
    BY <2>2, FS_AddElement
  <2>4. L \cup {h, t} = (L \cup {h}) \cup {t}
    OBVIOUS
  <2> QED
    BY <2>3, <2>4
<1>5. /\ h.pid = lhead /\ h.key < MININT /\ h.key \in Int /\ h.age \in Nat
      /\ t.pid = ltail /\ t.key > MAXINT /\ t.key \in Int /\ t.age \in Nat
  BY <1>2, <1>3, Numbers
<1>6. \A e \in L : Ahead(t, e) /\ Ahead(e, h) /\ e.key # t.key /\ e.key # h.key
  BY <1>1, <1>5, Numbers, TableAssumption DEF Ahead
<1>7. Ahead(t, h)
  BY <1>5, TableAssumption DEF Ahead
<1>8. Ordered(L \cup {h, t})
  <2>1. \A e \in L \cup {h, t} : e.key \in Int /\ e.age \in Nat
    BY <1>1, <1>5, Numbers
  <2>2. \A e, f \in L : e # f => e.pid # f.pid /\ (e.key = f.key => e.age # f.age)
    BY DEF ListType, Ordered
  <2>3. t.key # h.key /\ t.pid # h.pid /\ \A e \in L : e.pid # h.pid /\ e.pid # t.pid
    BY <1>1, <1>5, Numbers, TableAssumption
  <2> QED
    BY <1>4, <1>6, <2>1, <2>2, <2>3 DEF Ordered
<1>9. \A e \in L \cup {h, t} : e.pid \in Table
  BY <1>1, <1>5 DEF Table
<1> QED
  BY <1>1, <1>2, <1>3, <1>6, <1>7, <1>8, <1>9 DEF Ends, Pids

LEMMA RepresentsIs ==
  ASSUME NEW t, NEW L
  PROVE  Represents(t, lhead, ltail, L) <=> (\A e \in L : t[e.pid].qkey = e.key) /\ Links(t, L \cup Ends)
  BY DEF Represents, Ends

LEMMA ListPart ==
  ASSUME NEW L, ListType(L), NEW S \in SUBSET L
  PROVE  ListType(S)
  BY OrderedPart DEF ListType

\* dequeue() of an entry that is on the list, once or twice.
LEMMA HoldsDequeue ==
  ASSUME NEW L, ListType(L), NEW t, Holds(t, L), NEW e \in L
  PROVE  /\ Holds(QDequeue(t, e.pid), L \ {e})
         /\ QDequeue(QDequeue(t, e.pid), e.pid) = QDequeue(t, e.pid)
<1> DEFINE E == L \cup Ends
           u == QDequeue(t, e.pid)
<1>1. /\ Ordered(E) /\ Pids(E) \subseteq Table /\ e \in E
      /\ HeadEntry(lhead) \in E /\ TailEntry(ltail) \in E
      /\ Ahead(TailEntry(ltail), e) /\ Ahead(e, HeadEntry(lhead))
      /\ \A f \in L : f.pid \in Table
      /\ e \notin Ends
  <2>1. e \notin Ends
    BY LineIs, Numbers DEF Ends
  <2> QED
    BY <2>1, LineIs DEF Ends, Table
<1>2. t \in [Table -> EntryType] /\ t[ltail].qkey = MAXINT
      /\ Links(t, E) /\ \A f \in L : t[f.pid].qkey = f.key
  BY RepresentsIs DEF Holds
<1> HIDE DEF E
<1>3. PICK a \in E : Beside(E, a, e)
  BY <1>1, BehindExists
<1>4. PICK b \in E : Beside(E, e, b)
  BY <1>1, AheadExists
<1>5. /\ u \in [Table -> EntryType]
      /\ \A i \in Table : u[i].qkey = t[i].qkey
      /\ Links(u, E \ {e})
      /\ QDequeue(u, e.pid) = u
  <2>1. Dequeued(Table, t, E, e, QDequeue(t, e.pid))
    BY <1>1, <1>2, <1>3, <1>4, LinksDequeue, Zenon
  <2> QED
    BY <2>1 DEF Dequeued
<1>6. E \ {e} = (L \ {e}) \cup Ends
  BY <1>1 DEF E
<1>7. ltail \in Table
  BY DEF Table
<1> HIDE DEF u
<1>8. (\A f \in L \ {e} : u[f.pid].qkey = f.key) /\ Links(u, (L \ {e}) \cup Ends)
  BY <1>1, <1>2, <1>5, <1>6
<1>9. Holds(u, L \ {e})
  BY <1>2, <1>5, <1>7, <1>8, RepresentsIs DEF Holds
<1> QED
  BY <1>5, <1>9 DEF u
-----------------------------------------------------------------------------
(* Joining and leaving *)

\* The ages of those who are left when others leave keep their order.
LEMMA HoldsRemove ==
  ASSUME NEW L, ListType(L), NEW S, NEW t, Holds(t, {e \in L : e.pid \notin S})
  PROVE  ListType(Remove(L, S)) /\ Holds(t, Remove(L, S))
<1> DEFINE K == {e \in L : e.pid \notin S}
           younger(e) == {f \in K : f.key = e.key /\ f.age < e.age}
           after == [e \in K |-> Cardinality(younger(e))]
           T == {[pid |-> e.pid, key |-> e.key, age |-> after[e]] : e \in K}
<1>1. Remove(L, S) = T
  BY Zenon DEF Remove
<1>2. IsFiniteSet(K) /\ \A e \in K : e.pid \in Waiting /\ e.key \in WaitPrios /\ e.age \in Nat
  BY FS_Subset, LineIs DEF ListType, Ordered
<1>3. \A e \in K : younger(e) \in SUBSET K /\ IsFiniteSet(younger(e))
  BY <1>2, FS_Subset
<1>4. \A e \in K : after[e] \in Nat /\ after[e] = Cardinality(younger(e))
  BY <1>3, FS_CardinalityType
<1>5. ASSUME NEW e \in K, NEW f \in K, e.key = f.key, e.age < f.age
      PROVE  after[e] < after[f]
  <2>1. /\ younger(e) \in SUBSET younger(f)
        /\ e \in younger(f) /\ e \notin younger(e)
    BY <1>2, <1>5
  <2> HIDE DEF younger, after, K
  <2>2. younger(e) # younger(f)
    BY <2>1
  <2>3. Cardinality(younger(e)) <= Cardinality(younger(f))
    BY <1>3, <2>1, FS_Subset
  <2>4. Cardinality(younger(e)) # Cardinality(younger(f))
    BY <1>3, <2>1, <2>2, FS_Subset
  <2> QED
    BY <1>4, <2>3, <2>4
<1> HIDE DEF younger, after, K
<1>6. \A e, f \in K : e.key = f.key => (e.age > f.age <=> after[e] > after[f])
  <2> SUFFICES ASSUME NEW e \in K, NEW f \in K, e.key = f.key
               PROVE  e.age > f.age <=> after[e] > after[f]
    OBVIOUS
  <2>1. e.age \in Nat /\ f.age \in Nat /\ after[e] \in Nat /\ after[f] \in Nat
    BY <1>2, <1>4
  <2>2. CASE e.age < f.age
    BY <1>5, <2>1, <2>2
  <2>3. CASE f.age < e.age
    BY <1>5, <2>1, <2>3
  <2>4. CASE e.age = f.age
    <3>1. e = f
      BY <2>4 DEF ListType, Ordered, K
    <3> QED
      BY <2>1, <3>1
  <2> QED
    BY <2>1, <2>2, <2>3, <2>4
<1>7. \A c \in Ends : \A e \in K : c.key # e.key
  BY <1>2, Numbers, TableAssumption DEF Ends
<1>8. Links(t, K \cup Ends) <=> Links(t, T \cup Ends)
  <2>1. SameOrder(K, after)
    BY <1>6 DEF SameOrder
  <2>2. Links(t, K \cup Ends) <=> Links(t, Copies(K, after) \cup Ends)
    BY <2>1, <1>7, LinksAged
  <2> QED
    BY <2>2 DEF Copies
<1>9. T \subseteq [pid : Waiting, key : WaitPrios, age : Nat]
  BY <1>2, <1>4
<1>10. ListType(T)
  BY <1>1, <1>9, OrderedRemove DEF ListType
<1>11. t \in [Table -> EntryType] /\ t[ltail].qkey = MAXINT
       /\ Links(t, K \cup Ends) /\ \A f \in K : t[f.pid].qkey = f.key
  BY RepresentsIs DEF Holds, K
<1>12. \A f \in T : t[f.pid].qkey = f.key
  BY <1>11
<1> HIDE DEF T
<1>13. Holds(t, T)
  BY <1>8, <1>11, <1>12, RepresentsIs DEF Holds
<1> QED
  BY <1>1, <1>10, <1>13

\* insert() of a process that is not on the list: its loop ends, and it ends in
\* front of the entries whose key is not below its own.
LEMMA HoldsInsert ==
  ASSUME NEW L, ListType(L), NEW t, Holds(t, L), NEW p \in Waiting, p \notin Pids(L), NEW k \in WaitPrios
  PROVE  /\ ListType(Insert(L, p, k))
         /\ \E u : QInsert(t, p, lhead, k) = {u} /\ Holds(u, Insert(L, p, k))
<1> DEFINE older == [e \in L |-> IF e.key = k THEN e.age + 1 ELSE e.age + 0]
           K == Copies(L, older)
           x == [pid |-> p, key |-> k, age |-> 0]
           E == K \cup Ends
<1>1. Insert(L, p, k) = K \cup {x}
  <2>1. K = {[pid |-> e.pid, key |-> e.key, age |-> IF e.key = k THEN e.age + 1 ELSE e.age + 0] : e \in L}
    BY DEF Copies
  <2> QED
    BY <2>1, InsertIs
<1>2. \A e \in L : /\ e.pid \in Waiting /\ e.key \in WaitPrios /\ e.age \in Nat
                  /\ older[e] = IF e.key = k THEN e.age + 1 ELSE e.age
  <2>1. \A e \in L : e.pid \in Waiting /\ e.key \in WaitPrios /\ e.age \in Nat
    BY LineIs
  <2>2. \A e \in L : older[e] = IF e.key = k THEN e.age + 1 ELSE e.age
    BY <2>1
  <2> QED
    BY <2>1, <2>2
<1>3. \A c \in K : /\ c.pid \in Pids(L) /\ c.pid \in Waiting /\ c.key \in WaitPrios /\ c.age \in Nat
                  /\ c \in [pid : Waiting, key : WaitPrios, age : Nat]
                  /\ (c.key = k => c.age >= 1)
  BY <1>2 DEF Copies, Pids
<1>4. SameOrder(L, older)
  BY <1>2 DEF SameOrder
<1>5. t \in [Table -> EntryType] /\ t[ltail].qkey = MAXINT
      /\ Links(t, L \cup Ends) /\ \A f \in L : t[f.pid].qkey = f.key
  BY RepresentsIs DEF Holds
<1>6. Links(t, E)
  <2>1. \A c \in Ends : \A e \in L : c.key # e.key
    BY <1>2, Numbers, TableAssumption DEF Ends
  <2> HIDE DEF older
  <2> QED
    BY <1>4, <1>5, <2>1, LinksAged
<1>7. \A c \in K : t[c.pid].qkey = c.key
  BY <1>5 DEF Copies
<1>8. x \in [pid : Waiting, key : WaitPrios, age : Nat] /\ x.pid = p /\ x.key = k /\ x.age = 0
  OBVIOUS
<1> HIDE DEF K, x, older
<1>9. ListType(K \cup {x})
  <2>1. Ordered(Insert(L, p, k))
    BY Numbers, OrderedInsert DEF ListType
  <2> QED
    BY <1>1, <1>3, <1>8, <2>1 DEF ListType
<1>10. /\ Ordered((K \cup {x}) \cup Ends) /\ Pids((K \cup {x}) \cup Ends) \subseteq Table
       /\ \A e \in K \cup {x} : Ahead(TailEntry(ltail), e) /\ Ahead(e, HeadEntry(lhead))
       /\ Ahead(TailEntry(ltail), HeadEntry(lhead))
  BY <1>9, LineIs
<1>11. x \notin E
  BY <1>3, <1>8, Numbers DEF Ends
<1>12. (K \cup {x}) \cup Ends = E \cup {x}
  OBVIOUS
<1>13. PICK h : h = HeadEntry(lhead)
  OBVIOUS
<1>14. PICK l : l = TailEntry(ltail)
  OBVIOUS
<1>15. /\ h \in E /\ l \in E /\ Ahead(l, h)
       /\ h.pid = lhead /\ h.key < k /\ l.pid = ltail /\ l.key > k
       /\ \A c \in E : c = h \/ c = l \/ c \in K
       /\ \A c \in E : c = h \/ Ahead(c, h)
  BY <1>10, <1>13, <1>14, Numbers, TableAssumption DEF Ends
<1>16. \A c \in E : c.pid \in Table /\ c.key \in Int /\ c.age \in Nat
  BY <1>3, Numbers DEF Ends, Table
<1>17. \A c \in E : c.key = k => c.age >= 1
  BY <1>3, <1>15, <1>16, Numbers
<1>18. \A c \in E \ {h} : t[c.pid].qkey >= k <=> c.key >= k
  <2> SUFFICES ASSUME NEW c \in E, c # h  PROVE t[c.pid].qkey >= k <=> c.key >= k
    OBVIOUS
  <2>1. CASE c \in K
    BY <1>7, <2>1
  <2>2. CASE c = l
    BY <1>5, <1>15, <1>16, <2>2, Numbers, TableAssumption
  <2> QED
    BY <1>15, <2>1, <2>2
<1> DEFINE S == {c \in E : c.key >= k}
<1>19. Ordered(E) /\ Pids(E) \subseteq Table
  <2>1. Pids(E) \subseteq Table
    BY <1>16 DEF Pids
  <2>2. E \subseteq E \cup {x}
    OBVIOUS
  <2> QED
    BY <1>10, <1>12, <2>1, <2>2, OrderedPart
<1> HIDE DEF E
<1>20. /\ \A f, g, i \in E : Ahead(f, g) /\ Ahead(g, i) => Ahead(f, i)
       /\ \A f, g \in E : f = g \/ Ahead(f, g) \/ Ahead(g, f)
       /\ \A f, g \in E : Ahead(f, g) => ~Ahead(g, f)
       /\ \A f \in E : ~Ahead(f, f)
  BY <1>19, AheadOrder
<1>21. PICK b \in S : \A c \in S \ {b} : Ahead(c, b)
  <2>1. S # {} /\ S \in SUBSET E
    BY <1>15, <1>16, Numbers
  <2> HIDE DEF S
  <2> QED
    BY <1>19, <2>1, HindmostExists
<1>22. b \in E /\ b.key >= k /\ b # h /\ Ahead(b, h)
  BY <1>15, <1>16, <1>21, Numbers
<1>23. PICK a \in E : Beside(E, a, b)
  BY <1>19, <1>15, <1>22, BehindExists
<1>24. PICK f \in E : Beside(E, h, f)
  BY <1>19, <1>15, AheadExists
<1>25. Ahead(b, a) /\ a.key < k
  <2>1. Ahead(b, a)
    BY <1>23 DEF Beside
  <2>2. a \notin S
    BY <1>20, <1>21, <1>22, <2>1
  <2> QED
    BY <1>16, <2>1, <2>2, Numbers
<1>26. Met(Nexts(t), t[h.pid].qnext, NotBelow(t, k)) = {b.pid}
  <2> DEFINE stops == NotBelow(t, k)
  <2>1. t[h.pid].qnext = f.pid
    BY <1>6, <1>15, <1>24 DEF Links, E
  <2>2. f # h /\ (f = b \/ Ahead(b, f))
    BY <1>15, <1>20, <1>22, <1>24 DEF Beside
  <2>3. \A c \in E \ {h} : c.pid \in stops <=> c.key >= k
    BY <1>5, <1>16, <1>18 DEF NotBelow
  <2>4. b.pid \in stops
    BY <1>22, <2>3
  <2>5. ASSUME NEW c \in E, c = f \/ Ahead(c, f), Ahead(b, c)  PROVE c.pid \notin stops
    <3>1. c # h
      BY <1>15, <1>20, <2>2, <2>5
    <3>2. c \notin S
      BY <1>20, <1>21, <1>22, <2>5
    <3> QED
      BY <2>3, <3>1, <3>2
  <2> HIDE DEF stops
  <2>6. Links(t, E) /\ DOMAIN t = Table
    BY <1>5, <1>6 DEF E
  <2>7. Met(Nexts(t), f.pid, stops) = {b.pid}
    BY <1>19, <1>22, <2>2, <2>4, <2>5, <2>6, ScanNext
  <2> QED
    BY <2>1, <2>7 DEF stops
<1>27. t[b.pid].qprev = a.pid
  BY <1>6, <1>22, <1>23 DEF Links, E
<1>28. QInsert(t, p, lhead, k) = {PutIn(t, p, k, a.pid, b.pid)}
  BY <1>15, <1>26, <1>27 DEF QInsert, PutIn
<1>29. Ahead(x, a) /\ Ahead(b, x)
  BY <1>8, <1>16, <1>17, <1>22, <1>25, Numbers DEF Ahead
<1>30. ~Ahead(x, x)
  BY <1>8, Numbers DEF Ahead
<1>31. ASSUME NEW c \in E  PROVE IF c.key >= k THEN Ahead(c, x) ELSE Ahead(x, c) /\ ~Ahead(c, x)
  BY <1>8, <1>16, <1>17, Numbers DEF Ahead
<1>32. Beside(E \cup {x}, a, x)
  <2>1. ASSUME NEW c \in E, Ahead(x, c), Ahead(c, a)  PROVE FALSE
    <3>1. ~Ahead(c, x)
      BY <1>8, <1>16, <2>1, Numbers DEF Ahead
    <3>2. c.key < k
      BY <1>16, <1>31, <3>1, Numbers
    <3>3. Ahead(b, c)
      BY <1>16, <1>22, <3>2, Numbers DEF Ahead
    <3> QED
      BY <1>23, <2>1, <3>3 DEF Beside
  <2> QED
    BY <1>29, <1>30, <2>1 DEF Beside
<1>33. Beside(E \cup {x}, x, b)
  <2>1. ASSUME NEW c \in E, Ahead(b, c), Ahead(c, x)  PROVE FALSE
    <3>1. c.key >= k
      BY <1>31, <2>1
    <3> QED
      BY <1>20, <1>21, <1>22, <2>1, <3>1
  <2> QED
    BY <1>29, <1>30, <2>1 DEF Beside
<1> DEFINE u == PutIn(t, x.pid, x.key, a.pid, b.pid)
<1>34. Inserted(Table, t, E, x, u)
  <2>1. Ordered(E \cup {x}) /\ Pids(E \cup {x}) \subseteq Table /\ x \notin E /\ x.key \in Int
    BY <1>8, <1>10, <1>11, <1>12, Numbers DEF E
  <2>2. Links(t, E) /\ t \in [Table -> EntryType] /\ Table \subseteq Int
    BY <1>5, <1>6, Numbers DEF E
  <2>3. b \in E
    BY <1>22
  <2> HIDE DEF u
  <2> QED
    BY <1>32, <1>33, <2>1, <2>2, <2>3, LinksInsert, Zenon DEF u
<1> HIDE DEF u
<1>35. /\ u \in [Table -> EntryType] /\ \A i \in Table : u[i].qkey = IF i = p THEN k ELSE t[i].qkey
       /\ Links(u, (K \cup {x}) \cup Ends)
  BY <1>8, <1>12, <1>34 DEF Inserted, E
<1>36. \A c \in K \cup {x} : u[c.pid].qkey = c.key
  BY <1>3, <1>7, <1>8, <1>35 DEF Table
<1>37. u[ltail].qkey = MAXINT
  BY <1>5, <1>35, Numbers DEF Table
<1>38. Holds(u, K \cup {x})
  BY <1>35, <1>36, <1>37, RepresentsIs DEF Holds
<1> QED
  BY <1>1, <1>8, <1>9, <1>28, <1>38 DEF u
-----------------------------------------------------------------------------
(* Whom the loops are to admit *)

ReadersOf(L, T) == {e \in L : T[e.pid] = "READ"}
WritersOf(L, T) == L \ ReadersOf(L, T)

Fits(w, r) == r.key = w.key /\ RW!Grace(w.pid, r.pid)

FavouredOf(S, w)  == {e \in S : \A x \in S : x = e \/ Ahead(x, e) => Fits(w, x)}
BeforeOf(S, t, w) == IF t.key > w.key THEN {x \in S : Ahead(x, w)} ELSE {}

AfterWriter(R, t) == IF FavouredOf(R, t) = {} THEN {t} ELSE FavouredOf(R, t)
AfterReader(R, W, t) ==
  {r \in R : \A w \in W : IsLast(W, w) =>
     r \in BeforeOf(R, t, w) \cup FavouredOf(R \ BeforeOf(R, t, w), w)}

\* Admitted of RWLock for the queue L of processes that asked for T.
Goal(L, T) ==
  LET t == CHOOSE t \in L : IsLast(L, t)
  IN  IF t \in WritersOf(L, T) THEN AfterWriter(ReadersOf(L, T), t)
      ELSE AfterReader(ReadersOf(L, T), WritersOf(L, T), t)

LEMMA SameOrderThere ==
  /\ \A e, f : RW!Ahead(e, f) <=> Ahead(e, f)
  /\ \A L, e : RW!IsLast(L, e) <=> IsLast(L, e)
  BY DEF RW!Ahead, Ahead, RW!IsLast, IsLast

FirstThere(L) == CHOOSE t \in L : RW!IsLast(L, t)

LEMMA GoalIs ==
  ASSUME ListType(list)
  PROVE  RW!Admitted(0) = Goal(list, type)
<1>1. RW!Readers(0) = ReadersOf(list, type)
  <2>1. \A e \in list : e.pid \in Waiting
    BY LineIs
  <2> QED
    BY <2>1 DEF RW!Readers, ReadersOf
<1>2. RW!Writers(0) = WritersOf(list, type)
  BY <1>1 DEF RW!Writers, WritersOf
<1>3. \A S, w : RW!Favoured(S, w) = FavouredOf(S, w)
  BY SameOrderThere DEF RW!Favoured, RW!Prefix, FavouredOf, Fits
<1>4. \A t : RW!WriterFirst(0, t) = AfterWriter(ReadersOf(list, type), t)
  BY <1>1, <1>3 DEF RW!WriterFirst, AfterWriter
<1>5. \A t : RW!ReaderFirst(0, t) = AfterReader(ReadersOf(list, type), WritersOf(list, type), t)
  <2> SUFFICES ASSUME NEW t
               PROVE  RW!ReaderFirst(0, t) = AfterReader(ReadersOf(list, type), WritersOf(list, type), t)
    OBVIOUS
  <2>1. \A w : BeforeOf(ReadersOf(list, type), t, w)
               = IF t.key > w.key THEN {x \in RW!Readers(0) : RW!Ahead(x, w)} ELSE {}
    BY <1>1, SameOrderThere DEF BeforeOf
  <2> QED
    BY <1>1, <1>2, <1>3, <2>1, SameOrderThere DEF RW!ReaderFirst, AfterReader
<1>6. PICK t : t = CHOOSE u \in list : IsLast(list, u)
  OBVIOUS
<1>7. FirstThere(list) = t
  BY <1>6, SameOrderThere DEF FirstThere
<1>8. FirstThere([l \in {0} |-> list][0]) = t
  <2>1. [l \in {0} |-> list][0] = list
    OBVIOUS
  <2> QED
    BY <1>7, <2>1
<1>9. RW!Admitted(0) = IF t \in RW!Writers(0) THEN RW!WriterFirst(0, t) ELSE RW!ReaderFirst(0, t)
  <2>1. RW!Admitted(0) = LET u == FirstThere([l \in {0} |-> list][0]) IN
                           IF u \in RW!Writers(0) THEN RW!WriterFirst(0, u) ELSE RW!ReaderFirst(0, u)
    BY Zenon DEF RW!Admitted, FirstThere
  <2> HIDE DEF FirstThere
  <2> QED
    BY <1>8, <2>1
<1>10. Goal(list, type) = IF t \in WritersOf(list, type) THEN AfterWriter(ReadersOf(list, type), t)
                          ELSE AfterReader(ReadersOf(list, type), WritersOf(list, type), t)
  BY <1>6 DEF Goal
<1> QED
  BY <1>2, <1>4, <1>5, <1>9, <1>10

LEMMA LastIsOne ==
  ASSUME NEW L, Ordered(L), NEW S \in SUBSET L, NEW e, NEW f, IsLast(S, e), IsLast(S, f)
  PROVE  e = f
  BY AheadOrder DEF IsLast

LEMMA GoalFirst ==
  ASSUME NEW L, ListType(L), NEW T, NEW t, IsLast(L, t)
  PROVE  Goal(L, T) = IF t \in WritersOf(L, T) THEN AfterWriter(ReadersOf(L, T), t)
                      ELSE AfterReader(ReadersOf(L, T), WritersOf(L, T), t)
<1>1. PICK u : u = CHOOSE e \in L : IsLast(L, e)
  OBVIOUS
<1>2. t \in L
  BY DEF IsLast
<1>3. u \in L /\ IsLast(L, u)
  BY <1>1, <1>2
<1>4. u = t
  BY <1>3, LastIsOne DEF ListType
<1>5. Goal(L, T) = IF u \in WritersOf(L, T) THEN AfterWriter(ReadersOf(L, T), u)
                   ELSE AfterReader(ReadersOf(L, T), WritersOf(L, T), u)
  BY <1>1 DEF Goal
<1> QED
  BY <1>4, <1>5

\* The first of S decides whether anybody is favoured.
LEMMA FavouredFirst ==
  ASSUME NEW L, Ordered(L), NEW S \in SUBSET L, NEW r, IsLast(S, r), NEW w
  PROVE  IF Fits(w, r) THEN r \in FavouredOf(S, w) ELSE FavouredOf(S, w) = {}
<1>1. r \in S /\ \A x \in S : x = r \/ Ahead(r, x)
  BY DEF IsLast
<1>2. \A x \in S : ~Ahead(x, r)
  BY <1>1, AheadOrder
<1> QED
  BY <1>1, <1>2 DEF FavouredOf

LEMMA AfterReaderIs ==
  ASSUME NEW L, Ordered(L), NEW R, NEW W \in SUBSET L, NEW t, NEW w, IsLast(W, w)
  PROVE  AfterReader(R, W, t) = BeforeOf(R, t, w) \cup FavouredOf(R \ BeforeOf(R, t, w), w)
<1>1. w \in W /\ \A v \in W : IsLast(W, v) => v = w
  BY LastIsOne DEF IsLast
<1>2. BeforeOf(R, t, w) \subseteq R
  BY DEF BeforeOf
<1>3. FavouredOf(R \ BeforeOf(R, t, w), w) \subseteq R
  BY DEF FavouredOf
<1> QED
  BY <1>1, <1>2, <1>3 DEF AfterReader
-----------------------------------------------------------------------------
(* What the loops find in the links *)

\* The entry in front of the tail.
LEMMA FrontLink ==
  ASSUME NEW L, ListType(L), NEW t, Holds(t, L)
  PROVE  /\ L = {} => t[ltail].qprev = lhead
         /\ \A e : IsLast(L, e) => e \in L /\ t[ltail].qprev = e.pid /\ t[ltail].qprev < NPROC
<1>1. Links(t, L \cup Ends)
  BY RepresentsIs DEF Holds
<1>2. PICK h : h = HeadEntry(lhead)
  OBVIOUS
<1>3. PICK l : l = TailEntry(ltail)
  OBVIOUS
<1>4. /\ h \in L \cup Ends /\ l \in L \cup Ends /\ h.pid = lhead /\ l.pid = ltail
      /\ Ahead(l, h) /\ \A e \in L : Ahead(l, e) /\ Ahead(e, h) /\ e.pid < NPROC
      /\ \A e \in L \cup Ends : e \in L \/ e = h \/ e = l
  BY <1>2, <1>3, Numbers, LineIs DEF Ends
<1>5. Ordered(L \cup Ends)
  BY LineIs
<1>6. /\ \A f, g \in L \cup Ends : Ahead(f, g) => ~Ahead(g, f)
      /\ \A f \in L \cup Ends : ~Ahead(f, f)
  BY <1>5, AheadOrder
<1>7. ASSUME L = {}  PROVE t[ltail].qprev = lhead
  <2>1. Beside(L \cup Ends, h, l)
    BY <1>4, <1>6, <1>7 DEF Beside
  <2> QED
    BY <1>1, <1>4, <2>1 DEF Links
<1>8. ASSUME NEW e, IsLast(L, e)  PROVE e \in L /\ t[ltail].qprev = e.pid /\ t[ltail].qprev < NPROC
  <2>1. e \in L /\ \A f \in L : f = e \/ Ahead(e, f)
    BY <1>8 DEF IsLast
  <2>2. \A f \in L : ~Ahead(f, e)
    BY <1>6, <2>1
  <2>3. Beside(L \cup Ends, e, l)
    BY <1>4, <1>6, <2>1, <2>2 DEF Beside
  <2>4. t[l.pid].qprev = e.pid
    BY <1>1, <1>4, <2>1, <2>3 DEF Links
  <2> QED
    BY <1>4, <2>1, <2>4
<1> QED
  BY <1>7, <1>8

\* The entry behind another.
LEMMA NextLink ==
  ASSUME NEW L, ListType(L), NEW t, Holds(t, L), NEW e \in L
  PROVE  \E d \in L \cup {HeadEntry(lhead)} :
           t[e.pid].qprev = d.pid /\ \A f \in L : Ahead(e, f) => f = d \/ Ahead(d, f)
<1>1. Links(t, L \cup Ends)
  BY RepresentsIs DEF Holds
<1>2. PICK h : h = HeadEntry(lhead)
  OBVIOUS
<1>3. PICK l : l = TailEntry(ltail)
  OBVIOUS
<1>4. /\ h \in L \cup Ends /\ l \in L \cup Ends
      /\ \A f \in L : Ahead(l, f) /\ Ahead(f, h)
      /\ \A f \in L \cup Ends : f \in L \/ f = h \/ f = l
  BY <1>2, <1>3, LineIs DEF Ends
<1>5. Ordered(L \cup Ends)
  BY LineIs
<1>6. /\ \A f, g \in L \cup Ends : Ahead(f, g) => ~Ahead(g, f)
      /\ \A f, g \in L \cup Ends : f = g \/ Ahead(f, g) \/ Ahead(g, f)
      /\ \A f \in L \cup Ends : ~Ahead(f, f)
  BY <1>5, AheadOrder
<1>7. PICK d \in L \cup Ends : Beside(L \cup Ends, d, e)
  BY <1>4, <1>5, BehindExists
<1>8. d # l
  BY <1>4, <1>6, <1>7 DEF Beside
<1>9. t[e.pid].qprev = d.pid
  BY <1>1, <1>7 DEF Links
<1>10. ASSUME NEW f \in L, Ahead(e, f)  PROVE f = d \/ Ahead(d, f)
  BY <1>6, <1>7, <1>10 DEF Beside
<1> QED
  BY <1>2, <1>4, <1>8, <1>9, <1>10

OfType(L, k) == {e \in L : type[e.pid] = k}

\* None that asked for k is ahead of from.
BeginsAhead(L, k, from) == \A e \in OfType(L, k) : e = from \/ Ahead(from, e)

\* Find() ends at the first entry that asked for k, if none is ahead of where it
\* begins.
Finds(L, t, k, from) ==
  /\ \A r : IsLast(OfType(L, k), r) => Find(t, k, from.pid) = {r.pid}
  /\ OfType(L, k) = {} => Find(t, k, from.pid) = {lhead}

LEMMA FindIs ==
  ASSUME NEW L, ListType(L), NEW t, Holds(t, L), NEW k,
         NEW from \in L \cup {HeadEntry(lhead)}, BeginsAhead(L, k, from)
  PROVE  Finds(L, t, k, from)
<1> DEFINE stops == {i \in DOMAIN t : i >= NPROC \/ type[i] = k}
           E == L \cup Ends
<1>1. t \in [Table -> EntryType] /\ Links(t, E)
  BY RepresentsIs DEF Holds
<1>2. PICK h : h = HeadEntry(lhead)
  OBVIOUS
<1>3. PICK l : l = TailEntry(ltail)
  OBVIOUS
<1>4. /\ h \in E /\ l \in E /\ from \in E /\ from # l
      /\ \A f \in L : Ahead(l, f) /\ Ahead(f, h) /\ f.pid \in Table /\ f.pid < NPROC /\ f.pid \in Int
      /\ Ahead(l, h) /\ h.pid = lhead /\ lhead \in Table /\ lhead >= NPROC
      /\ \A f \in E : f \in L \/ f = h \/ f = l
      /\ Ordered(E) /\ Pids(E) \subseteq Table
  <2>1. \A f \in L : Ahead(l, f) /\ Ahead(f, h) /\ f.pid \in Table /\ f.pid < NPROC /\ f.pid \in Int
    BY <1>2, <1>3, LineIs, Numbers DEF Table
  <2>2. Ahead(l, h) /\ h.pid = lhead /\ Ordered(E) /\ Pids(E) \subseteq Table
    BY <1>2, <1>3, LineIs, Numbers
  <2>3. lhead \in Table /\ lhead >= NPROC
    BY TableAssumption DEF lhead, Table
  <2>4. ~Ahead(l, l)
    BY <2>2, <1>3, AheadOrder DEF Ends
  <2> QED
    BY <1>2, <1>3, <2>1, <2>2, <2>3, <2>4 DEF Ends
<1>5. \A e \in L : e.pid \in stops <=> type[e.pid] = k
  BY <1>1, <1>4, TableAssumption
<1>6. h.pid \in stops
  BY <1>1, <1>4
<1>7. Find(t, k, from.pid) = Met(Prevs(t), from.pid, stops)
  BY DEF Find
<1> HIDE DEF stops, E
<1>8. /\ \A f, g, i \in E : Ahead(f, g) /\ Ahead(g, i) => Ahead(f, i)
      /\ \A f, g \in E : Ahead(f, g) => ~Ahead(g, f)
      /\ \A f \in E : ~Ahead(f, f)
  BY <1>4, AheadOrder
<1>9. L \subseteq E
  BY DEF E
<1>10. \A c \in E : c = from \/ Ahead(from, c) => c \in L \/ c = h
  BY <1>4, <1>8, <1>9
<1>11. ASSUME NEW r, IsLast(OfType(L, k), r)  PROVE Met(Prevs(t), from.pid, stops) = {r.pid}
  <2>1. /\ r \in L /\ type[r.pid] = k /\ (r = from \/ Ahead(from, r)) /\ r \in E
        /\ \A e \in L : type[e.pid] = k => e = r \/ Ahead(r, e)
    BY <1>9, <1>11 DEF IsLast, OfType, BeginsAhead
  <2>2. ASSUME NEW c \in E, c = from \/ Ahead(from, c), Ahead(c, r)  PROVE c.pid \notin stops
    <3>1. c \in L
      BY <1>4, <1>8, <1>9, <1>10, <2>1, <2>2
    <3> QED
      BY <1>5, <1>8, <1>9, <2>1, <2>2, <3>1
  <2>3. r.pid \in stops
    BY <1>5, <2>1
  <2>4. Links(t, E) /\ DOMAIN t = Table
    BY <1>1 DEF E
  <2>5. StopBehind(E, from, r, stops)
    BY <1>4, <2>1, <2>2, <2>3 DEF StopBehind
  <2> QED
    BY <1>4, <2>4, <2>5, ScanPrev
<1>12. ASSUME OfType(L, k) = {}  PROVE Met(Prevs(t), from.pid, stops) = {h.pid}
  <2>1. from = h \/ Ahead(from, h)
    BY <1>2, <1>4
  <2>2. ASSUME NEW c \in E, c = from \/ Ahead(from, c), Ahead(c, h)  PROVE c.pid \notin stops
    <3>1. c \in L
      BY <1>4, <1>8, <1>10, <2>2
    <3> QED
      BY <1>5, <1>12, <3>1 DEF OfType
  <2>3. Links(t, E) /\ DOMAIN t = Table
    BY <1>1 DEF E
  <2>4. StopBehind(E, from, h, stops)
    BY <1>4, <1>6, <2>1, <2>2 DEF StopBehind
  <2> QED
    BY <1>4, <2>3, <2>4, ScanPrev
<1> QED
  BY <1>4, <1>7, <1>11, <1>12 DEF Finds
-----------------------------------------------------------------------------
(* The invariant *)

Stages == {"idle", "writer", "reader", "all", "before", "favoured", "done"}

Rs == ReadersOf(list, type)
Ws == WritersOf(list, type)
Taken == {e \in list : e.pid \in admitted}

\* m is what release() remembers of the entry e.
Is(m, e) == m = [id |-> e.pid, priority |-> e.key]

\* The links are the list without those that have been taken from it.
Basics ==
  /\ ListType(list) /\ Holds(q, Left)
  /\ type \in [Waiting -> {"EMPTY", "READ", "WRITE"}]
  /\ \A e \in list : type[e.pid] \in {"READ", "WRITE"}
  /\ admitted \subseteq Pids(list)
  /\ pc \in Stages /\ (pc = "idle" => admitted = {})

\* In front of each loop: who is first, what the scan for the others has found.
AtWriter ==
  /\ admitted = {}
  /\ \E t \in Ws : IsLast(list, t) /\ Is(writer, t)
  /\ Rs = {} => reader = None
  /\ \A r \in Rs : IsLast(Rs, r) => Is(reader, r) /\ prev = r.pid

AtReader ==
  /\ admitted = {}
  /\ \E t \in Rs : IsLast(list, t) /\ Is(reader, t)
  /\ Ws = {} => writer = None
  /\ \A w \in Ws : IsLast(Ws, w) => Is(writer, w) /\ prev = w.pid

\* The loops that take the entry in front of the tail.
AtAll == Ws = {} /\ list # {} /\ prev = q[ltail].qprev

AtBefore ==
  /\ prev = q[ltail].qprev
  /\ \E t \in Rs, w \in Ws :
       /\ IsLast(list, t) /\ IsLast(Ws, w) /\ Is(writer, w) /\ t.key > w.key
       /\ Taken \subseteq BeforeOf(Rs, t, w)

\* The loop that takes one reader after the other: those taken before it, and of
\* the rest only favoured ones; prev and reader are at the first that is left.
AtFavoured ==
  \E w \in Ws, B \in SUBSET Rs :
    /\ IsLast(Ws, w) /\ Is(writer, w)
    /\ Goal(list, type) = B \cup FavouredOf(Rs \ B, w)
    /\ B \subseteq Taken /\ Taken \ B \subseteq FavouredOf(Rs \ B, w)
    /\ Rs \ Taken = {} => prev = lhead
    /\ \A r \in Rs \ Taken : IsLast(Rs \ Taken, r) => Is(reader, r) /\ prev < NPROC

AtDone == admitted = Pids(Goal(list, type))

Progress ==
  /\ pc = "writer" => AtWriter
  /\ pc = "reader" => AtReader
  /\ pc = "all" => AtAll
  /\ pc = "before" => AtBefore
  /\ pc = "favoured" => AtFavoured
  /\ pc = "done" => AtDone

IInv == Basics /\ Progress

LEMMA BasicFacts ==
  ASSUME Basics
  PROVE  /\ Rs \subseteq list /\ Ws \subseteq list /\ Rs \cap Ws = {} /\ Rs \cup Ws = list
         /\ Rs = OfType(list, "READ") /\ Ws = OfType(list, "WRITE")
         /\ Left \subseteq list /\ Taken \subseteq list /\ Left = list \ Taken
         /\ OfType(Left, "READ") = Rs \ Taken
         /\ ListType(Left) /\ Ordered(list) /\ Holds(q, Left)
         /\ (admitted = {} => Left = list /\ Taken = {})
<1>1. /\ Rs = OfType(list, "READ") /\ Ws = OfType(list, "WRITE")
      /\ Rs \cup Ws = list /\ Rs \cap Ws = {}
  BY DEF Basics, Rs, Ws, ReadersOf, WritersOf, OfType
<1>2. Left \subseteq list /\ Taken \subseteq list /\ Left = list \ Taken
  BY DEF Left, Taken
<1>3. OfType(Left, "READ") = Rs \ Taken
  BY <1>1, <1>2 DEF OfType
<1>4. ListType(Left)
  BY <1>2, ListPart DEF Basics
<1>5. admitted = {} => Left = list /\ Taken = {}
  BY DEF Left, Taken
<1> QED
  BY <1>1, <1>2, <1>3, <1>4, <1>5 DEF Basics, ListType

LEMMA EntryIs ==
  ASSUME NEW m, NEW e, Is(m, e)
  PROVE  m.id = e.pid /\ m.priority = e.key
  BY DEF Is

LEMMA FoundIs ==
  ASSUME Basics, NEW e \in Left, NEW old
  PROVE  Is(Found(e.pid, old), e)
<1>1. e.pid < NPROC /\ q[e.pid].qkey = e.key
  BY BasicFacts, LineIs, RepresentsIs DEF Holds
<1> QED
  BY <1>1 DEF Found, Is

LEMMA SameStep ==
  ASSUME Basics, UNCHANGED <<q, type, admitted, list>>, pc' \in Stages \ {"idle"}
  PROVE  Basics' /\ Left' = Left /\ Taken' = Taken /\ Rs' = Rs /\ Ws' = Ws
         /\ Goal(list, type)' = Goal(list, type)
<1>1. Left' = Left
  BY DEF Left
<1>2. Taken' = Taken
  BY DEF Taken
<1>3. Rs' = Rs /\ Ws' = Ws /\ Goal(list, type)' = Goal(list, type)
  BY DEF Rs, Ws
<1>4. Basics'
  BY <1>1 DEF Basics
<1> QED
  BY <1>1, <1>2, <1>3, <1>4

\* lockAcquired() of an entry that is left.
LEMMA AcquiredStep ==
  ASSUME Basics, NEW e \in Left, LockAcquired(e.pid), UNCHANGED <<type, list>>,
         pc' \in Stages \ {"idle"}
  PROVE  /\ Basics' /\ Left' = Left \ {e} /\ Taken' = Taken \cup {e} /\ Rs' = Rs /\ Ws' = Ws
         /\ Goal(list, type)' = Goal(list, type) /\ admitted' = admitted \cup {e.pid}
         /\ Holds(q', Left \ {e})
<1>1. q' = QDequeue(q, e.pid) /\ admitted' = admitted \cup {e.pid}
  BY DEF LockAcquired
<1>2. \A f \in list : f.pid = e.pid => f = e
  BY BasicFacts, AheadOrder
<1>3. Left' = Left \ {e}
  BY <1>1, <1>2 DEF Left
<1>4. Taken' = Taken \cup {e}
  BY <1>1, <1>2, BasicFacts DEF Taken
<1>5. Holds(q', Left \ {e})
  BY <1>1, BasicFacts, HoldsDequeue
<1>6. admitted' \subseteq Pids(list)
  BY <1>1, BasicFacts DEF Basics, Pids
<1>7. Rs' = Rs /\ Ws' = Ws /\ Goal(list, type)' = Goal(list, type)
  BY DEF Rs, Ws
<1>8. Holds(q, Left)'
  BY <1>3, <1>5 DEF Holds
<1>9. Basics'
  BY <1>6, <1>8 DEF Basics
<1> QED
  BY <1>1, <1>3, <1>4, <1>5, <1>7, <1>9
LEMMA SamePriorityIs ==
  ASSUME NEW w, Is(writer, w), NEW r, Is(reader, r)
  PROVE  SamePriority <=> Fits(w, r)
<1>1. writer.id = w.pid /\ writer.priority = w.key /\ reader.id = r.pid /\ reader.priority = r.key
  BY EntryIs, Zenon
<1> QED
  BY <1>1 DEF SamePriority, Fits
-----------------------------------------------------------------------------
(* One lemma per action *)

LEMMA WaitStep ==
  ASSUME IInv, NEW p \in Waiting, NEW t \in {"READ", "WRITE"}, NEW k \in WaitPrios, Wait(p, t, k)
  PROVE  IInv'
<1>1. /\ pc = "idle" /\ p \notin Pids(list) /\ admitted = {}
      /\ q' \in QInsert(q, p, lhead, k) /\ type' = [type EXCEPT ![p] = t]
      /\ list' = Insert(list, p, k) /\ admitted' = {} /\ pc' = "idle"
  BY DEF IInv, Basics, Wait
<1>2. Basics
  BY DEF IInv
<1>3. ListType(list) /\ Holds(q, list)
  BY <1>1, <1>2, BasicFacts
<1>4. ListType(Insert(list, p, k)) /\ \E u : QInsert(q, p, lhead, k) = {u} /\ Holds(u, Insert(list, p, k))
  BY <1>1, <1>3, HoldsInsert
<1>5. ListType(list') /\ Holds(q', list')
  BY <1>1, <1>4
<1>6. Left' = list'
  BY <1>1 DEF Left
<1>7. ASSUME NEW e \in list'  PROVE type'[e.pid] \in {"READ", "WRITE"}
  <2>1. Pids(list') = Pids(list) \cup {p}
    BY <1>1, PidsInsert
  <2>2. type \in [Waiting -> {"EMPTY", "READ", "WRITE"}] /\ \A f \in list : type[f.pid] \in {"READ", "WRITE"}
    BY <1>2 DEF Basics
  <2>3. Pids(list) \subseteq Waiting
    BY <1>3, LineIs DEF Pids
  <2> QED
    BY <1>1, <1>7, <2>1, <2>2, <2>3 DEF Pids
<1>8. type' \in [Waiting -> {"EMPTY", "READ", "WRITE"}]
  BY <1>1, <1>2 DEF Basics
<1>9. Basics'
  <2>1. ListType(list)' /\ Holds(q, Left)'
    BY <1>5, <1>6 DEF ListType, Holds
  <2> QED
    BY <1>1, <1>7, <1>8, <2>1 DEF Basics, Stages
<1>10. Progress'
  BY <1>1 DEF Progress
<1> QED
  BY <1>9, <1>10 DEF IInv

LEMMA KillStep ==
  ASSUME IInv, NEW p \in Waiting, Kill(p)
  PROVE  IInv'
<1>1. /\ pc = "idle" /\ p \in Pids(list) /\ admitted = {} /\ q' = QDequeue(QDequeue(q, p), p)
      /\ list' = Remove(list, {p}) /\ type' = type /\ admitted' = {} /\ pc' = "idle"
  BY DEF IInv, Basics, Kill
<1>2. Basics
  BY DEF IInv
<1>3. ListType(list) /\ Holds(q, list) /\ Ordered(list)
  BY <1>1, <1>2, BasicFacts
<1>4. PICK e \in list : e.pid = p
  BY <1>1 DEF Pids
<1>5. Holds(q', list \ {e})
  BY <1>1, <1>3, <1>4, HoldsDequeue
<1>6. list \ {e} = {f \in list : f.pid \notin {p}}
  BY <1>3, <1>4, AheadOrder
<1>7. ListType(list') /\ Holds(q', list')
  BY <1>1, <1>3, <1>5, <1>6, HoldsRemove
<1>8. Left' = list'
  BY <1>1 DEF Left
<1>9. \A f \in list' : type[f.pid] \in {"READ", "WRITE"}
  <2>1. Pids(list') = Pids(list) \ {p}
    BY <1>1, PidsRemove
  <2>2. \A f \in list : type[f.pid] \in {"READ", "WRITE"}
    BY <1>2 DEF Basics
  <2> QED
    BY <2>1, <2>2 DEF Pids
<1>10. Basics'
  <2>1. ListType(list)' /\ Holds(q, Left)'
    BY <1>7, <1>8 DEF ListType, Holds
  <2>2. type' \in [Waiting -> {"EMPTY", "READ", "WRITE"}]
    BY <1>1, <1>2 DEF Basics
  <2> QED
    BY <1>1, <1>9, <2>1, <2>2 DEF Basics, Stages
<1>11. Progress'
  BY <1>1 DEF Progress
<1> QED
  BY <1>10, <1>11 DEF IInv

\* What the scan of Begin remembers.
LEMMA BeginFinds ==
  ASSUME Basics, admitted = {}, NEW t, IsLast(list, t), NEW k, type[t.pid] # k,
         NEW i \in Find(q, k, q[t.pid].qprev)
  PROVE  /\ OfType(list, k) = {} => Found(i, None) = None
         /\ \A r : IsLast(OfType(list, k), r) => Is(Found(i, None), r) /\ i = r.pid
<1>1. ListType(list) /\ Holds(q, list) /\ Left = list
  BY BasicFacts
<1>2. t \in list /\ \A e \in list : e = t \/ Ahead(t, e)
  BY DEF IsLast
<1>3. PICK d \in list \cup {HeadEntry(lhead)} :
        q[t.pid].qprev = d.pid /\ \A f \in list : Ahead(t, f) => f = d \/ Ahead(d, f)
  BY <1>1, <1>2, NextLink
<1>4. BeginsAhead(list, k, d)
  BY <1>2, <1>3 DEF OfType, BeginsAhead
<1>5. Finds(list, q, k, d)
  BY <1>1, <1>3, <1>4, FindIs, Zenon
<1>6. ASSUME OfType(list, k) = {}  PROVE Found(i, None) = None
  BY <1>3, <1>5, <1>6, TableAssumption DEF Found, lhead, Finds
<1>7. ASSUME NEW r, IsLast(OfType(list, k), r)  PROVE Is(Found(i, None), r) /\ i = r.pid
  <2>1. i = r.pid
    BY <1>3, <1>5, <1>7 DEF Finds
  <2>2. r \in Left
    BY <1>1, <1>7 DEF IsLast, OfType
  <2> QED
    BY <2>1, <2>2, FoundIs
<1> QED
  BY <1>6, <1>7

LEMMA BeginStep ==
  ASSUME IInv, Begin
  PROVE  IInv'
<1>1. Basics /\ pc = "idle" /\ admitted = {}
  BY DEF IInv, Basics, Begin
<1>2. ListType(list) /\ Holds(q, list) /\ Ordered(list)
  BY <1>1, BasicFacts
<1>3. list # {}
  BY <1>2, FrontLink, TableAssumption DEF Begin, lhead
<1>4. PICK t : IsLast(list, t)
  BY <1>2, <1>3, LastExists
<1>5. t \in list /\ q[ltail].qprev = t.pid /\ t \in Left /\ t.pid < NPROC
  BY <1>1, <1>2, <1>4, FrontLink, BasicFacts
<1>6. Is(Found(t.pid, None), t)
  BY <1>1, <1>5, FoundIs
<1>7. type[t.pid] \in {"READ", "WRITE"}
  BY <1>1, <1>5 DEF Basics
<1>8. pc' \in Stages \ {"idle"} /\ UNCHANGED <<q, type, admitted, list>>
  BY DEF Begin, Stages
<1>9. Basics' /\ Rs' = Rs /\ Ws' = Ws
  BY <1>1, <1>8, SameStep
<1>10. Rs = OfType(list, "READ") /\ Ws = OfType(list, "WRITE")
  BY <1>1, BasicFacts
<1>11. CASE type[t.pid] = "WRITE"
  <2>1. /\ prev' \in Find(q, "READ", q[t.pid].qprev) /\ pc' = "writer"
        /\ writer' = Found(t.pid, None) /\ reader' = Found(prev', None)
    BY <1>5, <1>11 DEF Begin
  <2>2. /\ Rs = {} => reader' = None
        /\ \A r : IsLast(Rs, r) => Is(reader', r) /\ prev' = r.pid
    BY <1>1, <1>4, <1>10, <1>11, <2>1, BeginFinds
  <2>3. t \in Ws /\ Is(writer', t)
    BY <1>5, <1>6, <1>10, <1>11, <2>1 DEF OfType
  <2>4. AtWriter'
    BY <1>1, <1>4, <1>8, <1>9, <2>2, <2>3 DEF AtWriter, Is
  <2> QED
    BY <1>9, <2>1, <2>4 DEF IInv, Progress
<1>12. CASE type[t.pid] = "READ"
  <2>1. /\ prev' \in Find(q, "WRITE", q[t.pid].qprev) /\ pc' = "reader"
        /\ reader' = Found(t.pid, None) /\ writer' = Found(prev', None)
    BY <1>5, <1>12 DEF Begin
  <2>2. /\ Ws = {} => writer' = None
        /\ \A w : IsLast(Ws, w) => Is(writer', w) /\ prev' = w.pid
    BY <1>1, <1>4, <1>10, <1>12, <2>1, BeginFinds
  <2>3. t \in Rs /\ Is(reader', t)
    BY <1>5, <1>6, <1>10, <1>12, <2>1 DEF OfType
  <2>4. AtReader'
    BY <1>1, <1>4, <1>8, <1>9, <2>2, <2>3 DEF AtReader, Is
  <2> QED
    BY <1>9, <2>1, <2>4 DEF IInv, Progress
<1> QED
  BY <1>7, <1>11, <1>12

LEMMA WriterStep ==
  ASSUME IInv, Writer
  PROVE  IInv'
<1>1. Basics /\ AtWriter /\ pc = "writer"
  BY DEF IInv, Progress, Writer
<1>2. PICK t \in Ws : IsLast(list, t) /\ Is(writer, t)
  BY <1>1 DEF AtWriter
<1>3. /\ Rs \subseteq list /\ Ws \subseteq list /\ Ordered(list) /\ ListType(list)
      /\ Left = list /\ Taken = {} /\ admitted = {}
  BY <1>1, BasicFacts DEF AtWriter
<1>4. Goal(list, type) = AfterWriter(Rs, t)
  BY <1>2, <1>3, GoalFirst DEF Rs, Ws
<1>5. t \in Left /\ writer.id = t.pid
  BY <1>2, <1>3, EntryIs
<1>6. ASSUME pc' = "done", LockAcquired(writer.id), FavouredOf(Rs, t) = {}  PROVE IInv'
  <2>1. UNCHANGED <<type, list>> /\ pc' \in Stages \ {"idle"}
    BY <1>6 DEF Writer, Stages
  <2>2. Basics' /\ Goal(list, type)' = Goal(list, type) /\ admitted' = admitted \cup {t.pid}
    BY <1>1, <1>5, <1>6, <2>1, AcquiredStep
  <2>3. Goal(list, type) = {t}
    BY <1>4, <1>6 DEF AfterWriter
  <2>4. AtDone'
    BY <1>3, <2>2, <2>3 DEF AtDone, Pids
  <2> QED
    BY <1>6, <2>2, <2>4 DEF IInv, Progress
<1>7. CASE Rs = {}
  <2>1. pc' = "done" /\ LockAcquired(writer.id)
    BY <1>1, <1>7 DEF Writer, AtWriter
  <2> QED
    BY <1>6, <1>7, <2>1 DEF FavouredOf
<1>8. CASE Rs # {}
  <2>1. PICK r \in Rs : IsLast(Rs, r)
    BY <1>3, <1>8, LastExists
  <2>2. Is(reader, r) /\ prev = r.pid
    BY <1>1, <2>1 DEF AtWriter
  <2>3. r.pid < NPROC /\ r.pid \in Nat
    BY <1>3, LineIs, Numbers
  <2>4. reader # None
    <3>1. reader.id = r.pid
      BY <2>2, EntryIs
    <3> QED
      BY <2>3, <3>1 DEF None, EMPTY
  <2>5. SamePriority <=> Fits(t, r)
    BY <1>2, <2>2, SamePriorityIs
  <2>6. IF Fits(t, r) THEN r \in FavouredOf(Rs, t) ELSE FavouredOf(Rs, t) = {}
    BY <1>3, <2>1, FavouredFirst
  <2>7. CASE SamePriority
    <3>1. pc' = "favoured" /\ UNCHANGED <<q, type, admitted, list, prev, reader, writer>>
      BY <2>4, <2>7 DEF Writer
    <3>2. pc' \in Stages \ {"idle"}
      BY <3>1 DEF Stages
    <3>3. Basics' /\ Rs' = Rs /\ Ws' = Ws /\ Taken' = Taken /\ Goal(list, type)' = Goal(list, type)
      BY <1>1, <3>1, <3>2, SameStep
    <3>4. Goal(list, type) = {} \cup FavouredOf(Rs \ {}, t)
      <4>1. Rs \ {} = Rs
        OBVIOUS
      <4> QED
        BY <1>4, <2>5, <2>6, <2>7, <4>1 DEF AfterWriter
    <3>5. IsLast(Ws, t)
      BY <1>2, <1>3 DEF IsLast
    <3>6. \A x \in Rs : IsLast(Rs, x) => Is(reader, x) /\ prev < NPROC
      BY <1>1, <2>2, <2>3 DEF AtWriter
    <3>7. AtFavoured
      <4>1. {} \in SUBSET Rs /\ Taken \ {} = {} /\ Rs \ Taken = Rs
        BY <1>3
      <4> QED
        BY <1>2, <1>3, <1>8, <3>4, <3>5, <3>6, <4>1 DEF AtFavoured
    <3>8. AtFavoured'
      BY <3>1, <3>3, <3>7 DEF AtFavoured, Is
    <3> QED
      BY <3>1, <3>3, <3>8 DEF IInv, Progress
  <2>8. CASE ~SamePriority
    <3>1. pc' = "done" /\ LockAcquired(writer.id)
      BY <2>8 DEF Writer
    <3> QED
      BY <1>6, <2>5, <2>6, <2>8, <3>1
  <2> QED
    BY <2>7, <2>8
<1> QED
  BY <1>7, <1>8

LEMMA ReaderStep ==
  ASSUME IInv, Reader
  PROVE  IInv'
<1>1. Basics /\ AtReader /\ pc = "reader"
  BY DEF IInv, Progress, Reader
<1>2. PICK t \in Rs : IsLast(list, t) /\ Is(reader, t)
  BY <1>1 DEF AtReader
<1>3. /\ Rs \subseteq list /\ Ws \subseteq list /\ Ordered(list) /\ ListType(list)
      /\ Rs \cap Ws = {} /\ Taken = {} /\ admitted = {}
  BY <1>1, BasicFacts DEF AtReader
<1>4. Goal(list, type) = AfterReader(Rs, Ws, t)
  BY <1>2, <1>3, GoalFirst DEF Rs, Ws
<1>5. UNCHANGED <<q, type, admitted, list, reader, writer>> /\ pc' \in Stages \ {"idle"}
  BY DEF Reader, Stages
<1>6. Basics' /\ Rs' = Rs /\ Ws' = Ws /\ Taken' = Taken /\ Goal(list, type)' = Goal(list, type)
  BY <1>1, <1>5, SameStep
<1>7. CASE Ws = {}
  <2>1. pc' = "all" /\ prev' = q[ltail].qprev
    BY <1>1, <1>7 DEF AtReader, Reader
  <2>2. AtAll'
    BY <1>2, <1>3, <1>5, <1>6, <1>7, <2>1 DEF AtAll
  <2> QED
    BY <1>6, <2>1, <2>2 DEF IInv, Progress
<1>8. CASE Ws # {}
  <2>1. PICK w \in Ws : IsLast(Ws, w)
    BY <1>3, <1>8, LastExists
  <2>2. Is(writer, w) /\ prev = w.pid
    BY <1>1, <2>1 DEF AtReader
  <2>3. w.pid < NPROC /\ w.pid \in Nat /\ w.key \in Int /\ t.key \in Int /\ w.age \in Nat /\ t.age \in Nat
    BY <1>3, LineIs, Numbers
  <2>4. reader.priority = t.key /\ writer.priority = w.key /\ writer.id = w.pid
    BY <1>2, <2>2, EntryIs
  <2>5. writer # None
    BY <2>3, <2>4 DEF None, EMPTY
  <2>6. t.key >= w.key
    <3>1. Ahead(t, w)
      BY <1>2, <1>3 DEF IsLast
    <3> QED
      BY <2>3, <3>1 DEF Ahead
  <2>7. CASE t.key > w.key
    <3>1. pc' = "before" /\ prev' = q[ltail].qprev
      BY <2>4, <2>5, <2>7 DEF Reader
    <3>2. AtBefore'
      BY <1>2, <1>3, <1>5, <1>6, <2>1, <2>2, <2>7, <3>1 DEF AtBefore, Is
    <3> QED
      BY <1>6, <3>1, <3>2 DEF IInv, Progress
  <2>8. CASE ~(t.key > w.key)
    <3>1. pc' = "favoured" /\ prev' = prev
      BY <2>4, <2>5, <2>8 DEF Reader
    <3>2. BeforeOf(Rs, t, w) = {}
      BY <2>8 DEF BeforeOf
    <3>3. Goal(list, type) = {} \cup FavouredOf(Rs \ {}, w)
      <4>1. AfterReader(Rs, Ws, t) = BeforeOf(Rs, t, w) \cup FavouredOf(Rs \ BeforeOf(Rs, t, w), w)
        BY <1>3, <2>1, AfterReaderIs
      <4> QED
        BY <1>4, <3>2, <4>1
    <3>4. \A x \in Rs : IsLast(Rs, x) => Is(reader, x) /\ prev < NPROC
      <4>1. IsLast(Rs, t)
        BY <1>2, <1>3 DEF IsLast
      <4> QED
        BY <1>2, <1>3, <2>2, <2>3, <4>1, LastIsOne
    <3>5. AtFavoured
      <4>1. {} \in SUBSET Rs /\ Taken \ {} = {} /\ Rs \ Taken = Rs /\ Rs # {}
        BY <1>2, <1>3
      <4> QED
        BY <1>3, <2>1, <2>2, <3>3, <3>4, <4>1 DEF AtFavoured
    <3>6. AtFavoured'
      BY <1>5, <1>6, <3>1, <3>5 DEF AtFavoured, Is
    <3> QED
      BY <1>6, <3>1, <3>6 DEF IInv, Progress
  <2> QED
    BY <2>7, <2>8
<1> QED
  BY <1>7, <1>8

\* In front of the tail is the first of those that are left, or nobody.
LEMMA InFront ==
  ASSUME Basics
  PROVE  /\ Left = {} => q[ltail].qprev = NPROC
         /\ \A e : IsLast(Left, e) => /\ e \in Left /\ q[ltail].qprev = e.pid /\ e.pid < NPROC
                                     /\ q[e.pid].qkey = e.key /\ type[e.pid] \in {"READ", "WRITE"}
<1>1. ListType(Left) /\ Holds(q, Left) /\ Left \subseteq list
  BY BasicFacts
<1>2. ASSUME Left = {}  PROVE q[ltail].qprev = NPROC
  BY <1>1, <1>2, FrontLink DEF lhead
<1>3. ASSUME NEW e, IsLast(Left, e)
      PROVE  /\ e \in Left /\ q[ltail].qprev = e.pid /\ e.pid < NPROC
             /\ q[e.pid].qkey = e.key /\ type[e.pid] \in {"READ", "WRITE"}
  <2>1. e \in Left /\ q[ltail].qprev = e.pid /\ e.pid < NPROC
    BY <1>1, <1>3, FrontLink
  <2>2. q[e.pid].qkey = e.key
    BY <1>1, <2>1, RepresentsIs DEF Holds
  <2> QED
    BY <1>1, <2>1, <2>2 DEF Basics
<1> QED
  BY <1>2, <1>3

\* The writer that is first of the writers is not taken by the loop.
LEMMA WriterStays ==
  ASSUME Basics, NEW w \in Ws, Taken \subseteq Rs
  PROVE  w \in Left
  BY BasicFacts

LEMMA TakeLastStep ==
  ASSUME IInv, TakeLast
  PROVE  IInv'
<1>1. /\ Basics /\ Progress /\ pc \in {"all", "before"} /\ Takes /\ LockAcquired(prev)
      /\ prev' = q'[ltail].qprev /\ UNCHANGED <<type, reader, writer, pc, list>>
  BY DEF IInv, TakeLast
<1>2. prev = q[ltail].qprev
  BY <1>1 DEF Progress, AtAll, AtBefore
<1>3. /\ Rs \subseteq list /\ Ws \subseteq list /\ Ordered(list) /\ Rs \cap Ws = {}
      /\ Left \in SUBSET list /\ Rs = OfType(list, "READ")
  BY <1>1, BasicFacts
<1>4. Left # {}
  BY <1>1, <1>2, InFront, TableAssumption DEF Takes
<1>5. PICK e : IsLast(Left, e)
  BY <1>3, <1>4, LastExists
<1>6. e \in Left /\ prev = e.pid
  BY <1>1, <1>2, <1>5, InFront
<1>7. pc' \in Stages \ {"idle"}
  BY <1>1 DEF Stages
<1>8. /\ Basics' /\ Left' = Left \ {e} /\ Taken' = Taken \cup {e} /\ Rs' = Rs /\ Ws' = Ws
  BY <1>1, <1>6, <1>7, AcquiredStep
<1>9. CASE pc = "all"
  <2>1. AtAll'
    BY <1>1, <1>8, <1>9 DEF AtAll, Progress
  <2> QED
    BY <1>1, <1>8, <1>9, <2>1 DEF IInv, Progress
<1>10. CASE pc = "before"
  <2>1. PICK t \in Rs, w \in Ws :
           /\ IsLast(list, t) /\ IsLast(Ws, w) /\ Is(writer, w) /\ t.key > w.key
           /\ Taken \subseteq BeforeOf(Rs, t, w)
    BY <1>1, <1>10 DEF Progress, AtBefore
  <2>2. BeforeOf(Rs, t, w) = {x \in Rs : Ahead(x, w)}
    BY <2>1 DEF BeforeOf
  <2>3. e \in Rs
    BY <1>1, <1>3, <1>6 DEF Takes, OfType
  <2>4. Ahead(e, w)
    <3>1. w \in Left
      BY <1>1, <2>1, <2>2, WriterStays
    <3> QED
      BY <1>3, <1>5, <2>3, <3>1 DEF IsLast
  <2>5. Taken' \subseteq BeforeOf(Rs, t, w)
    BY <1>8, <2>1, <2>2, <2>3, <2>4
  <2>6. AtBefore'
    BY <1>1, <1>8, <2>1, <2>5 DEF AtBefore, Is
  <2> QED
    BY <1>1, <1>8, <1>10, <2>6 DEF IInv, Progress
<1> QED
  BY <1>1, <1>9, <1>10

LEMMA AfterTakingStep ==
  ASSUME IInv, AfterTaking
  PROVE  IInv'
<1>1. /\ Basics /\ Progress /\ pc \in {"all", "before"} /\ ~Takes
      /\ UNCHANGED <<q, type, writer, admitted, list>> /\ pc' \in Stages \ {"idle"}
  BY DEF IInv, AfterTaking, Stages
<1>2. prev = q[ltail].qprev
  BY <1>1 DEF Progress, AtAll, AtBefore
<1>3. /\ Rs \subseteq list /\ Ws \subseteq list /\ Ordered(list) /\ ListType(list)
      /\ Rs \cap Ws = {} /\ Rs \cup Ws = list /\ Taken \subseteq list
      /\ Left \in SUBSET list /\ Left = list \ Taken
      /\ Rs = OfType(list, "READ") /\ Ws = OfType(list, "WRITE") /\ Rs \ Taken = OfType(Left, "READ")
      /\ ListType(Left) /\ Holds(q, Left)
  <2>1. ListType(list)
    BY <1>1 DEF Basics
  <2> QED
    BY <1>1, <2>1, BasicFacts, Zenon
<1>4. /\ Basics' /\ Left' = Left /\ Taken' = Taken /\ Rs' = Rs /\ Ws' = Ws
      /\ Goal(list, type)' = Goal(list, type)
  BY <1>1, SameStep
<1>5. CASE pc = "all"
  <2>1. Ws = {} /\ list # {} /\ pc' = "done"
    BY <1>1, <1>5 DEF Progress, AtAll, AfterTaking
  <2>2. Left = {}
    <3>1. ASSUME Left # {}  PROVE FALSE
      <4>1. PICK e : IsLast(Left, e)
        BY <1>3, <3>1, LastExists
      <4>2. e \in Left /\ prev = e.pid /\ e.pid < NPROC
        BY <1>1, <1>2, <4>1, InFront
      <4>3. type[e.pid] = "READ"
        BY <1>3, <2>1, <4>2 DEF OfType
      <4> QED
        BY <1>1, <1>5, <4>2, <4>3 DEF Takes
    <3> QED
      BY <3>1
  <2>3. Goal(list, type) = list
    <3>1. PICK t : IsLast(list, t)
      BY <1>3, <2>1, LastExists
    <3>2. Goal(list, type) = AfterReader(Rs, Ws, t)
      BY <1>3, <2>1, <3>1, GoalFirst DEF Rs, Ws
    <3> QED
      BY <1>3, <2>1, <3>2 DEF AfterReader
  <2>4. admitted = Pids(list)
    BY <1>1, <1>3, <2>2 DEF Basics, Taken, Pids
  <2>5. AtDone'
    BY <1>1, <1>4, <2>3, <2>4 DEF AtDone
  <2> QED
    BY <1>4, <2>1, <2>5 DEF IInv, Progress
<1>6. CASE pc = "before"
  <2>1. PICK t \in Rs, w \in Ws :
           /\ IsLast(list, t) /\ IsLast(Ws, w) /\ Is(writer, w) /\ t.key > w.key
           /\ Taken \subseteq BeforeOf(Rs, t, w)
    BY <1>1, <1>6 DEF Progress, AtBefore
  <2>2. /\ BeforeOf(Rs, t, w) = {x \in Rs : Ahead(x, w)} /\ writer.priority = w.key
    BY <2>1, EntryIs DEF BeforeOf
  <2>3. w \in Left
    BY <1>1, <2>1, <2>2, WriterStays
  <2>4. IsLast(Left, w)
    <3>1. PICK e : IsLast(Left, e)
      BY <1>3, <2>3, LastExists
    <3>2. /\ e \in Left /\ prev = e.pid /\ e.pid < NPROC /\ q[e.pid].qkey = e.key
          /\ type[e.pid] \in {"READ", "WRITE"}
      BY <1>1, <1>2, <3>1, InFront
    <3>3. e = w \/ Ahead(e, w)
      BY <2>3, <3>1 DEF IsLast
    <3>4. e.key >= w.key
      <4>1. e.key \in Int /\ w.key \in Int
        BY <1>3, <2>1, <3>2, LineIs, Numbers
      <4> QED
        BY <3>3, <4>1 DEF Ahead
    <3>5. type[e.pid] = "WRITE"
      BY <1>1, <2>2, <3>2, <3>4 DEF Takes
    <3>6. e = w \/ Ahead(w, e)
      BY <1>3, <2>1, <3>2, <3>5 DEF OfType, IsLast
    <3>7. e = w
      BY <1>3, <2>1, <3>2, <3>3, <3>6, AheadOrder
    <3> QED
      BY <3>1, <3>7
  <2>5. BeforeOf(Rs, t, w) = Taken
    <3>1. ASSUME NEW x \in Rs, Ahead(x, w)  PROVE x \in Taken
      <4>1. ~(x = w \/ Ahead(w, x))
        BY <1>3, <2>1, <3>1, AheadOrder
      <4> QED
        BY <1>3, <2>4, <3>1, <4>1 DEF IsLast
    <3> QED
      BY <2>1, <2>2, <3>1
  <2>6. Goal(list, type) = Taken \cup FavouredOf(Rs \ Taken, w)
    <3>1. Goal(list, type) = AfterReader(Rs, Ws, t)
      BY <1>3, <2>1, GoalFirst DEF Rs, Ws
    <3>2. AfterReader(Rs, Ws, t) = BeforeOf(Rs, t, w) \cup FavouredOf(Rs \ BeforeOf(Rs, t, w), w)
      BY <1>3, <2>1, AfterReaderIs
    <3> QED
      BY <2>5, <3>1, <3>2
  <2>7. /\ pc' = "favoured" /\ prev' \in Find(q, "READ", w.pid) /\ reader' = Found(prev', reader)
    <3>1. q[ltail].qprev = w.pid
      BY <1>1, <2>4, InFront
    <3> QED
      BY <1>6, <3>1 DEF AfterTaking, NextReader
  <2>8. Finds(Left, q, "READ", w)
    <3>1. BeginsAhead(Left, "READ", w)
      BY <2>4 DEF BeginsAhead, OfType, IsLast
    <3> QED
      BY <1>3, <2>3, <3>1, FindIs
  <2>9. ASSUME NEW r, IsLast(Rs \ Taken, r)  PROVE Is(reader', r) /\ prev' < NPROC
    <3>1. prev' = r.pid /\ r \in Left
      BY <1>3, <2>7, <2>8, <2>9 DEF Finds, IsLast
    <3>2. r.pid < NPROC
      BY <1>3, <3>1, LineIs
    <3> QED
      BY <1>1, <2>7, <3>1, <3>2, FoundIs
  <2>10. Rs \ Taken = {} => prev' = lhead
    BY <1>3, <2>7, <2>8 DEF Finds
  <2>11. AtFavoured'
    <3>1. Taken \in SUBSET Rs /\ Taken \ Taken = {}
      BY <2>1, <2>2
    <3> QED
      BY <1>1, <1>4, <2>1, <2>6, <2>9, <2>10, <3>1 DEF AtFavoured, Is
  <2> QED
    BY <1>4, <2>7, <2>11 DEF IInv, Progress
<1> QED
  BY <1>1, <1>5, <1>6

\* The reader taken in this pass is a favoured one, and the scan that follows
\* finds the next.
LEMMA TakeFavouredStep ==
  ASSUME IInv, TakeFavoured
  PROVE  IInv'
<1>1. /\ Basics /\ AtFavoured /\ pc = "favoured" /\ SamePriority /\ prev < NPROC
      /\ LockAcquired(reader.id) /\ UNCHANGED <<type, writer, pc, list>> /\ pc' \in Stages \ {"idle"}
  BY DEF IInv, Progress, TakeFavoured, Stages
<1>2. PICK w \in Ws, B \in SUBSET Rs :
        /\ IsLast(Ws, w) /\ Is(writer, w)
        /\ Goal(list, type) = B \cup FavouredOf(Rs \ B, w)
        /\ B \subseteq Taken /\ Taken \ B \subseteq FavouredOf(Rs \ B, w)
        /\ Rs \ Taken = {} => prev = lhead
        /\ \A r \in Rs \ Taken : IsLast(Rs \ Taken, r) => Is(reader, r) /\ prev < NPROC
  BY <1>1 DEF AtFavoured
<1>3. /\ Rs \subseteq list /\ Ws \subseteq list /\ Ordered(list) /\ Taken \subseteq Rs
      /\ Rs \cap Ws = {} /\ Left = list \ Taken /\ Rs = OfType(list, "READ") /\ ListType(Left)
  <2>1. Taken \subseteq Rs
    BY <1>2 DEF FavouredOf
  <2> QED
    BY <1>1, <2>1, BasicFacts
<1>4. PICK r \in Rs \ Taken : IsLast(Rs \ Taken, r)
  <2>1. Rs \ Taken # {}
    BY <1>1, <1>2, TableAssumption DEF lhead
  <2> QED
    BY <1>3, <2>1, LastExists
<1>5. Is(reader, r) /\ reader.id = r.pid /\ Fits(w, r)
  <2>1. Is(reader, r)
    BY <1>2, <1>4
  <2> QED
    BY <1>1, <1>2, <2>1, SamePriorityIs, EntryIs
<1>6. r \in FavouredOf(Rs \ B, w)
  <2>1. ASSUME NEW x \in Rs \ B, x = r \/ Ahead(x, r)  PROVE Fits(w, x)
    <3>1. CASE x \in Rs \ Taken
      <4>1. x = r
        BY <1>3, <1>4, <2>1, <3>1, AheadOrder DEF IsLast
      <4> QED
        BY <1>5, <4>1
    <3>2. CASE x \in Taken
      BY <1>2, <2>1, <3>2 DEF FavouredOf
    <3> QED
      BY <2>1, <3>1, <3>2
  <2> QED
    BY <1>2, <1>4, <2>1 DEF FavouredOf
<1> DEFINE M == Left \ {r}
<1>7. /\ Basics' /\ Left' = M /\ Taken' = Taken \cup {r} /\ Rs' = Rs /\ Ws' = Ws
      /\ Goal(list, type)' = Goal(list, type) /\ Holds(q', M)
  <2>1. r \in Left /\ LockAcquired(r.pid)
    BY <1>1, <1>3, <1>4, <1>5
  <2> QED
    BY <1>1, <2>1, AcquiredStep
<1>8. /\ w \in M /\ M \in SUBSET list /\ ListType(M) /\ OfType(M, "READ") = Rs \ (Taken \cup {r})
  <2>1. w \in M /\ M \in SUBSET list
    BY <1>2, <1>3, <1>4
  <2>2. ListType(M)
    BY <1>3, ListPart
  <2> QED
    BY <1>3, <2>1, <2>2 DEF OfType
<1>9. PICK u : u = q'
  OBVIOUS
<1> HIDE DEF M
<1>10. PICK e : IsLast(M, e)
  BY <1>3, <1>8, LastExists
<1>11. e \in M /\ u[ltail].qprev = e.pid
  BY <1>7, <1>8, <1>9, <1>10, FrontLink
<1>12. PICK from \in M \cup {HeadEntry(lhead)} :
         BeginsAhead(M, "READ", from) /\ prev' \in Find(u, "READ", from.pid)
  <2>1. writer.id = w.pid
    BY <1>2, EntryIs
  <2>2. prev' \in Find(u, "READ", IF e.pid = w.pid THEN u[e.pid].qprev ELSE e.pid)
    BY <1>9, <1>11, <2>1 DEF TakeFavoured
  <2>3. CASE e.pid = w.pid
    <3>1. e = w /\ type[w.pid] # "READ"
      BY <1>2, <1>3, <1>8, <1>11, <2>3, AheadOrder DEF OfType
    <3>2. PICK d \in M \cup {HeadEntry(lhead)} :
             u[e.pid].qprev = d.pid /\ \A f \in M : Ahead(e, f) => f = d \/ Ahead(d, f)
      BY <1>7, <1>8, <1>9, <1>11, NextLink
    <3>3. BeginsAhead(M, "READ", d)
      BY <1>10, <3>1, <3>2 DEF BeginsAhead, OfType, IsLast
    <3> QED
      BY <2>2, <2>3, <3>2, <3>3
  <2>4. CASE e.pid # w.pid
    <3>1. BeginsAhead(M, "READ", e)
      BY <1>10 DEF BeginsAhead, OfType, IsLast
    <3> QED
      BY <1>11, <2>2, <2>4, <3>1
  <2> QED
    BY <2>3, <2>4
<1>13. Finds(M, u, "READ", from)
  BY <1>7, <1>8, <1>9, <1>12, FindIs
<1>14. reader' = Found(prev', reader)
  BY DEF TakeFavoured, NextReader
<1>15. OfType(M, "READ") = {} => prev' = lhead
  BY <1>12, <1>13 DEF Finds
<1>16. ASSUME NEW x, IsLast(OfType(M, "READ"), x)  PROVE Is(reader', x) /\ prev' < NPROC
  <2>1. prev' = x.pid
    BY <1>12, <1>13, <1>16 DEF Finds
  <2>2. x \in Left
    BY <1>3, <1>8, <1>16 DEF IsLast
  <2>3. x.pid < NPROC
    BY <1>3, <2>2, LineIs
  <2> QED
    BY <1>1, <1>14, <2>1, <2>2, <2>3, FoundIs
<1>17. AtFavoured'
  <2>1. B \subseteq Taken \cup {r} /\ (Taken \cup {r}) \ B \subseteq FavouredOf(Rs \ B, w)
    BY <1>2, <1>6
  <2> QED
    BY <1>1, <1>2, <1>7, <1>8, <1>15, <1>16, <2>1 DEF AtFavoured, Is
<1> QED
  BY <1>1, <1>7, <1>17 DEF IInv, Progress

\* The loop stops at the first reader that is not favoured: all that are have
\* been taken.
LEMMA AfterFavouredStep ==
  ASSUME IInv, AfterFavoured
  PROVE  IInv'
<1>1. /\ Basics /\ AtFavoured /\ pc = "favoured" /\ ~(SamePriority /\ prev < NPROC) /\ pc' = "done"
      /\ UNCHANGED <<q, type, admitted, list>> /\ pc' \in Stages \ {"idle"}
  BY DEF IInv, Progress, AfterFavoured, Stages
<1>2. PICK w \in Ws, B \in SUBSET Rs :
        /\ IsLast(Ws, w) /\ Is(writer, w)
        /\ Goal(list, type) = B \cup FavouredOf(Rs \ B, w)
        /\ B \subseteq Taken /\ Taken \ B \subseteq FavouredOf(Rs \ B, w)
        /\ Rs \ Taken = {} => prev = lhead
        /\ \A r \in Rs \ Taken : IsLast(Rs \ Taken, r) => Is(reader, r) /\ prev < NPROC
  BY <1>1 DEF AtFavoured
<1>3. Rs \subseteq list /\ Ordered(list)
  BY <1>1, BasicFacts
<1>4. ASSUME NEW x \in FavouredOf(Rs \ B, w), x \notin Taken  PROVE FALSE
  <2>1. x \in Rs \ Taken
    BY <1>4 DEF FavouredOf
  <2>2. PICK r \in Rs \ Taken : IsLast(Rs \ Taken, r)
    BY <1>3, <2>1, LastExists
  <2>3. Is(reader, r) /\ prev < NPROC
    BY <1>2, <2>2
  <2>4. ~Fits(w, r)
    BY <1>1, <1>2, <2>3, SamePriorityIs
  <2>5. r = x \/ Ahead(r, x)
    BY <2>1, <2>2 DEF IsLast
  <2> QED
    BY <1>2, <1>4, <2>2, <2>4, <2>5 DEF FavouredOf
<1>5. Goal(list, type) = Taken
  BY <1>2, <1>4
<1>6. admitted = Pids(Taken)
  BY <1>1 DEF Basics, Taken, Pids
<1>7. Basics' /\ Goal(list, type)' = Goal(list, type)
  BY <1>1, SameStep
<1>8. AtDone'
  BY <1>1, <1>5, <1>6, <1>7 DEF AtDone
<1> QED
  BY <1>1, <1>7, <1>8 DEF IInv, Progress

LEMMA ReturnStep ==
  ASSUME IInv, Return
  PROVE  IInv'
<1>1. /\ Basics /\ pc' = "idle" /\ admitted' = {} /\ list' = Remove(list, admitted)
      /\ q' = q /\ type' = type
  BY DEF IInv, Return
<1>2. ListType(list) /\ Holds(q, {e \in list : e.pid \notin admitted})
  BY <1>1 DEF Basics, Left
<1>3. ListType(list') /\ Holds(q, list')
  BY <1>1, <1>2, HoldsRemove
<1>4. Left' = list'
  BY <1>1 DEF Left
<1>5. \A f \in list' : type[f.pid] \in {"READ", "WRITE"}
  <2>1. Pids(list') = Pids(list) \ admitted
    BY <1>1, PidsRemove
  <2>2. \A f \in list : type[f.pid] \in {"READ", "WRITE"}
    BY <1>1 DEF Basics
  <2> QED
    BY <2>1, <2>2 DEF Pids
<1>6. Basics'
  <2>1. ListType(list)' /\ Holds(q, Left)'
    BY <1>1, <1>3, <1>4 DEF ListType, Holds
  <2>2. type' \in [Waiting -> {"EMPTY", "READ", "WRITE"}]
    BY <1>1 DEF Basics
  <2> QED
    BY <1>1, <1>5, <2>1, <2>2 DEF Basics, Stages
<1>7. Progress'
  BY <1>1 DEF Progress
<1> QED
  BY <1>6, <1>7 DEF IInv
-----------------------------------------------------------------------------
(* The theorems *)

LEMMA InitInv == Init => IInv
<1> SUFFICES ASSUME Init  PROVE IInv
  OBVIOUS
<1>1. /\ type = [p \in Waiting |-> "EMPTY"] /\ pc = "idle" /\ admitted = {} /\ list = {}
      /\ q = Newqueue([i \in Table |-> [qkey |-> 0, qnext |-> 0, qprev |-> 0]], lhead, ltail)
  BY DEF Init, Table
<1>2. lhead \in Table /\ ltail \in Table /\ lhead # ltail /\ lhead \in Int /\ ltail \in Int
  BY Numbers DEF Table
<1>3. /\ q[lhead] = [qkey |-> MININT, qnext |-> ltail, qprev |-> EMPTY]
      /\ q[ltail] = [qkey |-> MAXINT, qnext |-> EMPTY, qprev |-> lhead]
      /\ q \in [Table -> EntryType]
  BY <1>1, <1>2, TableAssumption DEF Newqueue, EntryType, EMPTY
<1>4. ListType(list)
  BY <1>1, OrderedEmpty DEF ListType
<1>5. PICK h : h = HeadEntry(lhead)
  OBVIOUS
<1>6. PICK l : l = TailEntry(ltail)
  OBVIOUS
<1>7. Ahead(l, h) /\ h.pid = lhead /\ l.pid = ltail /\ Ordered({h, l})
  <2>1. list \cup Ends = {h, l}
    BY <1>1, <1>5, <1>6 DEF Ends
  <2>2. Ordered(list \cup Ends) /\ Ahead(TailEntry(ltail), HeadEntry(lhead))
    BY <1>4, LineIs
  <2> QED
    BY <1>5, <1>6, <2>1, <2>2, Numbers
<1>8. Links(q, {h, l})
  <2>1. ~Ahead(h, l) /\ ~Ahead(h, h) /\ ~Ahead(l, l)
    BY <1>7, AheadOrder
  <2> QED
    BY <1>3, <1>7, <2>1 DEF Links, Beside
<1>9. Holds(q, list)
  <2>1. Links(q, list \cup Ends)
    BY <1>1, <1>5, <1>6, <1>8 DEF Ends
  <2> QED
    BY <1>1, <1>3, <2>1, RepresentsIs DEF Holds
<1>10. Left = list
  BY <1>1 DEF Left
<1>11. Basics
  BY <1>1, <1>4, <1>9, <1>10 DEF Basics, Stages
<1>12. Progress
  BY <1>1 DEF Progress
<1> QED
  BY <1>11, <1>12 DEF IInv

LEMMA StutterStep ==
  ASSUME IInv, UNCHANGED vars
  PROVE  IInv'
<1>1. UNCHANGED <<q, type, prev, reader, writer, pc, admitted, list, waits>>
  BY DEF vars
<1>2. Left' = Left /\ Rs' = Rs /\ Ws' = Ws /\ Taken' = Taken
  BY <1>1 DEF Left, Rs, Ws, Taken
<1>3. Basics'
  BY <1>1, <1>2 DEF IInv, Basics
<1>4. Progress'
  BY <1>1, <1>2 DEF IInv, Progress, AtWriter, AtReader, AtAll, AtBefore, AtFavoured, AtDone
<1> QED
  BY <1>3, <1>4 DEF IInv

LEMMA Invariance == Spec => []IInv
<1>1. Init => IInv
  BY InitInv
<1>2. IInv /\ [Next]_vars => IInv'
  <2> SUFFICES ASSUME IInv, [Next]_vars  PROVE IInv'
    OBVIOUS
  <2>1. ASSUME NEW p \in Waiting, NEW t \in {"READ", "WRITE"}, NEW k \in WaitPrios, Wait(p, t, k)
        PROVE  IInv'
    BY <2>1, WaitStep
  <2>2. ASSUME NEW p \in Waiting, Kill(p)  PROVE IInv'
    BY <2>2, KillStep
  <2>3. CASE Begin
    BY <2>3, BeginStep
  <2>4. CASE Writer
    BY <2>4, WriterStep
  <2>5. CASE Reader
    BY <2>5, ReaderStep
  <2>6. CASE TakeLast
    BY <2>6, TakeLastStep
  <2>7. CASE AfterTaking
    BY <2>7, AfterTakingStep
  <2>8. CASE TakeFavoured
    BY <2>8, TakeFavouredStep
  <2>9. CASE AfterFavoured
    BY <2>9, AfterFavouredStep
  <2>10. CASE Return
    BY <2>10, ReturnStep
  <2>11. CASE UNCHANGED vars
    BY <2>11, StutterStep
  <2> QED
    BY <2>1, <2>2, <2>3, <2>4, <2>5, <2>6, <2>7, <2>8, <2>9, <2>10, <2>11 DEF Next, Loop
<1> QED
  BY <1>1, <1>2, PTL DEF Spec

\* insert() and dequeue() keep both directions of the links of q[] the list of
\* the waiters that are left, from one pass of a loop to the next, for any keys
\* and any sequence of joining, killing and releasing.
THEOREM LinkedTheorem == Spec => []Linked
<1>1. IInv => Linked
  BY DEF IInv, Basics, Holds, Linked
<1> QED
  BY <1>1, Invariance, PTL

\* The loop of insert() ends for every process that may join between two releases,
\* and the table it leaves is the only one it can leave: it never runs past the
\* tail and never round a circle.
THEOREM InsertEndsTheorem ==
  Spec => [](pc = "idle" => \A p \in Waiting \ Pids(list), k \in WaitPrios :
               \E u : QInsert(q, p, lhead, k) = {u})
<1>1. IInv => (pc = "idle" => \A p \in Waiting \ Pids(list), k \in WaitPrios :
                 \E u : QInsert(q, p, lhead, k) = {u})
  <2> SUFFICES ASSUME IInv, pc = "idle", NEW p \in Waiting, p \notin Pids(list), NEW k \in WaitPrios
               PROVE  \E u : QInsert(q, p, lhead, k) = {u}
    OBVIOUS
  <2>1. ListType(list) /\ Holds(q, list)
    BY BasicFacts DEF IInv, Basics
  <2>2. \E u : QInsert(q, p, lhead, k) = {u} /\ Holds(u, Insert(list, p, k))
    BY <2>1, HoldsInsert, Zenon
  <2> QED
    BY <2>2
<1> QED
  BY <1>1, Invariance, PTL

\* When the loops of release() are through, they have called lockAcquired() for
\* exactly the processes that RWLock admits at once.
THEOREM AdmitsTheorem == Spec => []AdmitsAdmitted
<1>1. IInv => AdmitsAdmitted
  <2> SUFFICES ASSUME IInv, pc = "done"  PROVE admitted = Pids(RW!Admitted(0))
    BY DEF AdmitsAdmitted
  <2>1. ListType(list) /\ admitted = Pids(Goal(list, type))
    BY DEF IInv, Basics, Progress, AtDone
  <2>2. RW!Admitted(0) = Goal(list, type)
    BY <2>1, GoalIs
  <2> QED
    BY <2>1, <2>2
<1> QED
  BY <1>1, Invariance, PTL
=============================================================================
