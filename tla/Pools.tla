------------------------------- MODULE Pools -------------------------------
(***************************************************************************)
(* Buffer pools (sys/mkpool.c, getbuf.c, freebuf.c): a chain of free       *)
(* buffers and a semaphore that counts them.  The chain is changed with    *)
(* interrupts disabled, the semaphore before or after that.                *)
(***************************************************************************)
EXTENDS Heap, Sequences, Functions

CONSTANTS
  Users,      \* the processes that get and free buffers
  NBPOOLS,    \* size of bptab[]
  PoolKinds   \* what mkpool() is given: bufsiz in words and numbufs

ASSUME PoolsAssumption ==
  /\ IsFiniteSet(Users) /\ NBPOOLS \in Nat
  /\ PoolKinds \subseteq [size : Nat \ {0}, num : Nat \ {0}]

VARIABLES
  bptab,   \* the pools made so far: bptotal, bpsize, the chain at bpnext, the count of
           \* bpsem and who waits for it, and where the pool's memory begins
  busy,    \* busy[p]: where p is in getbuf() or freebuf(), and in which pool
  owned    \* owned[p]: the buffers p has: pool and address

poolVars == <<bptab, busy, owned>>

Free == [at |-> "idle", pool |-> 0]

PoolsInit == bptab = <<>> /\ busy = [p \in Users |-> Free] /\ owned = [p \in Users |-> {}]

\* Mutant: the buffers lie too close.
NoHeader(kind) == kind.size
Stride(kind)   == kind.size + 1   \* sizeof(int) for the pool's number

\* Mutant: the semaphore begins one too high.
OneMore(kind) == kind.num + 1
Units(kind)   == kind.num

Mkpool(kind) ==
  /\ Len(bptab) < NBPOOLS
  /\ \E b \in memlist :
       /\ GetmemFrom(b, (kind.size + 1) * kind.num)
       /\ bptab' = Append(bptab,
            [total |-> kind.num, size |-> kind.size, where |-> b.at, sem |-> Units(kind), waiting |-> <<>>,
             next |-> [i \in 1 .. kind.num |-> b.at + (i - 1) * Stride(kind)]])
  /\ UNCHANGED <<busy, owned>>

At(p, at, k) == busy' = [busy EXCEPT ![p] = [at |-> at, pool |-> k]]

\* wait() and signal() on the semaphore of pool k.
Waited(k, p) == [bptab EXCEPT ![k].sem = @ - 1,
                              ![k].waiting = IF bptab[k].sem > 0 THEN @ ELSE Append(@, p)]

\* getbuf(), up to the wait().
Getbuf(p, k) ==
  /\ busy[p] = Free /\ k \in DOMAIN bptab
  /\ bptab' = Waited(k, p) /\ At(p, "take", k)
  /\ UNCHANGED <<owned, heapVars>>

\* Mutant: the chain keeps the buffer that is given away.
Kept(chain) == chain
Rest(chain) == Tail(chain)

\* The first buffer of the chain.
Taken(p, k) == owned' = [owned EXCEPT ![p] = @ \cup {[pool |-> k, buf |-> Head(bptab[k].next)]}]

\* The rest of getbuf(), once p has passed the wait().
GetbufTake(p) ==
  LET k == busy[p].pool IN
  /\ busy[p].at = "take" /\ \A i \in DOMAIN bptab[k].waiting : bptab[k].waiting[i] # p
  /\ Taken(p, k) /\ bptab' = [bptab EXCEPT ![k].next = Rest(@)]
  /\ At(p, "idle", 0) /\ UNCHANGED heapVars

Nbgetbuf(p, k) ==
  /\ busy[p] = Free /\ k \in DOMAIN bptab /\ bptab[k].sem > 0
  /\ bptab' = [bptab EXCEPT ![k].sem = @ - 1, ![k].next = Rest(@)] /\ Taken(p, k)
  /\ UNCHANGED <<busy, heapVars>>

\* freebuf(), up to the restore().
Freebuf(p, o) ==
  /\ busy[p] = Free /\ o \in owned[p]
  /\ owned' = [owned EXCEPT ![p] = @ \ {o}]
  /\ bptab' = [bptab EXCEPT ![o.pool].next = <<o.buf>> \o @]
  /\ At(p, "signal", o.pool) /\ UNCHANGED heapVars

FreebufSignal(p) ==
  LET k == busy[p].pool
      w == bptab[k].waiting IN
  /\ busy[p].at = "signal"
  /\ bptab' = [bptab EXCEPT ![k].sem = @ + 1, ![k].waiting = IF w = <<>> THEN w ELSE Tail(w)]
  /\ At(p, "idle", 0) /\ UNCHANGED <<owned, heapVars>>

PoolsNext ==
  \/ \E kind \in PoolKinds : Mkpool(kind)
  \/ \E p \in Users : \/ \E k \in DOMAIN bptab : Getbuf(p, k) \/ Nbgetbuf(p, k)
                      \/ \E o \in owned[p] : Freebuf(p, o)
                      \/ GetbufTake(p) \/ FreebufSignal(p)

PoolsSpec == HeapInit /\ PoolsInit /\ [][PoolsNext]_<<heapVars, poolVars>>
-----------------------------------------------------------------------------
(* Properties. *)

In(k, ats) == {p \in Users : busy[p].pool = k /\ busy[p].at \in ats}

\* Whoever has passed the wait() finds a buffer (getbuf.c:24-30, 53-62,
\* freebuf.c:27-30): the chain is what the semaphore counts, and what is promised
\* to those who have not taken theirs or are about to signal.
ChainCounted ==
  \A k \in DOMAIN bptab :
    Len(bptab[k].next) = bptab[k].sem + Cardinality(In(k, {"take", "signal"}))

\* A buffer is in the chain of its pool once, or with one owner.
OneOwner ==
  \A k \in DOMAIN bptab :
    LET chain == bptab[k].next
        mine(p) == {o.buf : o \in {x \in owned[p] : x.pool = k}}
    IN  /\ \A i, j \in DOMAIN chain : chain[i] = chain[j] => i = j
        /\ \A p \in Users : mine(p) \cap Range(chain) = {}
        /\ \A p, r \in Users : p = r \/ mine(p) \cap mine(r) = {}
        /\ Cardinality(Range(chain) \cup UNION {mine(p) : p \in Users}) = bptab[k].total

\* The buffers of all pools lie in memory of their pool, each with its header and
\* apart from the others (mkpool.c:28, 38-41).
Buffers(k) == Range(bptab[k].next) \cup {o.buf : o \in {x \in UNION Range(owned) : x.pool = k}}
BuffersApart ==
  \A k \in DOMAIN bptab :
    LET whole(b) == Block(b, bptab[k].size + 1) IN
    /\ \A b, c \in Buffers(k) : b = c \/ Apart(whole(b), whole(c))
    /\ \E u \in used : /\ u.at = bptab[k].where
                       /\ \A b \in Buffers(k) : u.at <= b /\ End(whole(b)) <= End(Extent(u))

\* Whoever waits for a buffer gets one of its own (mkpool.c, getbuf.c, freebuf.c).
PoolsRight == ChainCounted /\ OneOwner /\ BuffersApart
=============================================================================
