---------------------------- MODULE MemoryProof ----------------------------
(***************************************************************************)
(* For every memory and all sizes: no word of memory is handed out twice,  *)
(* none is lost, and free blocks that touch are joined.  For any kinds of  *)
(* pools and any number of users: whoever has passed the wait() of         *)
(* getbuf() finds a buffer, which nobody else has.  For queues of any size *)
(* and items of any priorities: they leave as PriorityLanes says, and no   *)
(* array is lost but in a slot for which newq() got only one.              *)
(* For every file, any number of servers and any bounds on retries: the    *)
(* image in memory that is jumped to is the file, and a server's transfer  *)
(* completes only then.  The argument: between the stores of the loop the  *)
(* handlers see either block 0, which no packet carries, or a block and a  *)
(* position in memory that belong together.  For rings and blocks of any   *)
(* size: when a block put into the memory of an EtherExpress overlaps      *)
(* nothing.  For arrays of any length and any keys: qsort() sorts, on a    *)
(* stack that grows with the logarithm of the length only.                 *)
(***************************************************************************)
EXTENDS Boot, TxRing, Pools, ItemQueue, Qsort, ListProof, FunctionTheorems

BlockType == [at : Int, len : Nat \ {0}]

\* The blocks are blocks, and a stack's length is what create() may ask for.
HeapTypes ==
  /\ memlist \subseteq BlockType
  /\ used \subseteq [at : Int, len : Nat \ {0}, of : {"mem", "stk"}]
  /\ \A u \in used : u.of = "stk" => roundmb(u.len) = u.len

HeapInv == HeapTypes /\ NoOverlap

\* Rounding gives a length that is not smaller (h/mem.h:18).
LEMMA RoundUp == ASSUME NEW n \in Nat \ {0} PROVE roundmb(n) \in Nat \ {0} /\ roundmb(n) >= n
  BY DEF roundmb

LEMMA ExtentType ==
  ASSUME NEW u \in [at : Int, len : Nat \ {0}, of : {"mem", "stk"}]
  PROVE  Extent(u) \in BlockType
<1>1. u.at \in Int /\ u.len \in Nat \ {0}
  OBVIOUS
<1>2. roundmb(u.len) \in Nat \ {0}
  BY <1>1, RoundUp
<1> QED BY <1>1, <1>2 DEF Extent, Block, BlockType

\* A block cut in two: what is apart from it is apart from both parts, and the
\* parts are apart from each other (getmem.c:31-34, getstk.c:39-41).
LEMMA Cut ==
  ASSUME NEW b \in BlockType, NEW n \in Nat \ {0}, n <= b.len,
         HeapInv, b \in memlist,
         NEW at \in Int, NEW taken \in BlockType,
         \/ at = b.at + n /\ taken = Block(b.at, n)
         \/ at = b.at /\ taken = Block(End(b) - n, n),
         memlist' = Shrunk(b, at, n)
  PROVE  /\ memlist' \subseteq BlockType
         /\ \A c, d \in memlist' : c = d \/ Apart(c, d)
         /\ \A c \in memlist' : Apart(taken, c)
         /\ \A u \in used : \A c \in memlist' : Apart(Extent(u), c)
         /\ \A u \in used : Apart(Extent(u), taken)
<1>1. memlist \subseteq BlockType /\ \A c, d \in memlist : c = d \/ Apart(c, d)
  BY DEF HeapInv, HeapTypes, NoOverlap
<1>2. \A u \in used : Extent(u) \in BlockType /\ \A c \in memlist : Apart(Extent(u), c)
  BY ExtentType DEF HeapInv, HeapTypes, NoOverlap
<1>3. taken.at \in Int /\ taken.len = n /\ b.at <= taken.at /\ End(taken) <= End(b)
  BY DEF Block, End, BlockType
<1>4. \A c \in BlockType : Apart(c, b) => Apart(c, taken) /\ Apart(taken, c)
  BY <1>3 DEF Apart, End, BlockType
<1>5. CASE b.len = n
  <2>1. memlist' = memlist \ {b}
    BY <1>5 DEF Shrunk
  <2> QED BY <1>1, <1>2, <1>4, <2>1 DEF Apart
<1>6. CASE b.len # n
  <2> DEFINE r == Block(at, b.len - n)
  <2>1. memlist' = (memlist \ {b}) \cup {r}
    BY <1>6 DEF Shrunk
  <2>2. r \in BlockType /\ b.at <= r.at /\ End(r) <= End(b) /\ Apart(taken, r)
    BY <1>6 DEF Block, End, BlockType, Apart
  <2>3. \A c \in BlockType : Apart(c, b) => Apart(c, r) /\ Apart(r, c)
    BY <2>2 DEF Apart, End, BlockType
  <2> HIDE DEF r
  <2> QED BY <1>1, <1>2, <1>4, <2>1, <2>2, <2>3 DEF Apart
<1> QED BY <1>5, <1>6

THEOREM InitHeap == ASSUME HeapInit PROVE HeapInv
BY HeapAssumption DEF HeapInit, HeapInv, HeapTypes, NoOverlap, BlockType

\* The invariant with one more block handed out.
LEMMA Handed ==
  ASSUME HeapInv, NEW taken, NEW new \in [at : Int, len : Nat \ {0}, of : {"mem", "stk"}],
         Extent(new) = taken, new.of = "stk" => roundmb(new.len) = new.len,
         used' = used \cup {new}, memlist' \subseteq BlockType,
         \A c, d \in memlist' : c = d \/ Apart(c, d),
         \A c \in memlist' : Apart(taken, c),
         \A u \in used : \A c \in memlist' : Apart(Extent(u), c),
         \A u \in used : Apart(Extent(u), taken)
  PROVE  HeapInv'
<1>1. HeapTypes'
  BY DEF HeapInv, HeapTypes
<1>2. \A u \in used' : \A c \in memlist' : Apart(Extent(u), c)
  OBVIOUS
<1>3. \A u, v \in used' : u = v \/ Apart(Extent(u), Extent(v))
  BY DEF HeapInv, NoOverlap, Apart
<1> QED BY <1>1, <1>2, <1>3 DEF HeapInv, NoOverlap

LEMMA GetmemStep ==
  ASSUME HeapInv, NEW n \in Nat \ {0}, Getmem(n) PROVE HeapInv'
<1> DEFINE m == roundmb(n)
<1>1. n \in Nat \ {0} /\ m \in Nat \ {0}
  BY RoundUp
<1>2. PICK b \in memlist :
        /\ b.len >= m /\ memlist' = Shrunk(b, Leftover(b, m), m)
        /\ used' = used \cup {[at |-> b.at, len |-> n, of |-> "mem"]}
  BY DEF Getmem, GetmemFrom, Fitting
<1>3. b \in BlockType
  BY DEF HeapInv, HeapTypes
<1> DEFINE taken == Block(b.at, m)
           at    == Leftover(b, m)
           new   == [at |-> b.at, len |-> n, of |-> "mem"]
<1>4. at = b.at + m /\ at \in Int
  BY <1>1, <1>3 DEF Leftover, BlockType
<1>5. taken \in BlockType
  BY <1>1, <1>3 DEF Block, BlockType
<1>6. m <= b.len
  BY <1>1, <1>2, <1>3 DEF BlockType
<1>7. new \in [at : Int, len : Nat \ {0}, of : {"mem", "stk"}] /\ Extent(new) = taken /\ new.of = "mem"
  BY <1>1, <1>3 DEF Extent, BlockType
<1> HIDE DEF m, taken, at, new
<1>8. /\ memlist' \subseteq BlockType
      /\ \A c, d \in memlist' : c = d \/ Apart(c, d)
      /\ \A c \in memlist' : Apart(taken, c)
      /\ \A u \in used : \A c \in memlist' : Apart(Extent(u), c)
      /\ \A u \in used : Apart(Extent(u), taken)
  <2>1. memlist' = Shrunk(b, at, m)
    BY <1>2 DEF at, m
  <2>2. taken = Block(b.at, m)
    BY DEF taken
  <2> QED BY <1>1, <1>3, <1>4, <1>5, <1>6, <2>1, <2>2, Cut
<1>9. used' = used \cup {new}
  BY <1>2 DEF new
<1> QED BY <1>7, <1>8, <1>9, Handed

LEMMA GetstkStep ==
  ASSUME HeapInv, NEW n \in StackSizes, Getstk(n) PROVE HeapInv'
<1>1. n \in Nat \ {0} /\ roundmb(n) = n
  BY HeapAssumption
<1>2. PICK b \in memlist :
        /\ b.len >= n /\ memlist' = Shrunk(b, b.at, n)
        /\ used' = used \cup {[at |-> End(b) - n, len |-> n, of |-> "stk"]}
  BY DEF Getstk, Fitting
<1>3. b \in BlockType
  BY DEF HeapInv, HeapTypes
<1> DEFINE taken == Block(End(b) - n, n)
           new   == [at |-> End(b) - n, len |-> n, of |-> "stk"]
<1>4. b.at \in Int /\ n <= b.len
  BY <1>1, <1>2, <1>3 DEF BlockType
<1>5. taken \in BlockType
  BY <1>1, <1>3 DEF Block, BlockType, End
<1>6. new \in [at : Int, len : Nat \ {0}, of : {"mem", "stk"}] /\ Extent(new) = taken /\ new.len = n
  BY <1>1, <1>3 DEF Extent, BlockType, End
<1>7. taken = Block(End(b) - n, n)
  OBVIOUS
<1>8. used' = used \cup {new}
  BY <1>2
<1> HIDE DEF taken, new
<1>9. /\ memlist' \subseteq BlockType
      /\ \A c, d \in memlist' : c = d \/ Apart(c, d)
      /\ \A c \in memlist' : Apart(taken, c)
      /\ \A u \in used : \A c \in memlist' : Apart(Extent(u), c)
      /\ \A u \in used : Apart(Extent(u), taken)
  BY <1>1, <1>2, <1>3, <1>4, <1>5, <1>7, Cut
<1> QED BY <1>1, <1>6, <1>8, <1>9, Handed

\* What is returned is joined with at most one block on either side; the new block
\* covers them and the words between, and nothing else (freemem.c:32-43).
LEMMA FreedStep ==
  ASSUME HeapInv, NEW u \in used, used' = used \ {u},
         ~Refused(Extent(u).at, Extent(u).len), memlist' = Freed(Extent(u).at, Extent(u).len)
  PROVE  HeapInv'
<1> DEFINE at   == Extent(u).at
           size == Extent(u).len
           t    == Touching(at, size)
           low  == {b \in t : b.at < at}
           high == t \ low
           l    == CHOOSE b \in low : TRUE
           h    == CHOOSE b \in high : TRUE
           from == IF low = {} THEN at ELSE l.at
           len  == size + (IF low = {} THEN 0 ELSE l.len) + (IF high = {} THEN 0 ELSE h.len)
           new  == Block(from, len)
<1>1. at \in Int /\ size \in Nat \ {0} /\ Extent(u) \in BlockType
  BY ExtentType DEF HeapInv, HeapTypes, BlockType
<1>2. memlist \subseteq BlockType /\ \A b, c \in memlist : b = c \/ Apart(b, c)
  BY DEF HeapInv, HeapTypes, NoOverlap
<1>3. memlist' = (memlist \ t) \cup {new}
  BY DEF Freed
<1>4. t \subseteq memlist /\ \A b \in t : End(b) = at \/ b.at = at + size
  BY DEF Touching
<1>5. low # {} => l \in memlist /\ l \in t /\ End(l) = at /\ l.at < at
  BY <1>1, <1>2, <1>4 DEF BlockType, End
<1>6. high # {} => h \in memlist /\ h \in t /\ h.at = at + size
  BY <1>1, <1>2, <1>4 DEF BlockType, End
<1>7. at = Extent(u).at /\ size = Extent(u).len
  OBVIOUS
<1>8. new \in BlockType /\ new.at = from /\ new.len = len
  <2>1. low # {} => l.at \in Int /\ l.len \in Nat
    BY <1>2, <1>5 DEF BlockType
  <2>2. high # {} => h.len \in Nat
    BY <1>2, <1>6 DEF BlockType
  <2> HIDE DEF l, h, low, high, at, size
  <2> QED BY <1>1, <2>1, <2>2 DEF Block, BlockType
<1>9. ASSUME NEW c \in BlockType, Apart(c, Extent(u)),
             low # {} => Apart(c, l), high # {} => Apart(c, h)
      PROVE  Apart(c, new) /\ Apart(new, c)
  <2>1. low # {} => l.at \in Int /\ l.len \in Nat \ {0}
    BY <1>2, <1>5 DEF BlockType
  <2>2. high # {} => h.at \in Int /\ h.len \in Nat \ {0}
    BY <1>2, <1>6 DEF BlockType
  <2>3. from = (IF low = {} THEN at ELSE l.at)
        /\ len = size + (IF low = {} THEN 0 ELSE l.len) + (IF high = {} THEN 0 ELSE h.len)
    OBVIOUS
  <2> HIDE DEF l, h, low, high, at, size, new, from, len
  <2> QED BY <1>1, <1>5, <1>6, <1>7, <1>8, <1>9, <2>1, <2>2, <2>3 DEF Apart, End, BlockType
<1>10. \A b \in memlist \ t : Apart(b, new) /\ Apart(new, b)
  <2> SUFFICES ASSUME NEW b \in memlist \ t PROVE Apart(b, new) /\ Apart(new, b)
    OBVIOUS
  <2>1. b \in BlockType
    BY <1>2
  <2>2. Apart(b, Extent(u))
    BY DEF HeapInv, NoOverlap, Apart
  <2>3. (low # {} => Apart(b, l)) /\ (high # {} => Apart(b, h))
    BY <1>2, <1>5, <1>6
  <2> HIDE DEF l, h, low, high, new
  <2> QED BY <1>9, <2>1, <2>2, <2>3
<1>11. \A v \in used' : Apart(Extent(v), new)
  <2> SUFFICES ASSUME NEW v \in used' PROVE Apart(Extent(v), new)
    OBVIOUS
  <2>1. v \in used /\ v # u /\ Extent(v) \in BlockType
    BY ExtentType DEF HeapInv, HeapTypes
  <2>2. Apart(Extent(v), Extent(u))
    BY <2>1 DEF HeapInv, NoOverlap
  <2>3. (low # {} => Apart(Extent(v), l)) /\ (high # {} => Apart(Extent(v), h))
    BY <1>5, <1>6, <2>1 DEF HeapInv, NoOverlap
  <2> HIDE DEF l, h, low, high, new
  <2> QED BY <1>9, <2>1, <2>2, <2>3
<1> HIDE DEF new, t
<1>12. HeapTypes'
  BY <1>2, <1>3, <1>8 DEF HeapInv, HeapTypes
<1>13. \A b, c \in memlist' : b = c \/ Apart(b, c)
  BY <1>2, <1>3, <1>10
<1>14. \A v \in used' : \A b \in memlist' : Apart(Extent(v), b)
  BY <1>3, <1>11 DEF HeapInv, NoOverlap
<1>15. \A v, w \in used' : v = w \/ Apart(Extent(v), Extent(w))
  BY DEF HeapInv, NoOverlap
<1> QED BY <1>12, <1>13, <1>14, <1>15 DEF HeapInv, NoOverlap

LEMMA ReleaseStep == ASSUME HeapInv, NEW u, Release(u) PROVE HeapInv'
<1>1. u \in used /\ used' = used \ {u}
  BY DEF Release
<1>2. u \in [at : Int, len : Nat \ {0}, of : {"mem", "stk"}]
      /\ (u.of = "stk" => roundmb(u.len) = u.len)
  BY <1>1 DEF HeapInv, HeapTypes
<1>3. Extent(u).at = u.at /\ Extent(u).len = roundmb(u.len)
  BY <1>2 DEF Extent, Block
<1>4. Freemem(Extent(u).at, Extent(u).len)
  <2>1. u.at + u.len - u.len = u.at
    BY <1>2
  <2> QED BY <1>2, <1>3, <2>1 DEF Release
<1>5. CASE Refused(Extent(u).at, Extent(u).len)
  <2>1. memlist' = memlist
    BY <1>4, <1>5 DEF Freemem
  <2> QED BY <1>1, <2>1 DEF HeapInv, HeapTypes, NoOverlap
<1>6. CASE ~Refused(Extent(u).at, Extent(u).len)
  <2>1. memlist' = Freed(Extent(u).at, Extent(u).len)
    BY <1>4, <1>6 DEF Freemem
  <2> QED BY <1>1, <1>6, <2>1, FreedStep
<1> QED BY <1>5, <1>6

\* Every call keeps the invariant.
LEMMA HeapInvKept == HeapInv /\ [HeapNext]_heapVars => HeapInv'
<1> SUFFICES ASSUME HeapInv, [HeapNext]_heapVars PROVE HeapInv'
  OBVIOUS
<1>1. ASSUME NEW n \in Sizes, Getmem(n) PROVE HeapInv'
  BY <1>1, HeapAssumption, GetmemStep
<1>2. ASSUME NEW n \in StackSizes, Getstk(n) PROVE HeapInv'
  BY <1>2, GetstkStep
<1>3. ASSUME NEW u \in used, Release(u) PROVE HeapInv'
  BY <1>3, ReleaseStep
<1>4. CASE UNCHANGED heapVars
  BY <1>4 DEF heapVars, HeapInv, HeapTypes, NoOverlap
<1> QED BY <1>1, <1>2, <1>3, <1>4 DEF HeapNext

\* No word is handed out twice, or free and handed out (getmem.c, getstk.c,
\* freemem.c), for every memory and all sizes of blocks and stacks.
THEOREM NoOverlapTheorem == HeapSpec => []NoOverlap
<1>1. HeapInit => HeapInv
  BY InitHeap
<1>2. HeapInv /\ [HeapNext]_heapVars => HeapInv'
  BY HeapInvKept
<1>3. HeapInv => NoOverlap
  BY DEF HeapInv
<1> QED BY <1>1, <1>2, <1>3, PTL DEF HeapSpec
-----------------------------------------------------------------------------
(* Memory stays whole. *)

Holds(b, w) == b.at <= w /\ w < End(b)

\* Every word of memory is free or handed out, word by word.
Covered ==
  \A w \in Int : ((\E b \in memlist : Holds(b, w)) \/ (\E u \in used : Holds(Extent(u), w)))
                   <=> \E b \in Memory : Holds(b, w)

WholeInv == HeapInv /\ Joined /\ Covered

LEMMA WordsHeld ==
  ASSUME NEW S \in SUBSET BlockType
  PROVE  Words(S) \subseteq Int /\ \A w \in Int : w \in Words(S) <=> \E b \in S : Holds(b, w)
<1>1. \A b \in S : b.at \in Int /\ End(b) \in Int
  BY DEF BlockType, End
<1>2. \A b \in S : \A w : w \in b.at .. End(b) - 1 <=> w \in Int /\ Holds(b, w)
  BY <1>1 DEF Holds
<1> QED BY <1>2 DEF Words

\* A block cut in two leaves nothing out, and the rest touches no free block
\* (getmem.c:31-34, getstk.c:39-41).
LEMMA CutWhole ==
  ASSUME NEW b \in BlockType, NEW n \in Nat \ {0}, n <= b.len,
         WholeInv, b \in memlist,
         NEW at \in Int, NEW taken \in BlockType,
         \/ at = b.at + n /\ taken = Block(b.at, n)
         \/ at = b.at /\ taken = Block(End(b) - n, n),
         NEW new, Extent(new) = taken, used' = used \cup {new},
         memlist' = Shrunk(b, at, n)
  PROVE  Joined' /\ Covered'
<1>1. memlist \subseteq BlockType /\ \A c, d \in memlist : c = d \/ Apart(c, d)
  BY DEF WholeInv, HeapInv, HeapTypes, NoOverlap
<1>2. \A c, d \in memlist : End(c) # d.at
  BY DEF WholeInv, Joined
<1>3. CASE b.len = n
  <2>1. memlist' = memlist \ {b}
    BY <1>3 DEF Shrunk
  <2>2. Joined'
    BY <1>2, <2>1 DEF Joined
  <2>3. \A w : Holds(taken, w) <=> Holds(b, w)
    BY <1>3 DEF Holds, Block, End, BlockType
  <2>4. \A w : (\E c \in memlist : Holds(c, w)) <=> Holds(taken, w) \/ \E c \in memlist' : Holds(c, w)
    BY <2>1, <2>3
  <2>5. \A w : (\E u \in used' : Holds(Extent(u), w)) <=> Holds(taken, w) \/ \E u \in used : Holds(Extent(u), w)
    OBVIOUS
  <2>6. Covered'
    BY <2>4, <2>5 DEF WholeInv, Covered
  <2> QED BY <2>2, <2>6
<1>4. CASE b.len # n
  <2> DEFINE r == Block(at, b.len - n)
  <2>1. memlist' = (memlist \ {b}) \cup {r}
    BY <1>4 DEF Shrunk
  <2>2. r \in BlockType /\ b.at <= r.at /\ End(r) <= End(b) /\ (r.at = b.at \/ End(r) = End(b))
    BY <1>4 DEF Block, End, BlockType
  <2>3. \A w \in Int : Holds(b, w) <=> Holds(taken, w) \/ Holds(r, w)
    BY <1>4 DEF Holds, Block, End, BlockType
  <2>4. ASSUME NEW c \in memlist \ {b} PROVE End(c) # r.at /\ End(r) # c.at
    <3>1. c \in BlockType /\ Apart(c, b) /\ End(c) # b.at /\ End(b) # c.at
      BY <1>1, <1>2
    <3> HIDE DEF r
    <3> QED BY <2>2, <3>1 DEF Apart, End, BlockType
  <2>5. End(r) # r.at
    BY <2>2 DEF End, BlockType
  <2> HIDE DEF r
  <2>6. Joined'
    BY <1>2, <2>1, <2>4, <2>5 DEF Joined
  <2>7. \A w \in Int : (\E c \in memlist : Holds(c, w)) <=> Holds(taken, w) \/ \E c \in memlist' : Holds(c, w)
    BY <2>1, <2>3
  <2>8. \A w : (\E u \in used' : Holds(Extent(u), w)) <=> Holds(taken, w) \/ \E u \in used : Holds(Extent(u), w)
    OBVIOUS
  <2>9. Covered'
    BY <2>7, <2>8 DEF WholeInv, Covered
  <2> QED BY <2>6, <2>9
<1> QED BY <1>3, <1>4

LEMMA GetmemWhole ==
  ASSUME WholeInv, NEW n \in Sizes, Getmem(n) PROVE Joined' /\ Covered'
<1> DEFINE m == roundmb(n)
<1>1. n \in Nat \ {0} /\ m \in Nat \ {0}
  BY HeapAssumption, RoundUp
<1>2. PICK b \in memlist :
        /\ b.len >= m /\ memlist' = Shrunk(b, Leftover(b, m), m)
        /\ used' = used \cup {[at |-> b.at, len |-> n, of |-> "mem"]}
  BY DEF Getmem, GetmemFrom, Fitting
<1>3. b \in BlockType
  BY DEF WholeInv, HeapInv, HeapTypes
<1> DEFINE taken == Block(b.at, m)
           at    == Leftover(b, m)
           new   == [at |-> b.at, len |-> n, of |-> "mem"]
<1>4. at = b.at + m /\ at \in Int
  BY <1>1, <1>3 DEF Leftover, BlockType
<1>5. taken \in BlockType /\ taken = Block(b.at, m)
  BY <1>1, <1>3 DEF Block, BlockType
<1>6. m <= b.len
  BY <1>1, <1>2, <1>3 DEF BlockType
<1>7. Extent(new) = taken
  BY <1>1, <1>3 DEF Extent, BlockType
<1>8. used' = used \cup {new} /\ memlist' = Shrunk(b, at, m)
  BY <1>2
<1> HIDE DEF m, taken, at, new
<1> QED BY <1>1, <1>3, <1>4, <1>5, <1>6, <1>7, <1>8, CutWhole

LEMMA GetstkWhole ==
  ASSUME WholeInv, NEW n \in StackSizes, Getstk(n) PROVE Joined' /\ Covered'
<1>1. n \in Nat \ {0}
  BY HeapAssumption
<1>2. PICK b \in memlist :
        /\ b.len >= n /\ memlist' = Shrunk(b, b.at, n)
        /\ used' = used \cup {[at |-> End(b) - n, len |-> n, of |-> "stk"]}
  BY DEF Getstk, Fitting
<1>3. b \in BlockType
  BY DEF WholeInv, HeapInv, HeapTypes
<1> DEFINE taken == Block(End(b) - n, n)
           new   == [at |-> End(b) - n, len |-> n, of |-> "stk"]
<1>4. b.at \in Int /\ n <= b.len
  BY <1>1, <1>2, <1>3 DEF BlockType
<1>5. taken \in BlockType /\ taken = Block(End(b) - n, n)
  BY <1>1, <1>3 DEF Block, BlockType, End
<1>6. Extent(new) = taken
  BY <1>1, <1>3 DEF Extent, BlockType, End
<1>7. used' = used \cup {new}
  BY <1>2
<1> HIDE DEF taken, new
<1> QED BY <1>1, <1>2, <1>3, <1>4, <1>5, <1>6, <1>7, CutWhole

\* freemem() refuses no owner (freemem.c:27-30).
LEMMA NotRefused ==
  ASSUME HeapInv, NEW u \in used PROVE ~Refused(Extent(u).at, Extent(u).len)
<1>1. Extent(u) \in BlockType
  BY ExtentType DEF HeapInv, HeapTypes
<1>2. \A b \in memlist : b \in BlockType /\ Apart(Extent(u), b)
  BY DEF HeapInv, HeapTypes, NoOverlap
<1> QED BY <1>1, <1>2 DEF Refused, Apart, End, BlockType

\* The joined block is what is returned with the free blocks on both sides
\* (freemem.c:32-43).
LEMMA FreedWhole ==
  ASSUME WholeInv, NEW u \in used, used' = used \ {u},
         memlist' = Freed(Extent(u).at, Extent(u).len)
  PROVE  Joined' /\ Covered'
<1> DEFINE at   == Extent(u).at
           size == Extent(u).len
           t    == Touching(at, size)
           low  == {b \in t : b.at < at}
           high == t \ low
           l    == CHOOSE b \in low : TRUE
           h    == CHOOSE b \in high : TRUE
           from == IF low = {} THEN at ELSE l.at
           len  == size + (IF low = {} THEN 0 ELSE l.len) + (IF high = {} THEN 0 ELSE h.len)
           new  == Block(from, len)
<1>1. at \in Int /\ size \in Nat \ {0} /\ Extent(u) \in BlockType
  BY ExtentType DEF WholeInv, HeapInv, HeapTypes, BlockType
<1>2. memlist \subseteq BlockType /\ \A b, c \in memlist : b = c \/ Apart(b, c)
  BY DEF WholeInv, HeapInv, HeapTypes, NoOverlap
<1>3. \A b, c \in memlist : End(b) # c.at
  BY DEF WholeInv, Joined
<1>4. memlist' = (memlist \ t) \cup {new}
  BY DEF Freed
<1>5. t \subseteq memlist /\ \A b \in memlist : b \in t <=> End(b) = at \/ b.at = at + size
  BY DEF Touching
<1>6. \A b \in low : b \in memlist /\ End(b) = at /\ b.at < at
  BY <1>1, <1>2, <1>5 DEF BlockType, End
<1>7. \A b \in high : b \in memlist /\ b.at = at + size
  BY <1>1, <1>2, <1>5 DEF BlockType, End
<1>8. /\ low # {} => l \in low
      /\ high # {} => h \in high
  OBVIOUS
<1>9. \A b \in low : b = l
  <2> HIDE DEF at, size, t, l
  <2> QED BY <1>1, <1>2, <1>6, <1>8 DEF Apart, End, BlockType
<1>10. \A b \in high : b = h
  <2> HIDE DEF at, size, t, low, h
  <2> QED BY <1>1, <1>2, <1>7, <1>8 DEF Apart, End, BlockType
<1>11. new.at = from /\ new.len = len
  BY DEF Block
<1>12. low # {} => l.at \in Int /\ l.len \in Nat \ {0} /\ End(l) = at
  BY <1>2, <1>6, <1>8 DEF BlockType
<1>13. high # {} => h.at \in Int /\ h.len \in Nat \ {0} /\ h.at = at + size
  BY <1>2, <1>7, <1>8 DEF BlockType
<1>14. from = (IF low = {} THEN at ELSE l.at)
       /\ len = size + (IF low = {} THEN 0 ELSE l.len) + (IF high = {} THEN 0 ELSE h.len)
  OBVIOUS
<1>15. at = Extent(u).at /\ size = Extent(u).len
  OBVIOUS
<1>16. low \cup high = t
  OBVIOUS
<1>17. /\ from \in Int /\ len \in Nat \ {0}
       /\ low = {} => from = at
       /\ low # {} => from = l.at
       /\ high = {} => from + len = at + size
       /\ high # {} => from + len = End(h)
  <2> HIDE DEF at, size, t, low, high, l, h, from, len
  <2> QED BY <1>1, <1>12, <1>13, <1>14 DEF End
<1> HIDE DEF at, size, t, low, high, l, h, from, len, new
<1>18. End(new) = from + len
  BY <1>11 DEF End
<1>19. \A w \in Int : Holds(new, w) <=>
         Holds(Extent(u), w) \/ (low # {} /\ Holds(l, w)) \/ (high # {} /\ Holds(h, w))
  <2>1. End(Extent(u)) = at + size
    BY <1>15 DEF End
  <2>2. low # {} => l.at < at
    BY <1>1, <1>12 DEF End
  <2>3. high # {} => End(h) > at + size /\ End(h) \in Int
    BY <1>1, <1>13 DEF End
  <2> QED BY <1>1, <1>11, <1>12, <1>13, <1>15, <1>17, <1>18, <2>1, <2>2, <2>3 DEF Holds
<1>20. ASSUME NEW c \in memlist \ t PROVE End(c) # new.at /\ End(new) # c.at
  <2>1. End(c) # at /\ c.at # at + size
    BY <1>5
  <2>2. (low # {} => End(c) # l.at) /\ (high # {} => End(h) # c.at)
    BY <1>3, <1>6, <1>7, <1>8
  <2> QED BY <1>11, <1>17, <1>18, <2>1, <2>2
<1>21. End(new) # new.at
  BY <1>11, <1>17, <1>18
<1>22. Joined'
  BY <1>3, <1>4, <1>20, <1>21 DEF Joined
<1>23. \A w : (\E c \in t : Holds(c, w)) <=> (low # {} /\ Holds(l, w)) \/ (high # {} /\ Holds(h, w))
  BY <1>8, <1>9, <1>10, <1>16
<1>24. ASSUME NEW w \in Int
       PROVE  (\E c \in memlist' : Holds(c, w)) <=>
                Holds(Extent(u), w) \/ \E c \in memlist : Holds(c, w)
  BY <1>4, <1>5, <1>19, <1>23
<1>25. \A w : (\E v \in used : Holds(Extent(v), w)) <=>
                Holds(Extent(u), w) \/ \E v \in used' : Holds(Extent(v), w)
  OBVIOUS
<1>26. Covered'
  BY <1>24, <1>25 DEF WholeInv, Covered
<1> QED BY <1>22, <1>26

LEMMA ReleaseWhole == ASSUME WholeInv, NEW u, Release(u) PROVE Joined' /\ Covered'
<1>1. u \in used /\ used' = used \ {u}
  BY DEF Release
<1>2. u \in [at : Int, len : Nat \ {0}, of : {"mem", "stk"}]
      /\ (u.of = "stk" => roundmb(u.len) = u.len)
  BY <1>1 DEF WholeInv, HeapInv, HeapTypes
<1>3. Extent(u).at = u.at /\ Extent(u).len = roundmb(u.len)
  BY <1>2 DEF Extent, Block
<1>4. Freemem(Extent(u).at, Extent(u).len)
  <2>1. u.at + u.len - u.len = u.at
    BY <1>2
  <2> QED BY <1>2, <1>3, <2>1 DEF Release
<1>5. memlist' = Freed(Extent(u).at, Extent(u).len)
  BY <1>1, <1>4, NotRefused DEF Freemem, WholeInv
<1> QED BY <1>1, <1>5, FreedWhole

\* Every word is free or handed out and no two free blocks touch (getmem.c,
\* getstk.c, freemem.c), for every memory and all sizes, in any order of calls.
THEOREM MemoryWholeTheorem == HeapSpec => []MemoryWhole
<1>1. HeapInit => WholeInv
  BY InitHeap, HeapAssumption DEF HeapInit, WholeInv, Joined, Covered
<1>2. WholeInv /\ [HeapNext]_heapVars => WholeInv'
  <2> SUFFICES ASSUME WholeInv, [HeapNext]_heapVars PROVE WholeInv'
    OBVIOUS
  <2>1. HeapInv'
    BY HeapInvKept DEF WholeInv
  <2>2. ASSUME NEW n \in Sizes, Getmem(n) PROVE Joined' /\ Covered'
    BY <2>2, GetmemWhole
  <2>3. ASSUME NEW n \in StackSizes, Getstk(n) PROVE Joined' /\ Covered'
    BY <2>3, GetstkWhole
  <2>4. ASSUME NEW u \in used, Release(u) PROVE Joined' /\ Covered'
    BY <2>4, ReleaseWhole
  <2>5. ASSUME UNCHANGED heapVars PROVE Joined' /\ Covered'
    BY <2>5 DEF heapVars, WholeInv, Joined, Covered
  <2> QED BY <2>1, <2>2, <2>3, <2>4, <2>5 DEF HeapNext, WholeInv
<1>3. WholeInv => MemoryWhole
  <2> SUFFICES ASSUME WholeInv PROVE NothingLost
    BY DEF WholeInv, HeapInv, MemoryWhole
  <2>1. memlist \in SUBSET BlockType /\ {Extent(u) : u \in used} \in SUBSET BlockType
    BY ExtentType DEF WholeInv, HeapInv, HeapTypes
  <2>2. Memory \in SUBSET BlockType
    BY HeapAssumption DEF BlockType
  <2>3. \A w \in Int : w \in Words(memlist) \cup Words({Extent(u) : u \in used}) <=> w \in Words(Memory)
    BY <2>1, <2>2, WordsHeld DEF WholeInv, Covered
  <2>4. Words(memlist) \subseteq Int /\ Words({Extent(u) : u \in used}) \subseteq Int /\ Words(Memory) \subseteq Int
    BY <2>1, <2>2, WordsHeld
  <2> QED BY <2>3, <2>4 DEF NothingLost
<1> QED BY <1>1, <1>2, <1>3, PTL DEF HeapSpec
-----------------------------------------------------------------------------
(* Pools of buffers *)

PoolType == [total : Nat, size : Nat \ {0}, where : Int, sem : Int, waiting : Seq(Users), next : Seq(Int)]

\* Whoever is in a call is in that of a pool that was made; a buffer is one of such a pool.
PoolTypes ==
  /\ bptab \in Seq(PoolType)
  /\ busy \in [Users -> [at : {"idle", "take", "signal"}, pool : Nat]]
  /\ owned \in [Users -> SUBSET [pool : Nat, buf : Int]]
  /\ \A p \in Users : IF busy[p].at = "idle" THEN busy[p] = Free ELSE busy[p].pool \in DOMAIN bptab
  /\ \A p \in Users : \A o \in owned[p] : o.pool \in DOMAIN bptab

\* Whoever waits is on the way to a buffer; the count says how many wait.
Awaited(k) ==
  LET w == bptab[k].waiting IN
  /\ \A i, j \in 1 .. Len(w) : w[i] = w[j] => i = j
  /\ \A i \in 1 .. Len(w) : w[i] \in In(k, {"take"})
  /\ Len(w) = IF bptab[k].sem < 0 THEN -bptab[k].sem ELSE 0

Counted(k) == Len(bptab[k].next) = bptab[k].sem + Cardinality(In(k, {"take", "signal"}))

\* ChainCounted and what it rests on.
CountInv == PoolTypes /\ \A k \in DOMAIN bptab : Awaited(k) /\ Counted(k)

\* Where the buffers of pool k are: each with one owner or once in the chain ...
Mine(p, k) == {o.buf : o \in {x \in owned[p] : x.pool = k}}
Whole(k) == Range(bptab[k].next) \cup UNION {Mine(p, k) : p \in Users}
AtHome(k) ==
  LET chain == bptab[k].next IN
  /\ \A i, j \in 1 .. Len(chain) : chain[i] = chain[j] => i = j
  /\ \A p \in Users : Mine(p, k) \cap Range(chain) = {}
  /\ \A p, r \in Users : p = r \/ Mine(p, k) \cap Mine(r, k) = {}

\* ... and all of them where mkpool() has put them.
InPlace(S, b) ==
  /\ Cardinality(S) = b.total
  /\ \A x, y \in S : x = y \/ Apart(Block(x, b.size + 1), Block(y, b.size + 1))
  /\ \E u \in used : /\ u.at = b.where
                     /\ \A x \in S : u.at <= x /\ End(Block(x, b.size + 1)) <= End(Extent(u))

PoolsInv ==
  /\ CountInv /\ memlist \subseteq BlockType
  /\ \A k \in DOMAIN bptab : AtHome(k) /\ InPlace(Whole(k), bptab[k])

LEMMA Pool ==
  ASSUME PoolTypes, NEW k \in DOMAIN bptab
  PROVE  /\ bptab[k] \in PoolType /\ k \in Nat /\ k \in 1 .. Len(bptab)
         /\ bptab[k].sem \in Int /\ bptab[k].size \in Nat \ {0}
         /\ bptab[k].waiting \in Seq(Users) /\ bptab[k].next \in Seq(Int)
         /\ Len(bptab[k].next) \in Nat /\ Len(bptab[k].waiting) \in Nat
<1>1. k \in 1 .. Len(bptab) /\ Len(bptab) \in Nat
  BY LenProperties DEF PoolTypes
<1>2. bptab[k] \in PoolType
  BY <1>1, ElementOfSeq DEF PoolTypes
<1>3. bptab[k].waiting \in Seq(Users) /\ bptab[k].next \in Seq(Int)
  BY <1>2 DEF PoolType
<1>4. Len(bptab[k].next) \in Nat /\ Len(bptab[k].waiting) \in Nat
  BY <1>3, LenProperties
<1> QED BY <1>1, <1>2, <1>3, <1>4 DEF PoolType

\* A step that changes one pool.
LEMMA OnePool ==
  ASSUME PoolTypes, NEW k \in DOMAIN bptab, NEW r \in PoolType, bptab' = [bptab EXCEPT ![k] = r]
  PROVE  /\ bptab' \in Seq(PoolType) /\ DOMAIN bptab' = DOMAIN bptab
         /\ bptab'[k] = r /\ \A j \in DOMAIN bptab : j # k => bptab'[j] = bptab[j]
<1>1. k \in 1 .. Len(bptab) /\ DOMAIN bptab = 1 .. Len(bptab)
  BY LenProperties, Pool DEF PoolTypes
<1>2. bptab' \in Seq(PoolType)
  BY <1>1, ExceptSeq DEF PoolTypes
<1> QED BY <1>1, <1>2

\* Who is in a call is one of finitely many.
LEMMA InFinite ==
  ASSUME NEW k, NEW ats PROVE IsFiniteSet(In(k, ats)) /\ Cardinality(In(k, ats)) \in Nat
<1>1. In(k, ats) \subseteq Users /\ IsFiniteSet(Users)
  BY PoolsAssumption DEF In
<1> QED BY <1>1, FS_Subset, FS_CardinalityType

\* p enters, or leaves, a call of pool k.
LEMMA Entered ==
  ASSUME PoolTypes, NEW p \in Users, NEW k \in DOMAIN bptab, NEW a \in {"take", "signal"},
         busy[p] = Free, At(p, a, k)
  PROVE  /\ busy' \in [Users -> [at : {"idle", "take", "signal"}, pool : Nat]]
         /\ \A q \in Users : busy'[q] = IF q = p THEN [at |-> a, pool |-> k] ELSE busy[q]
         /\ p \notin In(k, {"take", "signal"}) /\ p \notin In(k, {"take"})
         /\ In(k, {"take", "signal"})' = In(k, {"take", "signal"}) \cup {p}
         /\ In(k, {"take"})' = IF a = "take" THEN In(k, {"take"}) \cup {p} ELSE In(k, {"take"})
         /\ \A j : j # k => /\ In(j, {"take", "signal"})' = In(j, {"take", "signal"})
                            /\ In(j, {"take"})' = In(j, {"take"})
<1>1. busy' = [busy EXCEPT ![p] = [at |-> a, pool |-> k]] /\ k \in Nat
  BY Pool DEF At
<1>2. busy' \in [Users -> [at : {"idle", "take", "signal"}, pool : Nat]]
  BY <1>1 DEF PoolTypes
<1>3. \A q \in Users : busy'[q] = IF q = p THEN [at |-> a, pool |-> k] ELSE busy[q]
  BY <1>1 DEF PoolTypes
<1>4. busy[p].at = "idle"
  BY DEF Free
<1>5. busy'[p].at = a /\ busy'[p].pool = k
  BY <1>3
<1>6. \A q \in Users : q # p => busy'[q] = busy[q]
  BY <1>3
<1> QED BY <1>2, <1>3, <1>4, <1>5, <1>6 DEF In

LEMMA Left ==
  ASSUME PoolTypes, NEW p \in Users, NEW k \in DOMAIN bptab, NEW a \in {"take", "signal"},
         busy[p].at = a, busy[p].pool = k, At(p, "idle", 0)
  PROVE  /\ busy' \in [Users -> [at : {"idle", "take", "signal"}, pool : Nat]]
         /\ \A q \in Users : busy'[q] = IF q = p THEN Free ELSE busy[q]
         /\ p \in In(k, {"take", "signal"}) /\ (p \in In(k, {"take"}) <=> a = "take")
         /\ In(k, {"take", "signal"})' = In(k, {"take", "signal"}) \ {p}
         /\ In(k, {"take"})' = In(k, {"take"}) \ {p}
         /\ \A j : j # k => /\ In(j, {"take", "signal"})' = In(j, {"take", "signal"})
                            /\ In(j, {"take"})' = In(j, {"take"})
<1>1. busy' = [busy EXCEPT ![p] = Free]
  BY DEF At, Free
<1>2. busy' \in [Users -> [at : {"idle", "take", "signal"}, pool : Nat]]
  BY <1>1 DEF PoolTypes, Free
<1>3. \A q \in Users : busy'[q] = IF q = p THEN Free ELSE busy[q]
  BY <1>1 DEF PoolTypes
<1>4. busy'[p].at = "idle"
  BY <1>3 DEF Free
<1>6. \A q \in Users : q # p => busy'[q] = busy[q]
  BY <1>3
<1> QED BY <1>2, <1>3, <1>4, <1>6 DEF In

\* What a step leaves alone.
LEMMA OtherPools ==
  ASSUME CountInv, NEW j \in DOMAIN bptab, j \in DOMAIN bptab', bptab'[j] = bptab[j],
         In(j, {"take", "signal"})' = In(j, {"take", "signal"}), In(j, {"take"})' = In(j, {"take"})
  PROVE  Awaited(j)' /\ Counted(j)'
  BY DEF CountInv, Awaited, Counted

LEMMA NewPool ==
  ASSUME CountInv, NEW r \in PoolType, bptab' = Append(bptab, r), UNCHANGED <<busy, owned>>,
         r.waiting = <<>>, r.sem >= 0, Len(r.next) = r.sem
  PROVE  CountInv'
<1>0. PICK n \in Nat : n = Len(bptab) + 1
  BY LenProperties DEF CountInv, PoolTypes
<1>1. /\ bptab' \in Seq(PoolType) /\ DOMAIN bptab = 1 .. Len(bptab) /\ DOMAIN bptab' = 1 .. n
      /\ bptab'[n] = r /\ \A j \in DOMAIN bptab : bptab'[j] = bptab[j]
  BY <1>0, LenProperties, AppendProperties DEF CountInv, PoolTypes
<1>2. PoolTypes'
  BY <1>1 DEF CountInv, PoolTypes
<1>3. n \notin DOMAIN bptab /\ DOMAIN bptab' = DOMAIN bptab \cup {n}
  BY <1>0, <1>1, LenProperties DEF CountInv, PoolTypes
<1>4. \A k, ats : In(k, ats)' = In(k, ats)
  BY DEF In
<1>5. In(n, {"take", "signal"}) = {}
  <2> SUFFICES ASSUME NEW p \in Users, busy[p].at \in {"take", "signal"}, busy[p].pool = n PROVE FALSE
    BY DEF In
  <2> QED BY <1>3 DEF CountInv, PoolTypes
<1>6. Counted(n)'
  <2>1. Cardinality(In(n, {"take", "signal"})') = 0
    BY <1>4, <1>5, FS_EmptySet
  <2>2. bptab'[n] = r /\ r.sem \in Int
    BY <1>1 DEF PoolType
  <2>3. Len(bptab'[n].next) = bptab'[n].sem + Cardinality(In(n, {"take", "signal"})')
    BY <2>1, <2>2
  <2> QED BY <2>3 DEF Counted
<1>7. Awaited(n)'
  <2>1. bptab'[n].waiting = <<>> /\ Len(<<>>) = 0
    BY <1>1
  <2> QED BY <1>1, <2>1 DEF Awaited, PoolType
<1>8. ASSUME NEW j \in DOMAIN bptab PROVE Awaited(j)' /\ Counted(j)'
  BY <1>1, <1>3, <1>4, OtherPools
<1> QED BY <1>2, <1>3, <1>6, <1>7, <1>8 DEF CountInv

\* bufsiz and numbufs to one block (mkpool.c:28).
LEMMA Times == ASSUME NEW m \in Nat \ {0}, NEW n \in Nat \ {0} PROVE m * n \in Nat \ {0}
  OBVIOUS

LEMMA Between ==
  ASSUME NEW i \in Nat, NEW j \in Nat, i < j, NEW s \in Nat \ {0} PROVE i * s + s <= j * s
<1>1. PICK d \in Nat : j = i + 1 + d
  <2>1. j - i - 1 \in Nat /\ j = i + 1 + (j - i - 1)
    OBVIOUS
  <2> QED BY <2>1
<1>2. j * s = i * s + s + d * s
  BY <1>1
<1>3. d * s \in Nat /\ i * s \in Nat
  OBVIOUS
<1> QED BY <1>2, <1>3

LEMMA MkpoolCount == ASSUME CountInv, memlist \subseteq BlockType, NEW kind \in PoolKinds, Mkpool(kind) PROVE CountInv'
<1>1. kind.size \in Nat \ {0} /\ kind.num \in Nat \ {0}
  BY PoolsAssumption
<1>2. PICK b \in memlist :
        bptab' = Append(bptab,
            [total |-> kind.num, size |-> kind.size, where |-> b.at, sem |-> kind.num, waiting |-> <<>>,
             next |-> [i \in 1 .. kind.num |-> b.at + (i - 1) * Stride(kind)]])
  BY DEF Mkpool, Units
<1> DEFINE chain == [i \in 1 .. kind.num |-> b.at + (i - 1) * Stride(kind)]
<1>3. chain \in Seq(Int) /\ Len(chain) = kind.num
  <2>1. b.at \in Int
    BY DEF BlockType
  <2>2. Stride(kind) \in Nat
    BY <1>1 DEF Stride
  <2>3. \A i \in 1 .. kind.num : b.at + (i - 1) * Stride(kind) \in Int
    BY <1>1, <2>1, <2>2
  <2>4. chain \in [1 .. kind.num -> Int]
    BY <2>3
  <2> HIDE DEF chain
  <2>5. kind.num \in Nat
    BY <1>1
  <2> QED BY <2>4, <2>5
<1> DEFINE r == [total |-> kind.num, size |-> kind.size, where |-> b.at, sem |-> kind.num, waiting |-> <<>>,
                 next |-> chain]
<1>4. r \in PoolType
  <2>1. b.at \in Int /\ kind.num \in Nat /\ kind.num \in Int /\ kind.size \in Nat \ {0}
    BY <1>1 DEF BlockType
  <2>2. <<>> \in Seq(Users)
    OBVIOUS
  <2> HIDE DEF chain
  <2> QED BY <1>3, <2>1, <2>2 DEF PoolType
<1>5. bptab' = Append(bptab, r)
  BY <1>2
<1>6. r.waiting = <<>> /\ r.sem >= 0 /\ Len(r.next) = r.sem
  BY <1>1, <1>3
<1>7. UNCHANGED <<busy, owned>>
  BY DEF Mkpool
<1> HIDE DEF r
<1> QED BY <1>4, <1>5, <1>6, <1>7, NewPool

\* A step of getbuf() or freebuf() in pool k, of which the rest is left alone.
LEMMA PoolStep ==
  ASSUME CountInv, NEW k \in DOMAIN bptab, NEW r \in PoolType, bptab' = [bptab EXCEPT ![k] = r],
         busy' \in [Users -> [at : {"idle", "take", "signal"}, pool : Nat]],
         \A p \in Users : busy'[p] = busy[p] \/ busy'[p] = Free
                          \/ (busy'[p].at # "idle" /\ busy'[p].pool = k),
         \A j : j # k => /\ In(j, {"take", "signal"})' = In(j, {"take", "signal"})
                         /\ In(j, {"take"})' = In(j, {"take"}),
         owned' \in [Users -> SUBSET [pool : Nat, buf : Int]],
         \A p \in Users : \A o \in owned'[p] : o.pool \in DOMAIN bptab,
         Awaited(k)', Counted(k)'
  PROVE  CountInv'
<1>1. /\ bptab' \in Seq(PoolType) /\ DOMAIN bptab' = DOMAIN bptab
      /\ bptab'[k] = r /\ \A j \in DOMAIN bptab : j # k => bptab'[j] = bptab[j]
  BY OnePool DEF CountInv
<1>2. \A p \in Users : IF busy'[p].at = "idle" THEN busy'[p] = Free ELSE busy'[p].pool \in DOMAIN bptab'
  BY <1>1 DEF CountInv, PoolTypes, Free
<1>3. PoolTypes'
  BY <1>1, <1>2 DEF PoolTypes
<1>4. ASSUME NEW j \in DOMAIN bptab, j # k PROVE Awaited(j)' /\ Counted(j)'
  BY <1>1, <1>4, OtherPools
<1> QED BY <1>1, <1>3, <1>4 DEF CountInv

LEMMA Less ==
  ASSUME NEW b \in PoolType, NEW w \in Seq(Users), NEW r, r = [b EXCEPT !.sem = @ - 1, !.waiting = w]
  PROVE  r \in PoolType /\ r.sem = b.sem - 1 /\ r.waiting = w /\ r.next = b.next
<1> DEFINE V == Seq(Users)
           I == Seq(Int)
<1>1. b \in [total : Nat, size : Nat \ {0}, where : Int, sem : Int, waiting : V, next : I] /\ w \in V
  BY DEF PoolType
<1> HIDE DEF V, I
<1>2. /\ r \in [total : Nat, size : Nat \ {0}, where : Int, sem : Int, waiting : V, next : I]
      /\ r.sem = b.sem - 1 /\ r.waiting = w /\ r.next = b.next
  <2>1. PICK s \in Int : s = b.sem - 1
    BY <1>1
  <2>2. r = [b EXCEPT !.sem = s, !.waiting = w]
    BY <2>1
  <2> QED BY <1>1, <2>1, <2>2
<1> QED BY <1>2 DEF PoolType, V, I

LEMMA GetbufCount == ASSUME CountInv, NEW p \in Users, NEW k \in DOMAIN bptab, Getbuf(p, k) PROVE CountInv'
<1> DEFINE b == bptab[k]
           w == IF b.sem > 0 THEN b.waiting ELSE Append(b.waiting, p)
           r == [b EXCEPT !.sem = @ - 1, !.waiting = w]
<1>1. /\ b \in PoolType /\ b.sem \in Int /\ b.waiting \in Seq(Users) /\ Len(b.waiting) \in Nat
      /\ Len(b.next) \in Nat
  BY Pool DEF CountInv
<1>2. w \in Seq(Users)
  BY <1>1, AppendProperties
<1> HIDE DEF w, b
<1>3. r \in PoolType /\ r.sem = b.sem - 1 /\ r.waiting = w /\ r.next = b.next
  <2>1. \A x : x = [b EXCEPT !.sem = @ - 1, !.waiting = w] =>
               x \in PoolType /\ x.sem = b.sem - 1 /\ x.waiting = w /\ x.next = b.next
    BY <1>1, <1>2, Less, ZenonT(60)
  <2> QED
    BY <2>1
<1>4. bptab' = [bptab EXCEPT ![k] = r]
  BY DEF Getbuf, Waited, w, b
<1>5. bptab'[k] = r
  BY <1>4, <1>3, OnePool DEF CountInv
<1>6. PoolTypes /\ busy[p] = Free /\ At(p, "take", k) /\ owned' = owned
  BY DEF Getbuf, CountInv
<1>7. /\ busy' \in [Users -> [at : {"idle", "take", "signal"}, pool : Nat]]
      /\ \A q \in Users : busy'[q] = IF q = p THEN [at |-> "take", pool |-> k] ELSE busy[q]
      /\ p \notin In(k, {"take", "signal"}) /\ p \notin In(k, {"take"})
      /\ In(k, {"take", "signal"})' = In(k, {"take", "signal"}) \cup {p}
      /\ In(k, {"take"})' = In(k, {"take"}) \cup {p}
      /\ \A j : j # k => /\ In(j, {"take", "signal"})' = In(j, {"take", "signal"})
                         /\ In(j, {"take"})' = In(j, {"take"})
  BY <1>6, Entered
<1> HIDE DEF r
<1>8. Counted(k)'
  <2>1. Cardinality(In(k, {"take", "signal"})') = Cardinality(In(k, {"take", "signal"})) + 1
    <3>1. p \notin In(k, {"take", "signal"}) /\ In(k, {"take", "signal"})' = In(k, {"take", "signal"}) \cup {p}
      BY <1>7
    <3>2. IsFiniteSet(In(k, {"take", "signal"}))
      BY InFinite
    <3> QED
      BY <3>1, <3>2, FS_AddElement
  <2>2. Len(b.next) = b.sem + Cardinality(In(k, {"take", "signal"}))
    BY DEF CountInv, Counted, b
  <2>3. Len(r.next) = r.sem + Cardinality(In(k, {"take", "signal"})')
    BY <1>1, <1>3, <2>1, <2>2, InFinite
  <2> QED BY <1>5, <2>3 DEF Counted
<1>9. Awaited(k)'
  <2>1. /\ \A i, j \in 1 .. Len(b.waiting) : b.waiting[i] = b.waiting[j] => i = j
        /\ \A i \in 1 .. Len(b.waiting) : b.waiting[i] \in In(k, {"take"})
        /\ Len(b.waiting) = IF b.sem < 0 THEN -b.sem ELSE 0
    BY DEF CountInv, Awaited, b
  <2>2. CASE b.sem > 0
    <3>1. w = b.waiting
      BY <2>2 DEF w
    <3> QED BY <1>1, <1>3, <1>5, <1>7, <2>1, <2>2, <3>1 DEF Awaited
  <2>3. CASE b.sem <= 0
    <3>1. w = Append(b.waiting, p)
      BY <1>1, <2>3 DEF w
    <3>2. Len(w) = Len(b.waiting) + 1 /\ \A i \in 1 .. Len(w) : w[i] = IF i <= Len(b.waiting) THEN b.waiting[i] ELSE p
      BY <1>1, <3>1, AppendProperties
    <3>3. \A i \in 1 .. Len(w) : w[i] \in In(k, {"take"})'
      <4> SUFFICES ASSUME NEW i \in 1 .. Len(w) PROVE w[i] \in In(k, {"take"}) \/ w[i] = p
        BY <1>7
      <4>1. CASE i <= Len(b.waiting)
        <5>1. i \in 1 .. Len(b.waiting) /\ w[i] = b.waiting[i]
          BY <1>1, <3>2, <4>1
        <5> QED BY <2>1, <5>1
      <4>2. CASE ~(i <= Len(b.waiting))
        BY <3>2, <4>2
      <4> QED BY <4>1, <4>2
    <3>4. \A i, j \in 1 .. Len(w) : w[i] = w[j] => i = j
      <4> SUFFICES ASSUME NEW i \in 1 .. Len(w), NEW j \in 1 .. Len(w), w[i] = w[j] PROVE i = j
        OBVIOUS
      <4>1. \A m \in 1 .. Len(b.waiting) : b.waiting[m] # p
        BY <1>7, <2>1
      <4>2. i \in Nat /\ j \in Nat /\ i <= Len(b.waiting) + 1 /\ j <= Len(b.waiting) + 1 /\ 1 <= i /\ 1 <= j
        BY <1>1, <3>2
      <4>3. CASE i <= Len(b.waiting) /\ j <= Len(b.waiting)
        <5>1. /\ i \in 1 .. Len(b.waiting) /\ j \in 1 .. Len(b.waiting)
              /\ w[i] = b.waiting[i] /\ w[j] = b.waiting[j]
          BY <1>1, <3>2, <4>2, <4>3
        <5> QED BY <2>1, <5>1
      <4>4. CASE i <= Len(b.waiting) /\ ~(j <= Len(b.waiting))
        <5>1. i \in 1 .. Len(b.waiting) /\ w[i] = b.waiting[i] /\ w[j] = p
          BY <1>1, <3>2, <4>2, <4>4
        <5> QED BY <4>1, <5>1
      <4>5. CASE ~(i <= Len(b.waiting)) /\ j <= Len(b.waiting)
        <5>1. j \in 1 .. Len(b.waiting) /\ w[j] = b.waiting[j] /\ w[i] = p
          BY <1>1, <3>2, <4>2, <4>5
        <5> QED BY <4>1, <5>1
      <4>6. CASE ~(i <= Len(b.waiting)) /\ ~(j <= Len(b.waiting))
        BY <1>1, <4>2, <4>6
      <4> QED BY <4>3, <4>4, <4>5, <4>6
    <3>5. Len(w) = IF r.sem < 0 THEN -r.sem ELSE 0
      BY <1>1, <1>3, <2>1, <2>3, <3>2
    <3> QED BY <1>3, <1>5, <3>3, <3>4, <3>5 DEF Awaited
  <2> QED BY <1>1, <2>2, <2>3
<1>10. /\ owned' \in [Users -> SUBSET [pool : Nat, buf : Int]]
       /\ \A q \in Users : \A o \in owned'[q] : o.pool \in DOMAIN bptab
  BY <1>6 DEF PoolTypes
<1>11. \A q \in Users : busy'[q] = busy[q] \/ busy'[q] = Free \/ (busy'[q].at # "idle" /\ busy'[q].pool = k)
  <2>1. [at |-> "take", pool |-> k].at # "idle" /\ [at |-> "take", pool |-> k].pool = k
    OBVIOUS
  <2>2. \A q \in Users : q # p => busy'[q] = busy[q]
    BY <1>7
  <2>3. busy'[p].at # "idle" /\ busy'[p].pool = k
    BY <1>7, <2>1
  <2> QED BY <2>2, <2>3
<1> QED BY <1>3, <1>4, <1>7, <1>8, <1>9, <1>10, <1>11, PoolStep

\* Whoever is past the wait() finds the chain not empty (getbuf.c:28-30).
LEMMA ChainHolds ==
  ASSUME CountInv, NEW p \in Users, NEW k \in DOMAIN bptab, p \in In(k, {"take"}),
         \A i \in DOMAIN bptab[k].waiting : bptab[k].waiting[i] # p
  PROVE  bptab[k].next # <<>>
<1> DEFINE w == bptab[k].waiting
           T == In(k, {"take"})
           n == Len(w)
<1>1. /\ w \in Seq(Users) /\ n \in Nat /\ bptab[k].sem \in Int /\ bptab[k].next \in Seq(Int)
      /\ DOMAIN w = 1 .. n
  BY Pool, LenProperties DEF CountInv
<1>2. /\ \A i, j \in 1 .. n : w[i] = w[j] => i = j
      /\ \A i \in 1 .. n : w[i] \in T
      /\ n = IF bptab[k].sem < 0 THEN -bptab[k].sem ELSE 0
  BY DEF CountInv, Awaited
<1>3. w \in [1 .. n -> T \ {p}]
  <2>1. \A i \in 1 .. n : w[i] \in T \ {p}
    BY <1>1, <1>2
  <2>2. w \in [1 .. n -> Users]
    BY <1>1, LenProperties
  <2> HIDE DEF w, n, T
  <2> QED BY <2>1, <2>2
<1> HIDE DEF w, n, T
<1>4. w \in Injection(1 .. n, T \ {p})
  BY <1>2, <1>3 DEF Injection, IsInjective
<1>5. IsFiniteSet(T) /\ Cardinality(T) \in Nat
  BY InFinite DEF T
<1>6. IsFiniteSet(T \ {p}) /\ Cardinality(T \ {p}) = Cardinality(T) - 1
  BY <1>5, FS_RemoveElement DEF T
<1>7. Cardinality(1 .. n) <= Cardinality(T \ {p})
  BY <1>4, <1>6, FS_Injection
<1>8. Cardinality(1 .. n) = n
  BY <1>1, FS_Interval
<1>9. Cardinality(T) <= Cardinality(In(k, {"take", "signal"}))
  <2>1. T \in SUBSET In(k, {"take", "signal"})
    BY DEF In, T
  <2> QED BY <2>1, InFinite, FS_Subset
<1>10. Len(bptab[k].next) = bptab[k].sem + Cardinality(In(k, {"take", "signal"}))
  BY DEF CountInv, Counted
<1>11. Len(bptab[k].next) >= 1
  BY <1>1, <1>2, <1>5, <1>6, <1>7, <1>8, <1>9, <1>10, InFinite
<1> QED BY <1>11

\* Pool b with another count and chain.
With(b, s, c) == [b EXCEPT !.sem = s, !.next = c]

LEMMA WithFields ==
  ASSUME NEW b \in PoolType, NEW s \in Int, NEW c \in Seq(Int)
  PROVE  /\ With(b, s, c) \in PoolType /\ With(b, s, c).sem = s
         /\ With(b, s, c).waiting = b.waiting /\ With(b, s, c).next = c
<1> DEFINE V == Seq(Users)
           I == Seq(Int)
           r == [b EXCEPT !.sem = s, !.next = c]
<1>1. b \in [total : Nat, size : Nat \ {0}, where : Int, sem : Int, waiting : V, next : I] /\ c \in I
  BY DEF PoolType
<1> HIDE DEF V, I
<1>2. /\ r \in [total : Nat, size : Nat \ {0}, where : Int, sem : Int, waiting : V, next : I]
      /\ r.sem = s /\ r.waiting = b.waiting /\ r.next = c
  BY <1>1
<1> QED BY <1>2 DEF PoolType, V, I, With

\* The first buffer of the chain becomes p's.
LEMMA TakenType ==
  ASSUME PoolTypes, NEW p \in Users, NEW k \in DOMAIN bptab, bptab[k].next # <<>>, Taken(p, k)
  PROVE  /\ Head(bptab[k].next) \in Int
         /\ owned' \in [Users -> SUBSET [pool : Nat, buf : Int]]
         /\ \A q \in Users : owned'[q] = IF q = p THEN owned[p] \cup {[pool |-> k, buf |-> Head(bptab[k].next)]}
                                                  ELSE owned[q]
         /\ \A q \in Users : \A o \in owned'[q] : o.pool \in DOMAIN bptab
<1> DEFINE h == Head(bptab[k].next)
           o == [pool |-> k, buf |-> h]
<1>1. h \in Int /\ k \in Nat
  BY Pool, HeadTailProperties
<1> HIDE DEF h
<1>2. o \in [pool : Nat, buf : Int] /\ o.pool = k
  BY <1>1
<1>3. owned' = [owned EXCEPT ![p] = @ \cup {o}]
  BY DEF Taken, h
<1> HIDE DEF o
<1>4. owned' \in [Users -> SUBSET [pool : Nat, buf : Int]]
  BY <1>2, <1>3 DEF PoolTypes
<1>5. \A q \in Users : owned'[q] = IF q = p THEN owned[p] \cup {o} ELSE owned[q]
  BY <1>3 DEF PoolTypes
<1>6. \A q \in Users : \A x \in owned'[q] : x.pool \in DOMAIN bptab
  BY <1>2, <1>5 DEF PoolTypes
<1> QED BY <1>1, <1>4, <1>5, <1>6 DEF h, o

LEMMA GetbufTakeCount == ASSUME CountInv, NEW p \in Users, GetbufTake(p) PROVE CountInv'
<1>1. PICK k \in DOMAIN bptab : k = busy[p].pool
  BY DEF GetbufTake, CountInv, PoolTypes
<1>2. /\ PoolTypes /\ busy[p].at = "take" /\ busy[p].pool = k /\ At(p, "idle", 0) /\ Taken(p, k)
      /\ bptab' = [bptab EXCEPT ![k].next = Rest(@)]
      /\ \A i \in DOMAIN bptab[k].waiting : bptab[k].waiting[i] # p
  BY <1>1 DEF GetbufTake, CountInv
<1>3. /\ busy' \in [Users -> [at : {"idle", "take", "signal"}, pool : Nat]]
      /\ \A q \in Users : busy'[q] = IF q = p THEN Free ELSE busy[q]
      /\ p \in In(k, {"take", "signal"}) /\ p \in In(k, {"take"})
      /\ In(k, {"take", "signal"})' = In(k, {"take", "signal"}) \ {p}
      /\ In(k, {"take"})' = In(k, {"take"}) \ {p}
      /\ \A j : j # k => /\ In(j, {"take", "signal"})' = In(j, {"take", "signal"})
                         /\ In(j, {"take"})' = In(j, {"take"})
  BY <1>2, Left
<1>4. bptab[k].next # <<>>
  BY <1>2, <1>3, ChainHolds
<1> DEFINE b == bptab[k]
           r == With(b, b.sem, Tail(b.next))
<1>5. /\ b \in PoolType /\ b.sem \in Int /\ b.waiting \in Seq(Users) /\ Len(b.next) \in Nat
      /\ DOMAIN b.waiting = 1 .. Len(b.waiting)
  BY <1>2, Pool, LenProperties
<1>6. bptab' = [bptab EXCEPT ![k] = r]
  <2>1. r = [b EXCEPT !.next = Tail(b.next)]
    BY <1>5 DEF PoolType, With
  <2> QED BY <1>2, <2>1 DEF Rest
<1>7. b.next # <<>>
  BY <1>4
<1> HIDE DEF b
<1>8. r \in PoolType /\ r.sem = b.sem /\ r.waiting = b.waiting /\ Len(r.next) = Len(b.next) - 1
  <2>1. Tail(b.next) \in Seq(Int) /\ Len(Tail(b.next)) = Len(b.next) - 1
    BY <1>5, <1>7, HeadTailProperties DEF PoolType
  <2>2. b.sem - 1 \in Int
    BY <1>5
  <2> QED BY <1>5, <2>1, <2>2, WithFields, ZenonT(60)
<1> HIDE DEF r
<1>9. bptab'[k] = r
  BY <1>2, <1>6, <1>8, OnePool
<1>10. Counted(k)'
  <2>1. Cardinality(In(k, {"take", "signal"})') = Cardinality(In(k, {"take", "signal"})) - 1
    BY <1>3, InFinite, FS_RemoveElement
  <2>2. Len(b.next) = b.sem + Cardinality(In(k, {"take", "signal"}))
    BY DEF CountInv, Counted, b
  <2>3. Len(r.next) = r.sem + Cardinality(In(k, {"take", "signal"})')
    BY <1>5, <1>8, <2>1, <2>2, InFinite
  <2> QED BY <1>9, <2>3 DEF Counted
<1>11. Awaited(k)'
  <2>1. /\ \A i, j \in 1 .. Len(b.waiting) : b.waiting[i] = b.waiting[j] => i = j
        /\ \A i \in 1 .. Len(b.waiting) : b.waiting[i] \in In(k, {"take"})
        /\ Len(b.waiting) = IF b.sem < 0 THEN -b.sem ELSE 0
    BY DEF CountInv, Awaited, b
  <2>2. \A i \in 1 .. Len(b.waiting) : b.waiting[i] # p
    BY <1>2, <1>5 DEF b
  <2>3. \A i \in 1 .. Len(b.waiting) : b.waiting[i] \in In(k, {"take"})'
    BY <1>3, <2>1, <2>2
  <2> QED BY <1>8, <1>9, <2>1, <2>3 DEF Awaited
<1>12. \A q \in Users : busy'[q] = busy[q] \/ busy'[q] = Free
  BY <1>3
<1>13. /\ owned' \in [Users -> SUBSET [pool : Nat, buf : Int]]
       /\ \A q \in Users : \A o \in owned'[q] : o.pool \in DOMAIN bptab
  BY <1>2, <1>4, TakenType
<1> QED BY <1>3, <1>6, <1>8, <1>10, <1>11, <1>12, <1>13, PoolStep

LEMMA NbgetbufCount ==
  ASSUME CountInv, NEW p \in Users, NEW k \in DOMAIN bptab, Nbgetbuf(p, k) PROVE CountInv' /\ bptab[k].next # <<>>
<1> DEFINE b == bptab[k]
           r == With(b, b.sem - 1, Tail(b.next))
<1>1. /\ PoolTypes /\ busy' = busy /\ b.sem > 0 /\ Taken(p, k)
      /\ bptab' = [bptab EXCEPT ![k].sem = @ - 1, ![k].next = Rest(@)]
  BY DEF Nbgetbuf, CountInv
<1>2. \A j, ats : In(j, ats)' = In(j, ats)
  BY <1>1 DEF In
<1>3. b \in PoolType /\ b.sem \in Int /\ b.next \in Seq(Int) /\ Len(b.next) \in Nat
  BY <1>1, Pool
<1>4. Len(b.next) = b.sem + Cardinality(In(k, {"take", "signal"}))
  BY DEF CountInv, Counted
<1>5. bptab' = [bptab EXCEPT ![k] = r]
  BY <1>1 DEF Rest, With
<1>6. bptab[k] = b
  OBVIOUS
<1> HIDE DEF b
<1>7. b.next # <<>>
  <2>1. Len(b.next) > 0
    BY <1>1, <1>3, <1>4, InFinite
  <2> QED BY <2>1
<1>8. r \in PoolType /\ r.sem = b.sem - 1 /\ r.waiting = b.waiting /\ Len(r.next) = Len(b.next) - 1
  <2>1. Tail(b.next) \in Seq(Int) /\ Len(Tail(b.next)) = Len(b.next) - 1
    BY <1>3, <1>7, HeadTailProperties
  <2>2. PICK m \in Int : m = b.sem - 1
    BY <1>3
  <2>3. PICK c \in Seq(Int) : c = Tail(b.next)
    BY <2>1
  <2>4. /\ With(b, m, c) \in PoolType /\ With(b, m, c).sem = m
        /\ With(b, m, c).waiting = b.waiting /\ With(b, m, c).next = c
    BY <1>3, WithFields
  <2>5. r = With(b, m, c)
    BY <2>2, <2>3
  <2> HIDE DEF r
  <2> QED BY <2>1, <2>2, <2>3, <2>4, <2>5
<1> HIDE DEF r
<1>9. bptab'[k] = r
  BY <1>1, <1>5, <1>8, OnePool
<1>10. Counted(k)'
  <2>1. Len(r.next) = r.sem + Cardinality(In(k, {"take", "signal"})')
    BY <1>2, <1>3, <1>4, <1>8, InFinite
  <2> QED BY <1>9, <2>1 DEF Counted
<1>11. Awaited(k)'
  <2>1. /\ \A i, j \in 1 .. Len(b.waiting) : b.waiting[i] = b.waiting[j] => i = j
        /\ \A i \in 1 .. Len(b.waiting) : b.waiting[i] \in In(k, {"take"})
        /\ Len(b.waiting) = IF b.sem < 0 THEN -b.sem ELSE 0
    BY DEF CountInv, Awaited, b
  <2>2. Len(b.waiting) = IF r.sem < 0 THEN -r.sem ELSE 0
    BY <1>1, <1>3, <1>8, <2>1
  <2>3. \A i \in 1 .. Len(b.waiting) : b.waiting[i] \in In(k, {"take"})'
    BY <1>2, <2>1
  <2> QED BY <1>8, <1>9, <2>1, <2>2, <2>3 DEF Awaited
<1>12. /\ owned' \in [Users -> SUBSET [pool : Nat, buf : Int]]
       /\ \A q \in Users : \A o \in owned'[q] : o.pool \in DOMAIN bptab
  BY <1>1, <1>6, <1>7, TakenType
<1>13. busy' \in [Users -> [at : {"idle", "take", "signal"}, pool : Nat]]
  BY <1>1 DEF PoolTypes
<1>14. CountInv'
  BY <1>1, <1>2, <1>5, <1>8, <1>10, <1>11, <1>12, <1>13, PoolStep
<1> QED BY <1>6, <1>7, <1>14

LEMMA FreebufCount == ASSUME CountInv, NEW p \in Users, NEW o \in owned[p], Freebuf(p, o) PROVE CountInv'
<1>1. o \in [pool : Nat, buf : Int] /\ o.pool \in DOMAIN bptab
  BY DEF CountInv, PoolTypes
<1>2. PICK k \in DOMAIN bptab : k = o.pool
  BY <1>1
<1> DEFINE b == bptab[k]
           c == <<o.buf>> \o b.next
           r == With(b, b.sem, c)
<1>3. /\ PoolTypes /\ busy[p] = Free /\ At(p, "signal", k)
      /\ owned' = [owned EXCEPT ![p] = @ \ {o}]
      /\ bptab' = [bptab EXCEPT ![k].next = c]
  BY <1>2 DEF Freebuf, CountInv
<1>4. /\ busy' \in [Users -> [at : {"idle", "take", "signal"}, pool : Nat]]
      /\ \A q \in Users : busy'[q] = IF q = p THEN [at |-> "signal", pool |-> k] ELSE busy[q]
      /\ p \notin In(k, {"take", "signal"})
      /\ In(k, {"take", "signal"})' = In(k, {"take", "signal"}) \cup {p}
      /\ In(k, {"take"})' = In(k, {"take"})
      /\ \A j : j # k => /\ In(j, {"take", "signal"})' = In(j, {"take", "signal"})
                         /\ In(j, {"take"})' = In(j, {"take"})
  BY <1>3, Entered
<1>5. b \in PoolType /\ b.sem \in Int /\ b.next \in Seq(Int) /\ Len(b.next) \in Nat
  BY <1>3, Pool
<1>6. c \in Seq(Int) /\ Len(c) = Len(b.next) + 1
  <2>1. <<o.buf>> \in Seq(Int) /\ Len(<<o.buf>>) = 1
    BY <1>1
  <2> HIDE DEF b
  <2> QED BY <1>5, <2>1, ConcatProperties
<1> HIDE DEF c
<1>7. bptab' = [bptab EXCEPT ![k] = r]
  BY <1>3, <1>5 DEF With, PoolType
<1> HIDE DEF b
<1>8. r \in PoolType /\ r.sem = b.sem /\ r.waiting = b.waiting /\ r.next = c
  BY <1>5, <1>6, WithFields
<1> HIDE DEF r
<1>9. bptab'[k] = r
  BY <1>3, <1>7, <1>8, OnePool
<1>10. Counted(k)'
  <2>1. Cardinality(In(k, {"take", "signal"})') = Cardinality(In(k, {"take", "signal"})) + 1
    BY <1>4, InFinite, FS_AddElement
  <2>2. Len(b.next) = b.sem + Cardinality(In(k, {"take", "signal"}))
    BY DEF CountInv, Counted, b
  <2>3. Len(r.next) = r.sem + Cardinality(In(k, {"take", "signal"})')
    BY <1>5, <1>6, <1>8, <2>1, <2>2, InFinite
  <2> QED BY <1>9, <2>3 DEF Counted
<1>11. Awaited(k)'
  <2>1. /\ \A i, j \in 1 .. Len(b.waiting) : b.waiting[i] = b.waiting[j] => i = j
        /\ \A i \in 1 .. Len(b.waiting) : b.waiting[i] \in In(k, {"take"})
        /\ Len(b.waiting) = IF b.sem < 0 THEN -b.sem ELSE 0
    BY DEF CountInv, Awaited, b
  <2> QED BY <1>4, <1>8, <1>9, <2>1 DEF Awaited
<1>12. \A q \in Users : busy'[q] = busy[q] \/ busy'[q] = Free \/ (busy'[q].at # "idle" /\ busy'[q].pool = k)
  <2>1. [at |-> "signal", pool |-> k].at # "idle" /\ [at |-> "signal", pool |-> k].pool = k
    OBVIOUS
  <2>2. \A q \in Users : q # p => busy'[q] = busy[q]
    BY <1>4
  <2>3. busy'[p].at # "idle" /\ busy'[p].pool = k
    BY <1>4, <2>1
  <2> QED BY <2>2, <2>3
<1>13. /\ owned' \in [Users -> SUBSET [pool : Nat, buf : Int]]
       /\ \A q \in Users : \A x \in owned'[q] : x.pool \in DOMAIN bptab
  <2>1. \A q \in Users : owned'[q] \subseteq owned[q]
    BY <1>3 DEF PoolTypes
  <2> QED BY <1>3, <2>1 DEF PoolTypes
<1> QED BY <1>4, <1>7, <1>8, <1>10, <1>11, <1>12, <1>13, PoolStep

\* Pool b with another count and other waiters.
WithWaiting(b, s, w) == [b EXCEPT !.sem = s, !.waiting = w]

LEMMA WithWaitingFields ==
  ASSUME NEW b \in PoolType, NEW s \in Int, NEW w \in Seq(Users)
  PROVE  /\ WithWaiting(b, s, w) \in PoolType /\ WithWaiting(b, s, w).sem = s
         /\ WithWaiting(b, s, w).waiting = w /\ WithWaiting(b, s, w).next = b.next
<1> DEFINE V == Seq(Users)
           I == Seq(Int)
           r == [b EXCEPT !.sem = s, !.waiting = w]
<1>1. b \in [total : Nat, size : Nat \ {0}, where : Int, sem : Int, waiting : V, next : I] /\ w \in V
  BY DEF PoolType
<1> HIDE DEF V, I
<1>2. /\ r \in [total : Nat, size : Nat \ {0}, where : Int, sem : Int, waiting : V, next : I]
      /\ r.sem = s /\ r.waiting = w /\ r.next = b.next
  BY <1>1
<1> QED BY <1>2 DEF PoolType, V, I, WithWaiting

LEMMA FreebufSignalCount == ASSUME CountInv, NEW p \in Users, FreebufSignal(p) PROVE CountInv'
<1>1. PICK k \in DOMAIN bptab : k = busy[p].pool
  BY DEF FreebufSignal, CountInv, PoolTypes
<1> DEFINE b == bptab[k]
           w == IF b.waiting = <<>> THEN b.waiting ELSE Tail(b.waiting)
           r == WithWaiting(b, b.sem + 1, w)
<1>2. /\ PoolTypes /\ busy[p].at = "signal" /\ busy[p].pool = k /\ At(p, "idle", 0) /\ owned' = owned
      /\ bptab' = [bptab EXCEPT ![k].sem = @ + 1, ![k].waiting = w]
  BY <1>1 DEF FreebufSignal, CountInv
<1>3. /\ busy' \in [Users -> [at : {"idle", "take", "signal"}, pool : Nat]]
      /\ \A q \in Users : busy'[q] = IF q = p THEN Free ELSE busy[q]
      /\ p \in In(k, {"take", "signal"}) /\ p \notin In(k, {"take"})
      /\ In(k, {"take", "signal"})' = In(k, {"take", "signal"}) \ {p}
      /\ In(k, {"take"})' = In(k, {"take"}) \ {p}
      /\ \A j : j # k => /\ In(j, {"take", "signal"})' = In(j, {"take", "signal"})
                         /\ In(j, {"take"})' = In(j, {"take"})
  BY <1>2, Left
<1>4. /\ b \in PoolType /\ b.sem \in Int /\ b.waiting \in Seq(Users) /\ Len(b.waiting) \in Nat
      /\ Len(b.next) \in Nat
  BY <1>2, Pool
<1>5. /\ w \in Seq(Users) /\ Len(w) = IF Len(b.waiting) = 0 THEN 0 ELSE Len(b.waiting) - 1
      /\ \A i \in 1 .. Len(w) : w[i] = b.waiting[i + 1]
  <2> HIDE DEF b
  <2>1. CASE b.waiting = <<>>
    <3>1. w = <<>> /\ Len(w) = 0 /\ Len(b.waiting) = 0 /\ <<>> \in Seq(Users)
      BY <2>1
    <3> HIDE DEF w
    <3> QED BY <3>1
  <2>2. CASE b.waiting # <<>>
    <3>1. Len(b.waiting) \in Nat \ {0}
      BY <1>4, <2>2, EmptySeq
    <3>2. w = Tail(b.waiting)
      BY <2>2
    <3> HIDE DEF w
    <3> QED BY <1>4, <2>2, <3>1, <3>2, HeadTailProperties
  <2> QED BY <2>1, <2>2
<1> HIDE DEF w
<1>6. bptab' = [bptab EXCEPT ![k] = r]
  BY <1>2 DEF WithWaiting
<1> HIDE DEF b
<1>7. r \in PoolType /\ r.sem = b.sem + 1 /\ r.waiting = w /\ r.next = b.next
  <2>1. b.sem + 1 \in Int
    BY <1>4
  <2> QED BY <1>4, <1>5, <2>1, WithWaitingFields
<1> HIDE DEF r
<1>8. bptab'[k] = r
  BY <1>2, <1>6, <1>7, OnePool
<1>9. Counted(k)'
  <2>1. Cardinality(In(k, {"take", "signal"})') = Cardinality(In(k, {"take", "signal"})) - 1
    BY <1>3, InFinite, FS_RemoveElement
  <2>2. Len(b.next) = b.sem + Cardinality(In(k, {"take", "signal"}))
    BY DEF CountInv, Counted, b
  <2>3. Len(r.next) = r.sem + Cardinality(In(k, {"take", "signal"})')
    BY <1>4, <1>7, <2>1, <2>2, InFinite
  <2> QED BY <1>8, <2>3 DEF Counted
<1>10. Awaited(k)'
  <2>1. /\ \A i, j \in 1 .. Len(b.waiting) : b.waiting[i] = b.waiting[j] => i = j
        /\ \A i \in 1 .. Len(b.waiting) : b.waiting[i] \in In(k, {"take"})
        /\ Len(b.waiting) = IF b.sem < 0 THEN -b.sem ELSE 0
    BY DEF CountInv, Awaited, b
  <2>2. Len(w) = IF r.sem < 0 THEN -r.sem ELSE 0
    BY <1>4, <1>5, <1>7, <2>1
  <2>3. \A i \in 1 .. Len(w) : i \in Int /\ i + 1 \in 1 .. Len(b.waiting)
    BY <1>4, <1>5
  <2>4. \A i \in 1 .. Len(w) : w[i] \in In(k, {"take"})'
    <3> SUFFICES ASSUME NEW i \in 1 .. Len(w) PROVE w[i] \in In(k, {"take"}) \ {p}
      BY <1>3
    <3>1. w[i] = b.waiting[i + 1] /\ b.waiting[i + 1] \in In(k, {"take"})
      BY <1>5, <2>1, <2>3
    <3> QED BY <1>3, <3>1
  <2>5. \A i, j \in 1 .. Len(w) : w[i] = w[j] => i = j
    <3> SUFFICES ASSUME NEW i \in 1 .. Len(w), NEW j \in 1 .. Len(w), w[i] = w[j] PROVE i = j
      OBVIOUS
    <3>1. i + 1 = j + 1
      BY <1>5, <2>1, <2>3
    <3> QED BY <2>3, <3>1
  <2> QED BY <1>7, <1>8, <2>2, <2>4, <2>5 DEF Awaited
<1>11. \A q \in Users : busy'[q] = busy[q] \/ busy'[q] = Free
  BY <1>3
<1>12. /\ owned' \in [Users -> SUBSET [pool : Nat, buf : Int]]
       /\ \A q \in Users : \A x \in owned'[q] : x.pool \in DOMAIN bptab
  BY <1>2 DEF PoolTypes
<1> QED BY <1>3, <1>6, <1>7, <1>9, <1>10, <1>11, <1>12, PoolStep

LEMMA RangeOf == ASSUME NEW s \in Seq(Int) PROVE \A x : x \in Range(s) <=> \E i \in 1 .. Len(s) : s[i] = x
<1>1. DOMAIN s = 1 .. Len(s)
  BY LenProperties
<1> QED BY <1>1 DEF Range

LEMMA RangeTail ==
  ASSUME NEW s \in Seq(Int), s # <<>>, \A i, j \in 1 .. Len(s) : s[i] = s[j] => i = j
  PROVE  /\ Head(s) \in Range(s) /\ Range(Tail(s)) = Range(s) \ {Head(s)}
         /\ \A i, j \in 1 .. Len(Tail(s)) : Tail(s)[i] = Tail(s)[j] => i = j
<1> DEFINE t == Tail(s)
<1>1. /\ t \in Seq(Int) /\ Len(s) \in Nat \ {0} /\ Len(t) = Len(s) - 1
      /\ \A i \in 1 .. Len(t) : t[i] = s[i + 1]
  BY HeadTailProperties, EmptySeq
<1>2. Head(s) = s[1] /\ 1 \in 1 .. Len(s)
  BY <1>1
<1> HIDE DEF t
<1>3. \A i \in 1 .. Len(t) : i \in Int /\ i + 1 \in 1 .. Len(s) /\ i + 1 # 1
  BY <1>1
<1>4. \A i \in 1 .. Len(s) : i # 1 => i - 1 \in 1 .. Len(t) /\ t[i - 1] = s[i]
  <2> SUFFICES ASSUME NEW i \in 1 .. Len(s), i # 1 PROVE i - 1 \in 1 .. Len(t) /\ t[i - 1] = s[i]
    OBVIOUS
  <2>1. i - 1 \in 1 .. Len(t) /\ (i - 1) + 1 = i
    BY <1>1
  <2> QED BY <1>1, <2>1
<1>5. \A x : x \in Range(t) <=> x \in Range(s) /\ x # s[1]
  <2> SUFFICES ASSUME NEW x PROVE (\E i \in 1 .. Len(t) : t[i] = x) <=> (\E i \in 1 .. Len(s) : s[i] = x) /\ x # s[1]
    BY <1>1, RangeOf
  <2>1. ASSUME NEW i \in 1 .. Len(t), t[i] = x PROVE (\E j \in 1 .. Len(s) : s[j] = x) /\ x # s[1]
    <3>1. s[i + 1] = x /\ i + 1 \in 1 .. Len(s) /\ i + 1 # 1
      BY <1>1, <1>3, <2>1
    <3> QED BY <1>2, <3>1
  <2>2. ASSUME NEW i \in 1 .. Len(s), s[i] = x, x # s[1] PROVE \E j \in 1 .. Len(t) : t[j] = x
    BY <1>4, <2>2
  <2> QED BY <2>1, <2>2
<1>6. \A i, j \in 1 .. Len(t) : t[i] = t[j] => i = j
  <2> SUFFICES ASSUME NEW i \in 1 .. Len(t), NEW j \in 1 .. Len(t), t[i] = t[j] PROVE i = j
    OBVIOUS
  <2>1. i + 1 = j + 1
    BY <1>1, <1>3
  <2> QED BY <1>3, <2>1
<1>7. Head(s) \in Range(s)
  BY <1>2, RangeOf
<1>8. Range(t) = Range(s) \ {Head(s)}
  BY <1>2, <1>5
<1> QED BY <1>6, <1>7, <1>8 DEF t

LEMMA RangeCons ==
  ASSUME NEW s \in Seq(Int), NEW x \in Int, x \notin Range(s), \A i, j \in 1 .. Len(s) : s[i] = s[j] => i = j
  PROVE  /\ Range(<<x>> \o s) = Range(s) \cup {x}
         /\ \A i, j \in 1 .. Len(<<x>> \o s) : (<<x>> \o s)[i] = (<<x>> \o s)[j] => i = j
<1> DEFINE t == <<x>> \o s
<1>1. <<x>> \in Seq(Int) /\ Len(<<x>>) = 1 /\ <<x>>[1] = x /\ Len(s) \in Nat
  BY LenProperties
<1>2. /\ t \in Seq(Int) /\ Len(t) = Len(s) + 1
      /\ \A i \in 1 .. Len(t) : t[i] = IF i <= 1 THEN x ELSE s[i - 1]
  <2>1. /\ t \in Seq(Int) /\ Len(t) = 1 + Len(s)
        /\ \A i \in 1 .. 1 + Len(s) : t[i] = IF i <= 1 THEN <<x>>[i] ELSE s[i - 1]
    BY <1>1, ConcatProperties
  <2> HIDE DEF t
  <2> QED BY <1>1, <2>1
<1> HIDE DEF t
<1>3. 1 \in 1 .. Len(t) /\ t[1] = x
  BY <1>1, <1>2
<1>4. \A i \in 1 .. Len(t) : i # 1 => i \in Int /\ i - 1 \in 1 .. Len(s) /\ t[i] = s[i - 1]
  BY <1>1, <1>2
<1>5. \A i \in 1 .. Len(s) : i + 1 \in 1 .. Len(t) /\ t[i + 1] = s[i]
  <2> SUFFICES ASSUME NEW i \in 1 .. Len(s) PROVE i + 1 \in 1 .. Len(t) /\ t[i + 1] = s[i]
    OBVIOUS
  <2>1. i + 1 \in 1 .. Len(t) /\ i + 1 # 1 /\ (i + 1) - 1 = i
    BY <1>1, <1>2
  <2> QED BY <1>4, <2>1
<1>6. \A y : y \in Range(t) <=> y \in Range(s) \/ y = x
  <2> SUFFICES ASSUME NEW y PROVE (\E i \in 1 .. Len(t) : t[i] = y) <=> (\E i \in 1 .. Len(s) : s[i] = y) \/ y = x
    BY <1>2, RangeOf
  <2>1. ASSUME NEW i \in 1 .. Len(t), t[i] = y PROVE (\E j \in 1 .. Len(s) : s[j] = y) \/ y = x
    BY <1>3, <1>4, <2>1
  <2>2. ASSUME NEW i \in 1 .. Len(s), s[i] = y PROVE \E j \in 1 .. Len(t) : t[j] = y
    BY <1>5, <2>2
  <2> QED BY <1>3, <2>1, <2>2
<1>7. \A i, j \in 1 .. Len(t) : t[i] = t[j] => i = j
  <2> SUFFICES ASSUME NEW i \in 1 .. Len(t), NEW j \in 1 .. Len(t), t[i] = t[j] PROVE i = j
    OBVIOUS
  <2>1. \A m \in 1 .. Len(s) : s[m] # x
    BY RangeOf
  <2>2. CASE i = 1
    BY <1>3, <1>4, <2>1, <2>2
  <2>3. CASE j = 1
    BY <1>3, <1>4, <2>1, <2>3
  <2>4. CASE i # 1 /\ j # 1
    <3>1. i - 1 = j - 1
      BY <1>4, <2>4
    <3> QED BY <1>4, <2>4, <3>1
  <2> QED BY <2>2, <2>3, <2>4
<1>8. Range(t) = Range(s) \cup {x}
  BY <1>6
<1> QED BY <1>7, <1>8 DEF t

\* Where a pool's buffers are depends on its chain and on who has some.
LEMMA SameHome ==
  ASSUME NEW k, AtHome(k), bptab'[k].next = bptab[k].next, \A q \in Users : Mine(q, k)' = Mine(q, k)
  PROVE  AtHome(k)' /\ Whole(k)' = Whole(k)
  BY DEF AtHome, Whole

\* getbuf(): the first buffer leaves the chain and becomes p's.
LEMMA TakenHome ==
  ASSUME PoolTypes, NEW p \in Users, NEW k \in DOMAIN bptab, bptab[k].next # <<>>, AtHome(k), Taken(p, k),
         bptab'[k].next = Tail(bptab[k].next)
  PROVE  /\ AtHome(k)' /\ Whole(k)' = Whole(k)
         /\ \A j, q : j # k /\ q \in Users => Mine(q, j)' = Mine(q, j)
<1> DEFINE s == bptab[k].next
           h == Head(s)
           o == [pool |-> k, buf |-> h]
<1>1. s \in Seq(Int)
  BY Pool
<1>2. \A q \in Users : owned'[q] = IF q = p THEN owned[p] \cup {o} ELSE owned[q]
  BY TakenType
<1>3. o.pool = k /\ o.buf = h
  OBVIOUS
<1>4. /\ \A i, j \in 1 .. Len(s) : s[i] = s[j] => i = j
      /\ \A q \in Users : Mine(q, k) \cap Range(s) = {}
      /\ \A q, r \in Users : q = r \/ Mine(q, k) \cap Mine(r, k) = {}
  BY DEF AtHome
<1> HIDE DEF o, h, s
<1>5. Mine(p, k)' = Mine(p, k) \cup {h}
  BY <1>2, <1>3 DEF Mine
<1>6. \A q \in Users : q # p => \A j : Mine(q, j)' = Mine(q, j)
  BY <1>2 DEF Mine
<1>7. \A j : j # k => Mine(p, j)' = Mine(p, j)
  BY <1>2, <1>3 DEF Mine
<1>8. s # <<>> /\ bptab'[k].next = Tail(s)
  BY DEF s
<1>9. /\ h \in Range(s) /\ Range(Tail(s)) = Range(s) \ {h}
      /\ \A i, j \in 1 .. Len(Tail(s)) : Tail(s)[i] = Tail(s)[j] => i = j
  BY <1>1, <1>4, <1>8, RangeTail DEF h
<1>10. \A q \in Users : Mine(q, k)' \cap Range(Tail(s)) = {}
  BY <1>4, <1>5, <1>6, <1>9
<1>11. \A q, r \in Users : q = r \/ Mine(q, k)' \cap Mine(r, k)' = {}
  BY <1>4, <1>5, <1>6, <1>9
<1>12. AtHome(k)'
  BY <1>8, <1>9, <1>10, <1>11 DEF AtHome
<1>13. Whole(k)' = Whole(k)
  <2>1. \A x : x \in UNION {Mine(q, k)' : q \in Users} <=> x \in UNION {Mine(q, k) : q \in Users} \/ x = h
    BY <1>5, <1>6
  <2>2. Whole(k)' = Range(Tail(s)) \cup UNION {Mine(q, k)' : q \in Users}
    BY <1>8 DEF Whole
  <2>3. Whole(k) = Range(s) \cup UNION {Mine(q, k) : q \in Users}
    BY DEF Whole, s
  <2> QED BY <1>9, <2>1, <2>2, <2>3
<1> QED BY <1>6, <1>7, <1>12, <1>13

\* freebuf(): the buffer goes to the head of the chain.
LEMMA FreedHome ==
  ASSUME PoolTypes, NEW p \in Users, NEW o \in owned[p], NEW k \in DOMAIN bptab, k = o.pool, AtHome(k),
         owned' = [owned EXCEPT ![p] = @ \ {o}], bptab'[k].next = <<o.buf>> \o bptab[k].next
  PROVE  /\ AtHome(k)' /\ Whole(k)' = Whole(k)
         /\ \A j, q : j # k /\ q \in Users => Mine(q, j)' = Mine(q, j)
<1> DEFINE s == bptab[k].next
           h == o.buf
           t == <<h>> \o s
<1>1. s \in Seq(Int) /\ h \in Int /\ o \in [pool : Nat, buf : Int]
  BY Pool DEF PoolTypes
<1>2. \A q \in Users : owned'[q] = IF q = p THEN owned[p] \ {o} ELSE owned[q]
  BY DEF PoolTypes
<1>3. \A x \in owned[p] : x.pool = k /\ x.buf = h => x = o
  <2>1. owned[p] \subseteq [pool : Nat, buf : Int]
    BY DEF PoolTypes
  <2> SUFFICES ASSUME NEW x \in owned[p], x.pool = k, x.buf = h PROVE x = o
    OBVIOUS
  <2>2. x \in [pool : Nat, buf : Int] /\ x.pool = o.pool /\ x.buf = o.buf
    BY <2>1
  <2> QED BY <1>1, <2>2
<1>4. /\ \A i, j \in 1 .. Len(s) : s[i] = s[j] => i = j
      /\ \A q \in Users : Mine(q, k) \cap Range(s) = {}
      /\ \A q, r \in Users : q = r \/ Mine(q, k) \cap Mine(r, k) = {}
  BY DEF AtHome
<1>5. o \in owned[p] /\ o.pool = k /\ o.buf = h /\ bptab'[k].next = t
  OBVIOUS
<1> HIDE DEF h, s, t
<1>6. h \in Mine(p, k) /\ Mine(p, k)' = Mine(p, k) \ {h}
  BY <1>2, <1>3, <1>5 DEF Mine
<1>7. \A q \in Users : q # p => \A j : Mine(q, j)' = Mine(q, j)
  BY <1>2 DEF Mine
<1>8. \A j : j # k => Mine(p, j)' = Mine(p, j)
  BY <1>2, <1>5 DEF Mine
<1>9. h \notin Range(s)
  BY <1>4, <1>6
<1>10. Range(t) = Range(s) \cup {h} /\ \A i, j \in 1 .. Len(t) : t[i] = t[j] => i = j
  BY <1>1, <1>4, <1>9, RangeCons DEF t
<1>11. \A q \in Users : q # p => h \notin Mine(q, k)
  BY <1>4, <1>6
<1>12. \A q \in Users : Mine(q, k)' \cap Range(t) = {}
  BY <1>4, <1>6, <1>7, <1>10, <1>11
<1>13. \A q, r \in Users : q = r \/ Mine(q, k)' \cap Mine(r, k)' = {}
  BY <1>4, <1>6, <1>7
<1>14. AtHome(k)'
  BY <1>5, <1>10, <1>12, <1>13 DEF AtHome
<1>15. Whole(k)' = Whole(k)
  <2>1. \A x : x \in UNION {Mine(q, k)' : q \in Users} \/ x = h <=> x \in UNION {Mine(q, k) : q \in Users}
    BY <1>6, <1>7
  <2>2. Whole(k)' = Range(t) \cup UNION {Mine(q, k)' : q \in Users}
    BY <1>5 DEF Whole
  <2>3. Whole(k) = Range(s) \cup UNION {Mine(q, k) : q \in Users}
    BY DEF Whole, s
  <2> QED BY <1>10, <2>1, <2>2, <2>3
<1> QED BY <1>7, <1>8, <1>14, <1>15

Chain(at, num, stride) == [i \in 1 .. num |-> at + (i - 1) * stride]

\* mkpool(): numbufs buffers, each with its header, one behind the other in one
\* block of memory (mkpool.c:28, 38-41).
LEMMA ChainPlaced ==
  ASSUME NEW at \in Int, NEW num \in Nat \ {0}, NEW stride \in Nat \ {0}
  PROVE  LET chain == Chain(at, num, stride) IN
         /\ chain \in [1 .. num -> Int]
         /\ \A i, j \in 1 .. num : chain[i] = chain[j] => i = j
         /\ \A i, j \in 1 .. num : i = j \/ chain[i] + stride <= chain[j] \/ chain[j] + stride <= chain[i]
         /\ \A i \in 1 .. num : at <= chain[i] /\ chain[i] + stride <= at + num * stride
<1> DEFINE chain == Chain(at, num, stride)
<1>0. chain = [i \in 1 .. num |-> at + (i - 1) * stride]
  BY DEF Chain
<1> HIDE DEF chain
<1>1. \A i \in 1 .. num : i - 1 \in Nat /\ chain[i] = at + (i - 1) * stride
  BY <1>0
<1>2. \A i \in 1 .. num : (i - 1) * stride \in Nat
  <2> SUFFICES ASSUME NEW d \in Nat PROVE d * stride \in Nat
    BY <1>1
  <2> QED OBVIOUS
<1>3. \A i \in 1 .. num : chain[i] \in Int /\ at <= chain[i]
  BY <1>1, <1>2
<1>4. \A i, j \in 1 .. num : i < j => chain[i] + stride <= chain[j]
  <2> SUFFICES ASSUME NEW i \in 1 .. num, NEW j \in 1 .. num, i < j PROVE chain[i] + stride <= chain[j]
    OBVIOUS
  <2>1. i - 1 \in Nat /\ j - 1 \in Nat /\ i - 1 < j - 1
    OBVIOUS
  <2>2. (i - 1) * stride + stride <= (j - 1) * stride
    BY <2>1, Between
  <2> QED BY <1>1, <1>2, <2>2
<1>5. \A i \in 1 .. num : chain[i] + stride <= at + num * stride
  <2> SUFFICES ASSUME NEW i \in 1 .. num PROVE chain[i] + stride <= at + num * stride
    OBVIOUS
  <2>1. i - 1 \in Nat /\ i - 1 < num
    OBVIOUS
  <2>2. (i - 1) * stride + stride <= num * stride
    BY <2>1, Between
  <2>3. num * stride \in Nat
    BY Times
  <2> QED BY <1>1, <1>2, <2>2, <2>3
<1>6. \A i, j \in 1 .. num : i \in Int /\ j \in Int /\ (i = j \/ i < j \/ j < i)
  OBVIOUS
<1>7. \A i, j \in 1 .. num : i = j \/ chain[i] + stride <= chain[j] \/ chain[j] + stride <= chain[i]
  BY <1>4, <1>6
<1>8. \A i, j \in 1 .. num : chain[i] = chain[j] => i = j
  BY <1>3, <1>7
<1>9. chain \in [1 .. num -> Int]
  <2>1. chain = [i \in 1 .. num |-> chain[i]]
    BY <1>0
  <2> QED BY <1>3, <2>1
<1> QED BY <1>3, <1>5, <1>7, <1>8, <1>9 DEF chain

LEMMA MkpoolHome ==
  ASSUME PoolsInv, NEW kind \in PoolKinds, Mkpool(kind)
  PROVE  /\ memlist' \subseteq BlockType
         /\ \A k \in DOMAIN bptab' : AtHome(k)' /\ InPlace(Whole(k), bptab[k])'
<1>1. kind.size \in Nat \ {0} /\ kind.num \in Nat \ {0}
  BY PoolsAssumption
<1> DEFINE stride == kind.size + 1
           size == stride * kind.num
           m == roundmb(size)
<1>2. stride \in Nat \ {0}
  BY <1>1
<1>3. size \in Nat \ {0} /\ size = kind.num * stride
  <2> HIDE DEF stride
  <2> QED BY <1>1, <1>2, Times
<1>4. m \in Nat \ {0} /\ m >= size
  <2> HIDE DEF size
  <2> QED BY <1>3, RoundUp
<1>5. PICK b \in memlist :
        /\ GetmemFrom(b, size)
        /\ bptab' = Append(bptab,
             [total |-> kind.num, size |-> kind.size, where |-> b.at, sem |-> kind.num, waiting |-> <<>>,
              next |-> [i \in 1 .. kind.num |-> b.at + (i - 1) * Stride(kind)]])
  BY DEF Mkpool, Units
<1>6. b \in BlockType /\ b.at \in Int /\ b.len \in Nat \ {0}
  BY DEF PoolsInv, BlockType
<1> DEFINE u == [at |-> b.at, len |-> size, of |-> "mem"]
<1>7. /\ b.len >= m /\ memlist' = Shrunk(b, b.at + m, m)
      /\ used' = used \cup {u}
  BY <1>5 DEF GetmemFrom, Fitting, Leftover
<1> HIDE DEF m, size
<1>8. memlist' \subseteq BlockType
  <2>1. memlist \subseteq BlockType
    BY DEF PoolsInv
  <2>2. b.len # m => Block(b.at + m, b.len - m) \in BlockType
    BY <1>4, <1>6, <1>7 DEF Block, BlockType
  <2> QED BY <1>7, <2>1, <2>2 DEF Shrunk
<1>9. u.at = b.at /\ End(Extent(u)) = b.at + m
  BY DEF Extent, Block, End, m
<1> HIDE DEF u, stride
<1> DEFINE chain == [i \in 1 .. kind.num |-> b.at + (i - 1) * Stride(kind)]
           r == [total |-> kind.num, size |-> kind.size, where |-> b.at, sem |-> kind.num, waiting |-> <<>>,
                 next |-> chain]
<1>10. /\ chain \in [1 .. kind.num -> Int]
       /\ \A i, j \in 1 .. kind.num : chain[i] = chain[j] => i = j
       /\ \A i, j \in 1 .. kind.num : i = j \/ chain[i] + stride <= chain[j] \/ chain[j] + stride <= chain[i]
       /\ \A i \in 1 .. kind.num : b.at <= chain[i] /\ chain[i] + stride <= b.at + kind.num * stride
  <2>1. chain = Chain(b.at, kind.num, stride)
    BY DEF Stride, stride, Chain
  <2> HIDE DEF chain
  <2> QED BY <1>1, <1>2, <1>6, <2>1, ChainPlaced
<1> HIDE DEF chain
<1>11. chain \in Seq(Int) /\ Len(chain) = kind.num /\ DOMAIN chain = 1 .. kind.num
  BY <1>1, <1>10
<1>12. PICK n \in Nat : n = Len(bptab) + 1
  BY LenProperties DEF PoolsInv, CountInv, PoolTypes
<1>13. r \in PoolType /\ r.next = chain /\ r.total = kind.num /\ r.size = kind.size /\ r.where = b.at
  <2>1. <<>> \in Seq(Users) /\ kind.num \in Nat /\ kind.num \in Int
    BY <1>1
  <2> QED BY <1>1, <1>6, <1>11, <2>1 DEF PoolType
<1>14. bptab' = Append(bptab, r) /\ owned' = owned
  BY <1>5 DEF chain, Mkpool
<1> HIDE DEF r
<1>15. /\ DOMAIN bptab = 1 .. Len(bptab) /\ DOMAIN bptab' = 1 .. n
       /\ bptab'[n] = r /\ \A j \in DOMAIN bptab : bptab'[j] = bptab[j]
  BY <1>12, <1>13, <1>14, LenProperties, AppendProperties DEF PoolsInv, CountInv, PoolTypes
<1>16. n \notin DOMAIN bptab /\ DOMAIN bptab' = DOMAIN bptab \cup {n}
  BY <1>12, <1>15, LenProperties DEF PoolsInv, CountInv, PoolTypes
<1>17. \A q, j : Mine(q, j)' = Mine(q, j)
  BY <1>14 DEF Mine
<1>18. ASSUME NEW k \in DOMAIN bptab PROVE AtHome(k)' /\ InPlace(Whole(k), bptab[k])'
  <2>1. bptab'[k] = bptab[k]
    BY <1>15
  <2>2. AtHome(k)' /\ Whole(k)' = Whole(k)
    BY <1>17, <2>1, SameHome DEF PoolsInv
  <2>3. InPlace(Whole(k), bptab[k])
    BY DEF PoolsInv
  <2>4. used \subseteq used'
    BY <1>7
  <2> QED BY <2>1, <2>2, <2>3, <2>4 DEF InPlace
<1>19. \A q \in Users : Mine(q, n)' = {}
  <2>1. \A q \in Users : Mine(q, n) = {}
    BY <1>16 DEF PoolsInv, CountInv, PoolTypes, Mine
  <2> QED BY <1>17, <2>1
<1>20. AtHome(n)'
  <2>1. bptab'[n].next = chain /\ Len(chain) = kind.num
    BY <1>11, <1>13, <1>15
  <2> QED BY <1>10, <1>19, <2>1 DEF AtHome
<1>21. Whole(n)' = Range(chain)
  <2>1. Whole(n)' = Range(chain) \cup UNION {Mine(q, n)' : q \in Users}
    BY <1>13, <1>15 DEF Whole
  <2> QED BY <1>19, <2>1
<1>22. \A x \in Range(chain) : \E i \in 1 .. kind.num : x = chain[i]
  BY <1>11, RangeOf
<1>23. Cardinality(Range(chain)) = kind.num
  <2>1. chain \in [1 .. kind.num -> Range(chain)]
    BY <1>10, <1>11 DEF Range
  <2>2. chain \in Injection(1 .. kind.num, Range(chain)) /\ chain \in Surjection(1 .. kind.num, Range(chain))
    BY <1>10, <1>11, <1>22, <2>1 DEF Injection, IsInjective, Surjection
  <2>3. IsFiniteSet(1 .. kind.num) /\ Cardinality(1 .. kind.num) = kind.num
    <3>1. 1 \in Int /\ kind.num \in Int /\ ~(1 > kind.num) /\ kind.num - 1 + 1 = kind.num
      BY <1>1
    <3> QED BY <3>1, FS_Interval
  <2> QED BY <2>2, <2>3, FS_Surjection
<1>24. \A x : End(Block(x, kind.size + 1)) = x + stride /\ Block(x, kind.size + 1).at = x
  BY DEF End, Block, stride
<1>25. \A x, y \in Range(chain) : x = y \/ Apart(Block(x, kind.size + 1), Block(y, kind.size + 1))
  BY <1>10, <1>22, <1>24 DEF Apart
<1>26. \A x \in Range(chain) : u.at <= x /\ End(Block(x, kind.size + 1)) <= End(Extent(u))
  <2> SUFFICES ASSUME NEW i \in 1 .. kind.num PROVE b.at <= chain[i] /\ chain[i] + stride <= b.at + m
    BY <1>9, <1>22, <1>24
  <2>1. chain[i] \in Int
    BY <1>10
  <2> QED BY <1>2, <1>3, <1>4, <1>6, <1>10, <2>1
<1>27. InPlace(Whole(n), bptab[n])'
  <2>1. u \in used'
    BY <1>7
  <2>2. u.at = r.where
    BY <1>9, <1>13
  <2> QED BY <1>13, <1>15, <1>21, <1>23, <1>25, <1>26, <2>1, <2>2 DEF InPlace
<1> QED BY <1>8, <1>16, <1>18, <1>20, <1>27

LEMMA InitPools == HeapInit /\ PoolsInit => PoolsInv
<1> SUFFICES ASSUME HeapInit, PoolsInit PROVE PoolsInv
  OBVIOUS
<1>1. memlist \subseteq BlockType
  BY HeapAssumption DEF HeapInit, BlockType
<1>2. bptab = <<>> /\ bptab \in Seq(PoolType) /\ DOMAIN bptab = {}
  <2>1. bptab = <<>> /\ bptab \in Seq(PoolType) /\ DOMAIN bptab = 1 .. 0
    BY DEF PoolsInit
  <2> QED BY <2>1
<1>3. /\ \A p \in Users : busy[p] = Free /\ owned[p] = {} /\ busy[p].at = "idle"
      /\ busy \in [Users -> [at : {"idle", "take", "signal"}, pool : Nat]]
      /\ owned \in [Users -> SUBSET [pool : Nat, buf : Int]]
  BY DEF PoolsInit, Free
<1>4. PoolTypes
  BY <1>2, <1>3 DEF PoolTypes
<1> QED BY <1>1, <1>2, <1>4 DEF PoolsInv, CountInv

\* A step on one pool that leaves its buffers together.
LEMMA StillHome ==
  ASSUME PoolsInv, NEW k \in DOMAIN bptab, DOMAIN bptab' = DOMAIN bptab, AtHome(k)', Whole(k)' = Whole(k),
         \A j \in DOMAIN bptab : j # k => bptab'[j].next = bptab[j].next,
         \A j \in DOMAIN bptab : /\ bptab'[j].total = bptab[j].total /\ bptab'[j].size = bptab[j].size
                                 /\ bptab'[j].where = bptab[j].where,
         \A j, q : j # k /\ q \in Users => Mine(q, j)' = Mine(q, j),
         UNCHANGED heapVars
  PROVE  memlist' \subseteq BlockType /\ \A j \in DOMAIN bptab' : AtHome(j)' /\ InPlace(Whole(j), bptab[j])'
<1>1. memlist' = memlist /\ used' = used
  BY DEF heapVars
<1>2. ASSUME NEW j \in DOMAIN bptab PROVE AtHome(j)' /\ InPlace(Whole(j), bptab[j])'
  <2>1. AtHome(j)' /\ Whole(j)' = Whole(j)
    <3>1. CASE j = k
      BY <3>1
    <3>2. CASE j # k
      BY <3>2, SameHome DEF PoolsInv
    <3> QED BY <3>1, <3>2
  <2>2. InPlace(Whole(j), bptab[j])
    BY DEF PoolsInv
  <2> QED BY <1>1, <2>1, <2>2 DEF InPlace
<1> QED BY <1>1, <1>2 DEF PoolsInv

\* A step that gives pool k another count and chain.
LEMMA OtherChain ==
  ASSUME PoolTypes, NEW k \in DOMAIN bptab, NEW s \in Int, NEW c \in Seq(Int),
         bptab' = [bptab EXCEPT ![k] = With(bptab[k], s, c)]
  PROVE  /\ DOMAIN bptab' = DOMAIN bptab /\ bptab'[k].next = c
         /\ \A j \in DOMAIN bptab : j # k => bptab'[j].next = bptab[j].next
         /\ \A j \in DOMAIN bptab : /\ bptab'[j].total = bptab[j].total
                                    /\ bptab'[j].size = bptab[j].size /\ bptab'[j].where = bptab[j].where
<1>1. bptab[k] \in PoolType /\ With(bptab[k], s, c) \in PoolType /\ With(bptab[k], s, c).next = c
  BY Pool, WithFields
<1>2. /\ DOMAIN bptab' = DOMAIN bptab /\ bptab'[k] = With(bptab[k], s, c)
      /\ \A j \in DOMAIN bptab : j # k => bptab'[j] = bptab[j]
  BY <1>1, OnePool
<1>3. /\ With(bptab[k], s, c).total = bptab[k].total /\ With(bptab[k], s, c).size = bptab[k].size
      /\ With(bptab[k], s, c).where = bptab[k].where
  BY <1>1 DEF With, PoolType
<1> QED BY <1>1, <1>2, <1>3

LEMMA PoolsKept == PoolsInv /\ [PoolsNext]_<<heapVars, poolVars>> => PoolsInv'
<1> SUFFICES ASSUME PoolsInv, [PoolsNext]_<<heapVars, poolVars>> PROVE PoolsInv'
  OBVIOUS
<1>0. CountInv /\ PoolTypes
  BY DEF PoolsInv, CountInv
<1>1. ASSUME NEW kind \in PoolKinds, Mkpool(kind) PROVE PoolsInv'
  <2>1. CountInv'
    BY <1>0, <1>1, MkpoolCount DEF PoolsInv
  <2> QED BY <1>1, <2>1, MkpoolHome DEF PoolsInv
<1>2. ASSUME NEW p \in Users, NEW k \in DOMAIN bptab, Getbuf(p, k) PROVE PoolsInv'
  <2>1. CountInv'
    BY <1>0, <1>2, GetbufCount
  <2>2. /\ DOMAIN bptab' = DOMAIN bptab /\ owned' = owned /\ UNCHANGED heapVars
        /\ \A j \in DOMAIN bptab : /\ bptab'[j].next = bptab[j].next /\ bptab'[j].total = bptab[j].total
                                   /\ bptab'[j].size = bptab[j].size /\ bptab'[j].where = bptab[j].where
    BY <1>2 DEF Getbuf, Waited
  <2>3. \A j, q : Mine(q, j)' = Mine(q, j)
    BY <2>2 DEF Mine
  <2>4. AtHome(k)' /\ Whole(k)' = Whole(k)
    BY <2>2, <2>3, SameHome DEF PoolsInv
  <2> QED BY <2>1, <2>2, <2>3, <2>4, StillHome DEF PoolsInv
<1>3. ASSUME NEW p \in Users, NEW k \in DOMAIN bptab, Nbgetbuf(p, k) PROVE PoolsInv'
  <2>1. CountInv' /\ bptab[k].next # <<>>
    BY <1>0, <1>3, NbgetbufCount
  <2>2. /\ DOMAIN bptab' = DOMAIN bptab /\ Taken(p, k) /\ UNCHANGED heapVars
        /\ bptab'[k].next = Tail(bptab[k].next)
        /\ \A j \in DOMAIN bptab : j # k => bptab'[j].next = bptab[j].next
        /\ \A j \in DOMAIN bptab : /\ bptab'[j].total = bptab[j].total
                                   /\ bptab'[j].size = bptab[j].size /\ bptab'[j].where = bptab[j].where
    <3>1. bptab[k] \in PoolType /\ bptab[k].sem - 1 \in Int /\ Tail(bptab[k].next) \in Seq(Int)
      BY <1>0, <2>1, Pool, HeadTailProperties
    <3>2. bptab' = [bptab EXCEPT ![k] = With(bptab[k], bptab[k].sem - 1, Tail(bptab[k].next))]
      BY <1>3 DEF Nbgetbuf, Rest, With
    <3>3. Taken(p, k) /\ UNCHANGED heapVars
      BY <1>3 DEF Nbgetbuf
    <3> QED BY <1>0, <3>1, <3>2, <3>3, OtherChain, ZenonT(60)
  <2>3. AtHome(k)
    BY DEF PoolsInv
  <2>4. /\ AtHome(k)' /\ Whole(k)' = Whole(k)
        /\ \A j, q : j # k /\ q \in Users => Mine(q, j)' = Mine(q, j)
    BY <1>0, <2>1, <2>2, <2>3, TakenHome
  <2> QED BY <2>1, <2>2, <2>4, StillHome DEF PoolsInv
<1>4. ASSUME NEW p \in Users, GetbufTake(p) PROVE PoolsInv'
  <2>1. CountInv'
    BY <1>0, <1>4, GetbufTakeCount
  <2>2. PICK k \in DOMAIN bptab : k = busy[p].pool /\ busy[p].at = "take"
    BY <1>0, <1>4 DEF GetbufTake, PoolTypes
  <2>3. bptab[k].next # <<>>
    <3>1. p \in In(k, {"take"})
      BY <2>2 DEF In
    <3>2. \A i \in DOMAIN bptab[k].waiting : bptab[k].waiting[i] # p
      BY <1>4, <2>2 DEF GetbufTake
    <3> QED BY <1>0, <3>1, <3>2, ChainHolds
  <2>4. /\ DOMAIN bptab' = DOMAIN bptab /\ Taken(p, k) /\ UNCHANGED heapVars
        /\ bptab'[k].next = Tail(bptab[k].next)
        /\ \A j \in DOMAIN bptab : j # k => bptab'[j].next = bptab[j].next
        /\ \A j \in DOMAIN bptab : /\ bptab'[j].total = bptab[j].total
                                   /\ bptab'[j].size = bptab[j].size /\ bptab'[j].where = bptab[j].where
    <3>1. bptab[k] \in PoolType /\ bptab[k].sem \in Int /\ Tail(bptab[k].next) \in Seq(Int)
      BY <1>0, <2>3, Pool, HeadTailProperties
    <3>2. bptab' = [bptab EXCEPT ![k].next = Tail(bptab[k].next)]
      BY <1>4, <2>2 DEF GetbufTake, Rest
    <3>3. bptab' = [bptab EXCEPT ![k] = With(bptab[k], bptab[k].sem, Tail(bptab[k].next))]
      BY <3>1, <3>2 DEF With, PoolType
    <3>4. Taken(p, k) /\ UNCHANGED heapVars
      BY <1>4, <2>2 DEF GetbufTake
    <3> QED BY <1>0, <3>1, <3>3, <3>4, OtherChain
  <2>5. AtHome(k)
    BY DEF PoolsInv
  <2>6. /\ AtHome(k)' /\ Whole(k)' = Whole(k)
        /\ \A j, q : j # k /\ q \in Users => Mine(q, j)' = Mine(q, j)
    BY <1>0, <2>3, <2>4, <2>5, TakenHome
  <2> QED BY <2>1, <2>4, <2>6, StillHome DEF PoolsInv
<1>5. ASSUME NEW p \in Users, NEW o \in owned[p], Freebuf(p, o) PROVE PoolsInv'
  <2>1. CountInv'
    BY <1>0, <1>5, FreebufCount
  <2>2. PICK k \in DOMAIN bptab : k = o.pool
    BY <1>0 DEF PoolTypes
  <2>3. /\ DOMAIN bptab' = DOMAIN bptab /\ owned' = [owned EXCEPT ![p] = @ \ {o}] /\ UNCHANGED heapVars
        /\ bptab'[k].next = <<o.buf>> \o bptab[k].next
        /\ \A j \in DOMAIN bptab : j # k => bptab'[j].next = bptab[j].next
        /\ \A j \in DOMAIN bptab : /\ bptab'[j].total = bptab[j].total
                                   /\ bptab'[j].size = bptab[j].size /\ bptab'[j].where = bptab[j].where
    <3>1. bptab[k] \in PoolType /\ bptab[k].sem \in Int /\ bptab[k].next \in Seq(Int)
      BY <1>0, Pool
    <3>2. <<o.buf>> \in Seq(Int)
      BY <1>0 DEF PoolTypes
    <3>3. <<o.buf>> \o bptab[k].next \in Seq(Int)
      BY <3>1, <3>2, ConcatProperties
    <3>4. bptab' = [bptab EXCEPT ![k].next = <<o.buf>> \o bptab[k].next]
      BY <1>5, <2>2 DEF Freebuf
    <3>5. bptab' = [bptab EXCEPT ![k] = With(bptab[k], bptab[k].sem, <<o.buf>> \o bptab[k].next)]
      BY <3>1, <3>4 DEF With, PoolType
    <3>6. owned' = [owned EXCEPT ![p] = @ \ {o}] /\ UNCHANGED heapVars
      BY <1>5 DEF Freebuf
    <3> DEFINE c == <<o.buf>> \o bptab[k].next
    <3> HIDE DEF c
    <3>7. c \in Seq(Int) /\ bptab' = [bptab EXCEPT ![k] = With(bptab[k], bptab[k].sem, c)]
      BY <3>3, <3>5 DEF c
    <3>8. /\ DOMAIN bptab' = DOMAIN bptab /\ bptab'[k].next = c
          /\ \A j \in DOMAIN bptab : j # k => bptab'[j].next = bptab[j].next
          /\ \A j \in DOMAIN bptab : /\ bptab'[j].total = bptab[j].total
                                     /\ bptab'[j].size = bptab[j].size /\ bptab'[j].where = bptab[j].where
      <4>1. PICK v \in Int : v = bptab[k].sem
        BY <3>1
      <4>2. bptab' = [bptab EXCEPT ![k] = With(bptab[k], v, c)]
        BY <3>7, <4>1
      <4> QED BY <1>0, <3>7, <4>2, OtherChain
    <3> QED BY <3>6, <3>8 DEF c
  <2>4. AtHome(k)
    BY DEF PoolsInv
  <2>5. /\ AtHome(k)' /\ Whole(k)' = Whole(k)
        /\ \A j, q : j # k /\ q \in Users => Mine(q, j)' = Mine(q, j)
    BY <1>0, <2>2, <2>3, <2>4, FreedHome
  <2> QED BY <2>1, <2>3, <2>5, StillHome DEF PoolsInv
<1>6. ASSUME NEW p \in Users, FreebufSignal(p) PROVE PoolsInv'
  <2>1. CountInv'
    BY <1>0, <1>6, FreebufSignalCount
  <2>2. PICK k \in DOMAIN bptab : k = busy[p].pool
    BY <1>0, <1>6 DEF FreebufSignal, PoolTypes
  <2>3. /\ DOMAIN bptab' = DOMAIN bptab /\ owned' = owned /\ UNCHANGED heapVars
        /\ \A j \in DOMAIN bptab : /\ bptab'[j].next = bptab[j].next /\ bptab'[j].total = bptab[j].total
                                   /\ bptab'[j].size = bptab[j].size /\ bptab'[j].where = bptab[j].where
    BY <1>6 DEF FreebufSignal
  <2>4. \A j, q : Mine(q, j)' = Mine(q, j)
    BY <2>3 DEF Mine
  <2>5. AtHome(k)' /\ Whole(k)' = Whole(k)
    BY <2>3, <2>4, SameHome DEF PoolsInv
  <2> QED BY <2>1, <2>3, <2>4, <2>5, StillHome DEF PoolsInv
<1>7. ASSUME UNCHANGED <<heapVars, poolVars>> PROVE PoolsInv'
  <2>1. memlist' = memlist /\ used' = used /\ bptab' = bptab /\ busy' = busy /\ owned' = owned
    BY <1>7 DEF heapVars, poolVars
  <2>2. PoolTypes'
    BY <1>0, <2>1 DEF PoolTypes
  <2>3. \A k, ats : In(k, ats)' = In(k, ats)
    BY <2>1 DEF In
  <2>4. \A q, j : Mine(q, j)' = Mine(q, j)
    BY <2>1 DEF Mine
  <2>5. ASSUME NEW k \in DOMAIN bptab
        PROVE  Awaited(k)' /\ Counted(k)' /\ AtHome(k)' /\ InPlace(Whole(k), bptab[k])'
    <3>1. Awaited(k)' /\ Counted(k)'
      BY <1>0, <2>1, <2>3, OtherPools
    <3>2. AtHome(k)' /\ Whole(k)' = Whole(k)
      BY <2>1, <2>4, SameHome DEF PoolsInv
    <3> QED BY <2>1, <3>1, <3>2 DEF PoolsInv, InPlace
  <2> QED BY <2>1, <2>2, <2>5 DEF PoolsInv, CountInv
<1> QED BY <1>1, <1>2, <1>3, <1>4, <1>5, <1>6, <1>7 DEF PoolsNext

\* Whoever has passed the wait() of getbuf() finds a buffer, which is in the chain
\* once and with nobody, and shares no memory with another (mkpool.c, getbuf.c,
\* freebuf.c), for any kinds of pools and any number of users.
THEOREM PoolsTheorem == PoolsSpec => []PoolsRight
<1>1. PoolsInv => PoolsRight
  <2> SUFFICES ASSUME PoolsInv PROVE ChainCounted /\ OneOwner /\ BuffersApart
    BY DEF PoolsRight
  <2>1. ChainCounted
    BY DEF PoolsInv, CountInv, Counted, ChainCounted
  <2>2. ASSUME NEW k \in DOMAIN bptab
        PROVE  /\ Buffers(k) = Whole(k) /\ DOMAIN bptab[k].next = 1 .. Len(bptab[k].next)
               /\ AtHome(k) /\ InPlace(Whole(k), bptab[k])
    <3>1. DOMAIN bptab[k].next = 1 .. Len(bptab[k].next)
      BY Pool, LenProperties DEF PoolsInv, CountInv
    <3>2. DOMAIN owned = Users
      BY DEF PoolsInv, CountInv, PoolTypes
    <3>3. \A x : x \in UNION Range(owned) <=> \E p \in Users : x \in owned[p]
      BY <3>2 DEF Range
    <3>4. {o.buf : o \in {x \in UNION Range(owned) : x.pool = k}} = UNION {Mine(p, k) : p \in Users}
      BY <3>3 DEF Mine
    <3> QED BY <3>1, <3>4 DEF PoolsInv, Buffers, Whole
  <2>3. OneOwner
    BY <2>2 DEF OneOwner, AtHome, InPlace, Whole, Mine
  <2>4. BuffersApart
    BY <2>2 DEF BuffersApart, InPlace
  <2> QED BY <2>1, <2>3, <2>4
<1> QED BY <1>1, InitPools, PoolsKept, PTL DEF PoolsSpec
-----------------------------------------------------------------------------
(* Lanes *)

Sorted(s) == \A i, j \in 1 .. Len(s) : i < j => s[i].key >= s[j].key

\* The entries of priority k are those from a to b.
From(s, k, a, b) == /\ a \in 1 .. Len(s) /\ b \in a .. Len(s)
                    /\ \A i \in 1 .. Len(s) : s[i].key = k <=> i \in a .. b

LEMMA LaneIs ==
  ASSUME NEW s \in Seq(Items), NEW k, NEW a, NEW b, From(s, k, a, b)
  PROVE  Lane(s, k) = SubSeq(s, a, b)
<1>1. Len(s) \in Nat /\ DOMAIN s = 1 .. Len(s)
  BY LenProperties
<1>2. PICK A \in Nat, B \in Nat : A = a /\ B = b /\ A <= B
  BY <1>1 DEF From
<1>3. {i \in DOMAIN s : s[i].key = k} = A .. B
  BY <1>1, <1>2 DEF From
<1>4. (CHOOSE i \in A .. B : \A j \in A .. B : i <= j) = A
  BY <1>2
<1>5. (CHOOSE i \in A .. B : \A j \in A .. B : j <= i) = B
  BY <1>2
<1>6. A .. B # {}
  <2>1. A \in A .. B
    BY <1>2
  <2> QED BY <2>1
<1> QED BY <1>2, <1>3, <1>4, <1>5, <1>6 DEF Lane

LEMMA NoLane ==
  ASSUME NEW s \in Seq(Items), NEW k, \A i \in 1 .. Len(s) : s[i].key # k
  PROVE  Lane(s, k) = <<>>
<1>1. DOMAIN s = 1 .. Len(s)
  BY LenProperties
<1> QED BY <1>1 DEF Lane

LEMMA LastIndex ==
  ASSUME NEW n \in Nat, NEW D \in SUBSET (1 .. n), D # {}
  PROVE  \E i \in D : \A j \in i + 1 .. n : j \notin D
<1> DEFINE E == {i \in 1 .. n : n + 1 - i \in D}
<1>1. PICK d \in D : TRUE
  OBVIOUS
<1>2. n + 1 - d \in 1 .. n /\ n + 1 - (n + 1 - d) = d
  OBVIOUS
<1>3. E \in SUBSET (1 .. n) /\ E # {}
  BY <1>1, <1>2
<1>4. PICK e \in E : \A j \in 1 .. e - 1 : j \notin E
  BY <1>3, FirstIndex
<1>5. e \in 1 .. n /\ n + 1 - e \in D
  OBVIOUS
<1>6. ASSUME NEW j \in (n + 1 - e) + 1 .. n PROVE j \notin D
  <2>1. n + 1 - j \in 1 .. e - 1 /\ n + 1 - j \in 1 .. n /\ n + 1 - (n + 1 - j) = j
    BY <1>5
  <2> QED BY <1>4, <2>1
<1> QED BY <1>5, <1>6

\* In a sorted queue the items of one priority lie side by side.
LEMMA LaneWhere ==
  ASSUME NEW s \in Seq(Items), Sorted(s), NEW k, NEW h \in 1 .. Len(s), s[h].key = k
  PROVE  \E a, b \in 1 .. Len(s) : From(s, k, a, b)
<1>1. PICK n \in Nat : n = Len(s)
  BY LenProperties
<1>2. \A i \in 1 .. n : s[i].key \in Int
  <2>1. \A i \in 1 .. n : s[i] \in Items
    BY <1>1, ElementOfSeq
  <2>2. Keys \subseteq Int
    BY QueueAssumption
  <2> QED BY <2>1, <2>2 DEF Items
<1> DEFINE D == {i \in 1 .. n : s[i].key = k}
<1>3. D \in SUBSET (1 .. n) /\ D # {}
  BY <1>1
<1>4. PICK a \in D : \A j \in 1 .. a - 1 : j \notin D
  <2> HIDE DEF D
  <2> QED BY <1>3, FirstIndex
<1>5. PICK b \in D : \A j \in b + 1 .. n : j \notin D
  <2> HIDE DEF D
  <2> QED BY <1>3, LastIndex
<1>6. a \in 1 .. n /\ b \in 1 .. n /\ s[a].key = k /\ s[b].key = k
  OBVIOUS
<1>7. a <= b
  <2> SUFFICES ASSUME b < a PROVE FALSE
    BY <1>6
  <2>1. b \in 1 .. a - 1
    BY <1>6
  <2> QED BY <1>4, <2>1
<1>8. ASSUME NEW i \in 1 .. n, s[i].key = k PROVE i \in a .. b
  <2>1. i \in D
    BY <1>8
  <2>2. ~(i < a) /\ ~(i > b)
    <3>1. i < a => i \in 1 .. a - 1
      BY <1>6
    <3>2. i > b => i \in b + 1 .. n
      BY <1>6
    <3> QED BY <1>4, <1>5, <2>1, <3>1, <3>2
  <2> QED BY <1>6, <2>2
<1>9. ASSUME NEW i \in a .. b PROVE s[i].key = k
  <2>1. i \in 1 .. n /\ (i = a \/ a < i) /\ (i = b \/ i < b)
    BY <1>6
  <2>2. i # a => s[a].key >= s[i].key
    BY <1>1, <1>6, <2>1 DEF Sorted
  <2>3. i # b => s[i].key >= s[b].key
    BY <1>1, <1>6, <2>1 DEF Sorted
  <2>4. PICK x \in Int : x = s[i].key
    BY <1>2, <2>1
  <2>5. k \in Int /\ (i # a => k >= x) /\ (i # b => x >= k)
    BY <1>2, <1>6, <2>2, <2>3, <2>4
  <2>6. (i = a => x = k) /\ (i = b => x = k)
    BY <1>6, <2>4
  <2>7. CASE i # a /\ i # b
    <3>1. PICK y \in Int : y = k /\ y >= x /\ x >= y
      BY <2>5, <2>7
    <3>2. x = y
      BY <3>1
    <3> QED BY <2>4, <3>1, <3>2
  <2> QED BY <2>4, <2>6, <2>7
<1>10. b \in a .. n
  BY <1>6, <1>7
<1>11. From(s, k, a, b)
  BY <1>1, <1>6, <1>8, <1>9, <1>10 DEF From
<1> QED BY <1>1, <1>6, <1>11

\* The same items d places behind are the same lane.
LEMMA SameLane ==
  ASSUME NEW s \in Seq(Items), NEW r \in Seq(Items), NEW k, NEW d \in Int, NEW a, NEW b,
         From(s, k, a, b), From(r, k, a + d, b + d), \A i \in a .. b : r[i + d] = s[i]
  PROVE  Lane(r, k) = Lane(s, k)
<1>1. PICK A \in Nat \ {0}, B \in Nat, C \in Nat \ {0}, D \in Nat :
           /\ A = a /\ B = b /\ C = A + d /\ D = B + d /\ A <= B /\ B <= Len(s) /\ D <= Len(r)
  <2>1. Len(s) \in Nat /\ Len(r) \in Nat
    BY LenProperties
  <2>2. a \in Nat \ {0} /\ b \in Nat /\ a <= b /\ b <= Len(s)
    BY <2>1 DEF From
  <2>3. a + d \in Nat \ {0} /\ b + d \in Nat /\ b + d <= Len(r)
    BY <2>1 DEF From
  <2> QED BY <2>2, <2>3
<1>2. Lane(s, k) = SubSeq(s, A, B) /\ Lane(r, k) = SubSeq(r, C, D)
  BY <1>1, LaneIs
<1>3. /\ SubSeq(s, A, B) \in Seq(Items) /\ Len(SubSeq(s, A, B)) = B - A + 1
      /\ \A i \in 1 .. B - A + 1 : SubSeq(s, A, B)[i] = s[A + i - 1]
  BY <1>1, SubSeqOf
<1>4. /\ SubSeq(r, C, D) \in Seq(Items) /\ Len(SubSeq(r, C, D)) = D - C + 1
      /\ \A i \in 1 .. D - C + 1 : SubSeq(r, C, D)[i] = r[C + i - 1]
  BY <1>1, SubSeqOf
<1>5. D - C + 1 = B - A + 1
  BY <1>1
<1>6. ASSUME NEW i \in 1 .. B - A + 1 PROVE SubSeq(r, C, D)[i] = SubSeq(s, A, B)[i]
  <2>1. A + i - 1 \in A .. B /\ (A + i - 1) + d = C + i - 1
    BY <1>1
  <2> QED BY <1>1, <1>3, <1>4, <1>5, <2>1
<1>7. SubSeq(r, C, D) = SubSeq(s, A, B)
  BY <1>3, <1>4, <1>5, <1>6, SeqEqual
<1> QED BY <1>2, <1>7

LEMMA KeysInt == ASSUME NEW s \in Seq(Items), NEW i \in 1 .. Len(s) PROVE s[i] \in Items /\ s[i].key \in Int
<1>1. s[i] \in Items
  BY ElementOfSeq
<1>2. Keys \subseteq Int
  BY QueueAssumption
<1> QED BY <1>1, <1>2 DEF Items

Concatenated(S, a, b, m, n, c) ==
  /\ c \in Seq(S) /\ Len(c) = m + n
  /\ \A i \in 1 .. m : c[i] = a[i]
  /\ \A i \in 1 .. n : c[m + i] = b[i]

LEMMA Joining ==
  ASSUME NEW S, NEW a \in Seq(S), NEW b \in Seq(S), NEW m \in Nat, NEW n \in Nat, Len(a) = m, Len(b) = n
  PROVE  Concatenated(S, a, b, m, n, a \o b)
<1>1. PICK c : c = a \o b
  OBVIOUS
<1>2. /\ c \in Seq(S) /\ Len(c) = Len(a) + Len(b)
      /\ \A i \in 1 .. Len(a) + Len(b) : c[i] = IF i <= Len(a) THEN a[i] ELSE b[i - Len(a)]
  <2>1. /\ a \o b \in Seq(S) /\ Len(a \o b) = Len(a) + Len(b)
        /\ \A i \in 1 .. Len(a) + Len(b) : (a \o b)[i] = IF i <= Len(a) THEN a[i] ELSE b[i - Len(a)]
    BY ConcatProperties
  <2> QED BY <1>1, <2>1, Zenon
<1>3. Len(c) = m + n /\ \A i \in 1 .. m + n : c[i] = IF i <= m THEN a[i] ELSE b[i - m]
  BY <1>2
<1>4. \A i \in 1 .. m : i \in 1 .. m + n /\ i <= m
  OBVIOUS
<1>5. \A i \in 1 .. n : m + i \in 1 .. m + n /\ ~(m + i <= m) /\ (m + i) - m = i
  OBVIOUS
<1>6. \A i \in 1 .. m : c[i] = a[i]
  BY <1>3, <1>4
<1>7. \A i \in 1 .. n : c[m + i] = b[i]
  BY <1>3, <1>5
<1>8. Concatenated(S, a, b, m, n, c)
  BY <1>2, <1>3, <1>6, <1>7 DEF Concatenated
<1> QED BY <1>1, <1>8, Zenon

\* enq() puts the item behind those of its priority or a higher one, and the others
\* behind it (gpq.c:61-72).
Placed(s, x, r, p) ==
  /\ p \in 0 .. Len(s) /\ r \in Seq(Items) /\ Len(r) = Len(s) + 1
  /\ \A i \in 1 .. p : r[i] = s[i] /\ s[i].key >= x.key
  /\ r[p + 1] = x
  /\ \A i \in p + 1 .. Len(s) : r[i + 1] = s[i] /\ s[i].key < x.key

LEMMA InsertedIs ==
  ASSUME NEW s \in Seq(Items), Sorted(s), NEW x \in Items
  PROVE  \E p \in 0 .. Len(s) : Placed(s, x, Inserted(s, x), p)
<1>1. PICK n \in Nat : n = Len(s) /\ DOMAIN s = 1 .. n
  BY LenProperties
<1> DEFINE A == NotBelow(s, x)
           p == IF A = {} THEN 0 ELSE CHOOSE i \in A : \A j \in A : j <= i
<1>2. A = {i \in 1 .. n : s[i].key >= x.key}
  BY <1>1 DEF NotBelow
<1>3. x.key \in Int
  <2>1. Keys \subseteq Int
    BY QueueAssumption
  <2> QED BY <2>1 DEF Items
<1>4. A # {} => p \in A /\ \A j \in A : j <= p
  <2> SUFFICES ASSUME A # {} PROVE p \in A /\ \A j \in A : j <= p
    OBVIOUS
  <2>1. A \in SUBSET (1 .. n)
    BY <1>2
  <2> HIDE DEF A
  <2>2. PICK i \in A : \A j \in i + 1 .. n : j \notin A
    BY <2>1, LastIndex
  <2>3. ASSUME NEW j \in A PROVE j <= i
    <3>1. j \in 1 .. n /\ i \in 1 .. n /\ (j > i => j \in i + 1 .. n)
      BY <2>1
    <3> QED BY <2>2, <3>1
  <2> QED BY <2>2, <2>3
<1>5. p \in 0 .. n
  BY <1>2, <1>4
<1>6. \A i \in 1 .. p : s[i].key >= x.key
  <2> SUFFICES ASSUME NEW i \in 1 .. p PROVE s[i].key >= x.key
    OBVIOUS
  <2>1. A # {} /\ p \in 1 .. n
    BY <1>5
  <2>2. p \in A
    BY <1>4, <2>1
  <2>3. s[p].key >= x.key
    BY <1>2, <2>2
  <2> HIDE DEF p
  <2>4. i \in 1 .. n /\ (i = p \/ i < p)
    BY <2>1
  <2>5. s[i].key \in Int /\ s[p].key \in Int
    BY <1>1, <2>1, <2>4, KeysInt
  <2>6. i < p => s[i].key >= s[p].key
    BY <1>1, <2>1, <2>4 DEF Sorted
  <2>7. CASE i = p
    BY <2>3, <2>7
  <2>8. CASE i < p
    BY <1>3, <2>3, <2>5, <2>6, <2>8
  <2> QED BY <2>4, <2>7, <2>8
<1>7. \A i \in p + 1 .. n : s[i].key < x.key
  <2> SUFFICES ASSUME NEW i \in p + 1 .. n PROVE s[i].key < x.key
    OBVIOUS
  <2>1. i \in 1 .. n /\ i > p
    BY <1>5
  <2>2. i \notin A
    BY <1>4, <1>5, <2>1
  <2>3. ~(s[i].key >= x.key)
    BY <1>2, <2>1, <2>2
  <2>4. s[i].key \in Int
    BY <1>1, <2>1, KeysInt
  <2> QED BY <1>3, <2>3, <2>4
<1>8. Inserted(s, x) = SubSeq(s, 1, p) \o <<x>> \o SubSeq(s, p + 1, Len(s))
  BY DEF Inserted
<1> HIDE DEF p
<1>9. PICK a, b, c : a = SubSeq(s, 1, p) /\ b = <<x>> /\ c = SubSeq(s, p + 1, Len(s))
  OBVIOUS
<1>10. a \in Seq(Items) /\ Len(a) = p /\ \A i \in 1 .. p : a[i] = s[i]
  <2>1. 1 \in Nat \ {0} /\ p \in Nat /\ p <= Len(s) /\ (IF 1 <= p THEN p - 1 + 1 ELSE 0) = p
    BY <1>1, <1>5
  <2> QED BY <1>9, <2>1, SubSeqOf
<1>11. c \in Seq(Items) /\ Len(c) = n - p /\ \A i \in 1 .. n - p : c[i] = s[p + i]
  <2>1. p + 1 \in Nat \ {0} /\ n \in Nat /\ (IF p + 1 <= n THEN n - (p + 1) + 1 ELSE 0) = n - p
        /\ \A i \in 1 .. n - p : (p + 1) + i - 1 = p + i
    BY <1>5
  <2>2. /\ c \in Seq(Items) /\ Len(c) = IF p + 1 <= n THEN n - (p + 1) + 1 ELSE 0
        /\ \A i \in 1 .. Len(c) : c[i] = s[(p + 1) + i - 1]
    BY <1>1, <1>9, <2>1, SubSeqOf
  <2> QED BY <2>1, <2>2
<1>12. b \in Seq(Items) /\ Len(b) = 1 /\ b[1] = x
  BY <1>9
<1>20. \A u, v \in Seq(Items) : \A l, o \in Nat : Len(u) = l /\ Len(v) = o =>
            Concatenated(Items, u, v, l, o, u \o v)
  BY Joining, Zenon
<1>13. PICK d : d = a \o b /\ d \in Seq(Items) /\ Len(d) = p + 1 /\ (\A i \in 1 .. p : d[i] = s[i]) /\ d[p + 1] = x
  <2>1. PICK l \in Nat, o \in Nat : l = p /\ o = 1 /\ 1 \in 1 .. o
    BY <1>5
  <2>2. a \in Seq(Items) /\ b \in Seq(Items) /\ Len(a) = l /\ Len(b) = o
    BY <1>10, <1>12, <2>1
  <2>3. Concatenated(Items, a, b, l, o, a \o b)
    BY <1>20, <2>1, <2>2, Zenon
  <2>4. PICK d : d = a \o b /\ Concatenated(Items, a, b, l, o, d)
    BY <2>3, Zenon
  <2>5. d \in Seq(Items) /\ Len(d) = l + o /\ (\A i \in 1 .. l : d[i] = a[i]) /\ d[l + 1] = b[1]
    BY <2>1, <2>4 DEF Concatenated
  <2>6. d \in Seq(Items) /\ Len(d) = p + 1 /\ (\A i \in 1 .. p : d[i] = s[i]) /\ d[p + 1] = x
    BY <1>10, <1>12, <2>1, <2>5
  <2> QED BY <2>4, <2>6, Zenon
<1>14. PICK r : /\ r = d \o c /\ r \in Seq(Items) /\ Len(r) = n + 1
                /\ \A i \in 1 .. p + 1 : r[i] = d[i]
                /\ \A i \in 1 .. n - p : r[(p + 1) + i] = c[i]
  <2>1. PICK l \in Nat, o \in Nat : l = p + 1 /\ o = n - p /\ l + o = n + 1
    BY <1>5
  <2>2. d \in Seq(Items) /\ c \in Seq(Items) /\ Len(d) = l /\ Len(c) = o
    BY <1>11, <1>13, <2>1
  <2>3. Concatenated(Items, d, c, l, o, d \o c)
    BY <1>20, <2>1, <2>2, Zenon
  <2>4. PICK r : r = d \o c /\ Concatenated(Items, d, c, l, o, r)
    BY <2>3, Zenon
  <2>5. r \in Seq(Items) /\ Len(r) = n + 1 /\ (\A i \in 1 .. p + 1 : r[i] = d[i]) /\ \A i \in 1 .. n - p : r[(p + 1) + i] = c[i]
    BY <2>1, <2>4 DEF Concatenated
  <2> QED BY <2>4, <2>5, Zenon
<1>15. r = Inserted(s, x)
  BY <1>8, <1>9, <1>13, <1>14
<1>16. \A i \in 1 .. p : r[i] = s[i]
  <2>1. \A i \in 1 .. p : i \in 1 .. p + 1
    BY <1>5
  <2> QED BY <1>13, <1>14, <2>1
<1>17. r[p + 1] = x
  <2>1. p + 1 \in 1 .. p + 1
    BY <1>5
  <2> QED BY <1>13, <1>14, <2>1
<1>18. \A i \in p + 1 .. n : r[i + 1] = s[i]
  <2>1. \A i \in p + 1 .. n : i - p \in 1 .. n - p /\ (p + 1) + (i - p) = i + 1 /\ p + (i - p) = i
    BY <1>5
  <2> SUFFICES ASSUME NEW i \in p + 1 .. n PROVE r[i + 1] = s[i]
    OBVIOUS
  <2>2. PICK j \in 1 .. n - p : (p + 1) + j = i + 1 /\ p + j = i
    BY <2>1
  <2>3. r[(p + 1) + j] = c[j] /\ c[j] = s[p + j]
    BY <1>11, <1>14
  <2> QED BY <2>2, <2>3
<1>19. Placed(s, x, r, p)
  BY <1>1, <1>5, <1>6, <1>7, <1>14, <1>16, <1>17, <1>18 DEF Placed
<1> QED BY <1>1, <1>5, <1>15, <1>19

LEMMA PlacedSorted ==
  ASSUME NEW s \in Seq(Items), Sorted(s), NEW x \in Items, NEW r, NEW p, Placed(s, x, r, p)
  PROVE  Sorted(r)
<1>1. PICK n \in Nat : n = Len(s) /\ Len(r) = n + 1 /\ p \in 0 .. n
  BY LenProperties DEF Placed
<1>2. \A i \in 1 .. n : s[i].key \in Int
  BY <1>1, KeysInt
<1>3. x.key \in Int
  <2>1. Keys \subseteq Int
    BY QueueAssumption
  <2> QED BY <2>1 DEF Items
<1> SUFFICES ASSUME NEW i \in 1 .. n + 1, NEW j \in 1 .. n + 1, i < j PROVE r[i].key >= r[j].key
  BY <1>1 DEF Sorted
<1>4. \A k \in 1 .. p : r[k] = s[k] /\ s[k].key >= x.key
  BY DEF Placed
<1>5. r[p + 1] = x
  BY DEF Placed
<1>6. \A k \in p + 1 .. n : r[k + 1] = s[k] /\ s[k].key < x.key
  BY <1>1 DEF Placed
<1>7. \A k \in p + 2 .. n + 1 : k - 1 \in p + 1 .. n /\ (k - 1) + 1 = k
  BY <1>1
<1>8. \A k \in p + 2 .. n + 1 : r[k] = s[k - 1] /\ s[k - 1].key < x.key
  BY <1>6, <1>7
<1>9. \A k, l \in 1 .. n : k < l => s[k].key >= s[l].key
  BY <1>1 DEF Sorted
<1>10. CASE j <= p
  <2>1. i \in 1 .. p /\ j \in 1 .. p /\ i \in 1 .. n /\ j \in 1 .. n
    BY <1>1, <1>10
  <2> QED BY <1>4, <1>9, <2>1
<1>11. CASE j = p + 1
  <2>1. i \in 1 .. p
    BY <1>1, <1>11
  <2> QED BY <1>4, <1>5, <1>11, <2>1
<1>12. CASE j > p + 1
  <2>1. j \in p + 2 .. n + 1 /\ j - 1 \in 1 .. n
    BY <1>1, <1>12
  <2>2. CASE i <= p
    <3>1. i \in 1 .. p /\ i \in 1 .. n /\ i < j - 1
      BY <1>1, <1>12, <2>2
    <3> QED BY <1>4, <1>8, <1>9, <2>1, <3>1
  <2>3. CASE i = p + 1
    <3>1. r[j] = s[j - 1] /\ s[j - 1].key < x.key /\ s[j - 1].key \in Int
      BY <1>2, <1>8, <2>1
    <3>2. PICK v \in Int, w \in Int : v = s[j - 1].key /\ w = x.key /\ v < w
      BY <1>3, <3>1
    <3>3. w >= v
      BY <3>2
    <3> QED BY <1>5, <2>3, <3>1, <3>2, <3>3
  <2>4. CASE i > p + 1
    <3>1. i \in p + 2 .. n + 1 /\ i - 1 \in 1 .. n /\ i - 1 < j - 1
      BY <1>1, <2>4
    <3> QED BY <1>8, <1>9, <2>1, <3>1
  <2> QED BY <1>1, <2>2, <2>3, <2>4
<1> QED BY <1>1, <1>10, <1>11, <1>12

\* It joins the lane of its priority at the end ...
LEMMA PlacedLane ==
  ASSUME NEW s \in Seq(Items), Sorted(s), NEW x \in Items, NEW r, NEW p, Placed(s, x, r, p)
  PROVE  Lane(r, x.key) = Append(Lane(s, x.key), x)
<1> DEFINE k == x.key
<1>1. PICK n \in Nat : n = Len(s) /\ Len(r) = n + 1 /\ p \in 0 .. n /\ r \in Seq(Items)
  BY LenProperties DEF Placed
<1>2. k \in Int /\ \A i \in 1 .. n : s[i].key \in Int
  <2>1. Keys \subseteq Int
    BY QueueAssumption
  <2> QED BY <1>1, <2>1, KeysInt DEF Items
<1>3. \A i \in 1 .. p : r[i] = s[i] /\ s[i].key >= k
  BY DEF Placed
<1>4. r[p + 1] = x
  BY DEF Placed
<1>5. \A i \in p + 1 .. n : r[i + 1] = s[i] /\ s[i].key < k
  BY <1>1 DEF Placed
<1>6. \A i \in p + 1 .. n : s[i].key # k
  <2> SUFFICES ASSUME NEW i \in p + 1 .. n PROVE s[i].key # k
    OBVIOUS
  <2>1. i \in 1 .. n
    BY <1>1
  <2> QED BY <1>2, <1>5, <2>1
<1>7. \A i \in p + 2 .. n + 1 : r[i].key # k
  <2> SUFFICES ASSUME NEW i \in p + 2 .. n + 1 PROVE r[i].key # k
    OBVIOUS
  <2>1. i - 1 \in p + 1 .. n /\ (i - 1) + 1 = i
    BY <1>1
  <2> QED BY <1>5, <1>6, <2>1
<1>8. p + 1 \in 1 .. n + 1 /\ p + 1 \in Nat \ {0} /\ (\A i \in 1 .. n + 1 : i \in 1 .. p \/ i = p + 1 \/ i \in p + 2 .. n + 1)
      /\ (\A i \in 1 .. n : i \in 1 .. p \/ i \in p + 1 .. n)
  BY <1>1
<1>9. /\ SubSeq(r, p + 1, p + 1) \in Seq(Items) /\ Len(SubSeq(r, p + 1, p + 1)) = 1
      /\ SubSeq(r, p + 1, p + 1)[1] = x
  <2>1. PICK m \in Nat \ {0} : m = p + 1 /\ m <= Len(r) /\ m - m + 1 = 1 /\ m + 1 - 1 = m /\ m <= m
    BY <1>1, <1>8
  <2>2. /\ SubSeq(r, m, m) \in Seq(Items) /\ Len(SubSeq(r, m, m)) = IF m <= m THEN m - m + 1 ELSE 0
        /\ \A i \in 1 .. Len(SubSeq(r, m, m)) : SubSeq(r, m, m)[i] = r[m + i - 1]
    BY <1>1, <2>1, SubSeqOf
  <2>3. PICK u : u = SubSeq(r, m, m)
    OBVIOUS
  <2>4. u \in Seq(Items) /\ Len(u) = 1 /\ 1 \in 1 .. Len(u)
    BY <2>1, <2>2, <2>3
  <2>5. u[1] = r[m + 1 - 1]
    BY <2>2, <2>3, <2>4
  <2>6. u[1] = x
    BY <1>4, <2>1, <2>5
  <2> QED BY <2>1, <2>3, <2>4, <2>6
<1>10. CASE \A i \in 1 .. n : s[i].key # k
  <2>1. Lane(s, k) = <<>>
    BY <1>1, <1>10, NoLane
  <2>2. \A i \in 1 .. p : r[i].key # k
    <3>1. \A i \in 1 .. p : i \in 1 .. n
      BY <1>1
    <3> QED BY <1>3, <1>10, <3>1
  <2>3. \A i \in 1 .. n + 1 : r[i].key = k <=> i = p + 1
    BY <1>4, <1>7, <1>8, <2>2
  <2>4. p + 1 \in p + 1 .. p + 1 /\ \A i \in 1 .. n + 1 : i = p + 1 <=> i \in p + 1 .. p + 1
    BY <1>8
  <2>5. From(r, k, p + 1, p + 1)
    BY <1>1, <1>8, <2>3, <2>4 DEF From
  <2>6. Lane(r, k) = SubSeq(r, p + 1, p + 1)
    BY <1>1, <2>5, LaneIs
  <2>7. PICK u \in Seq(Items) : u = Lane(r, k) /\ Len(u) = 1 /\ u[1] = x
    BY <1>9, <2>6
  <2>8. Append(<<>>, x) \in Seq(Items) /\ Len(Append(<<>>, x)) = 1 /\ Append(<<>>, x)[1] = x
    OBVIOUS
  <2>9. u = Append(<<>>, x)
    <3>1. \A i \in 1 .. 1 : u[i] = Append(<<>>, x)[i]
      BY <2>7, <2>8
    <3> QED BY <2>7, <2>8, <3>1, SeqEqual
  <2> QED BY <2>1, <2>7, <2>9
<1>11. CASE ~ \A i \in 1 .. n : s[i].key # k
  <2>1. PICK h \in 1 .. n : s[h].key = k
    BY <1>11
  <2>2. PICK a \in 1 .. n, b \in 1 .. n : From(s, k, a, b)
    BY <1>1, <2>1, LaneWhere
  <2>3. b \in a .. n /\ \A i \in 1 .. n : s[i].key = k <=> i \in a .. b
    BY <1>1, <2>2 DEF From
  <2>4. a \in a .. b /\ b \in a .. b /\ a <= b
    BY <2>3
  <2>5. b \in 1 .. p
    BY <1>6, <1>8, <2>3, <2>4
  <2>6. b = p
    <3> SUFFICES ASSUME b < p PROVE FALSE
      BY <1>1, <2>5
    <3>1. p \in 1 .. n /\ p \in 1 .. p /\ ~(p \in a .. b)
      BY <1>1, <2>5
    <3>2. s[b].key = k /\ s[b].key >= s[p].key /\ s[p].key >= k /\ s[p].key \in Int
      BY <1>1, <1>2, <1>3, <2>3, <2>4, <3>1 DEF Sorted
    <3>3. PICK v \in Int, w \in Int : v = k /\ w = s[p].key /\ v >= w /\ w >= v
      BY <1>2, <3>2
    <3>4. v = w
      BY <3>3
    <3> QED BY <2>3, <3>1, <3>3, <3>4
  <2>7. \A i \in 1 .. p : r[i].key = k <=> i \in a .. p + 1
    <3>1. \A i \in 1 .. p : i \in 1 .. n /\ (i \in a .. p <=> i \in a .. p + 1)
      BY <1>1, <2>6
    <3> QED BY <1>3, <2>3, <2>6, <3>1
  <2>8. p + 1 \in a .. p + 1 /\ p + 1 \in a .. n + 1 /\ a \in 1 .. n + 1 /\ \A i \in p + 2 .. n + 1 : ~(i \in a .. p + 1)
    BY <1>1, <2>4, <2>6
  <2>9. \A i \in 1 .. n + 1 : r[i].key = k <=> i \in a .. p + 1
    BY <1>4, <1>7, <1>8, <2>7, <2>8
  <2>10. From(r, k, a, p + 1)
    BY <1>1, <2>8, <2>9 DEF From
  <2>11. Lane(r, k) = SubSeq(r, a, p + 1) /\ Lane(s, k) = SubSeq(s, a, p)
    BY <1>1, <2>2, <2>6, <2>10, LaneIs
  <2>12. PICK A \in Nat \ {0}, B \in Nat, C \in Nat : A = a /\ B = p /\ C = B + 1 /\ A <= B /\ B <= Len(s) /\ C <= Len(r)
    BY <1>1, <2>4, <2>6
  <2>13. PICK u \in Seq(Items) : /\ u = SubSeq(s, A, B) /\ Len(u) = B - A + 1
                                 /\ \A i \in 1 .. B - A + 1 : u[i] = s[A + i - 1]
    <3>1. /\ SubSeq(s, A, B) \in Seq(Items) /\ Len(SubSeq(s, A, B)) = B - A + 1
          /\ \A i \in 1 .. B - A + 1 : SubSeq(s, A, B)[i] = s[A + i - 1]
      BY <2>12, SubSeqOf
    <3> QED BY <3>1, Zenon
  <2>14. PICK v \in Seq(Items) : /\ v = SubSeq(r, A, C) /\ Len(v) = C - A + 1
                                 /\ \A i \in 1 .. C - A + 1 : v[i] = r[A + i - 1]
    <3>1. A <= C
      BY <2>12
    <3>2. /\ SubSeq(r, A, C) \in Seq(Items) /\ Len(SubSeq(r, A, C)) = C - A + 1
          /\ \A i \in 1 .. C - A + 1 : SubSeq(r, A, C)[i] = r[A + i - 1]
      BY <1>1, <2>12, <3>1, SubSeqOf
    <3> QED BY <3>2, Zenon
  <2>15. PICK w \in Seq(Items) : /\ w = Append(u, x) /\ Len(w) = Len(u) + 1
                                 /\ (\A i \in 1 .. Len(u) : w[i] = u[i]) /\ w[Len(u) + 1] = x
    BY AppendProperties
  <2>16. PICK m \in Nat : m = B - A + 1 /\ C - A + 1 = m + 1 /\ A + (m + 1) - 1 = B + 1
    BY <2>12
  <2>17. \A i \in 1 .. m : v[i] = w[i]
    <3> SUFFICES ASSUME NEW i \in 1 .. m PROVE v[i] = w[i]
      OBVIOUS
    <3>1. A + i - 1 \in 1 .. B /\ i \in 1 .. m + 1
      BY <2>12, <2>16
    <3>2. v[i] = r[A + i - 1] /\ u[i] = s[A + i - 1] /\ w[i] = u[i]
      BY <2>13, <2>14, <2>15, <2>16, <3>1
    <3> QED BY <1>3, <2>12, <3>1, <3>2
  <2>18. v[m + 1] = w[m + 1]
    <3>1. m + 1 \in 1 .. m + 1
      OBVIOUS
    <3>2. v[m + 1] = r[A + (m + 1) - 1]
      BY <2>14, <2>16, <3>1
    <3> QED BY <1>4, <2>12, <2>13, <2>15, <2>16, <3>2
  <2>19. \A i \in 1 .. m + 1 : v[i] = w[i]
    <3>1. \A i \in 1 .. m + 1 : i \in 1 .. m \/ i = m + 1
      OBVIOUS
    <3> QED BY <2>17, <2>18, <3>1
  <2>20. v = w
    <3>1. Len(v) = m + 1 /\ Len(w) = m + 1
      BY <2>13, <2>14, <2>15, <2>16
    <3> QED BY <2>19, <3>1, SeqEqual
  <2> QED BY <2>11, <2>12, <2>13, <2>14, <2>15, <2>20
<1> QED BY <1>10, <1>11

\* ... and leaves the others alone.
LEMMA PlacedOther ==
  ASSUME NEW s \in Seq(Items), Sorted(s), NEW x \in Items, NEW r, NEW p, Placed(s, x, r, p),
         NEW k \in Keys, k # x.key
  PROVE  Lane(r, k) = Lane(s, k)
<1>1. PICK n \in Nat : n = Len(s) /\ Len(r) = n + 1 /\ p \in 0 .. n /\ r \in Seq(Items)
  BY LenProperties DEF Placed
<1>2. k \in Int /\ x.key \in Int
  <2>1. Keys \subseteq Int
    BY QueueAssumption
  <2> QED BY <2>1 DEF Items
<1>3. \A i \in 1 .. p : r[i] = s[i] /\ s[i].key >= x.key
  BY DEF Placed
<1>4. r[p + 1] = x
  BY DEF Placed
<1>5. \A i \in p + 1 .. n : r[i + 1] = s[i] /\ s[i].key < x.key
  BY <1>1 DEF Placed
<1>6. \A i \in p + 2 .. n + 1 : i - 1 \in p + 1 .. n /\ (i - 1) + 1 = i
  BY <1>1
<1>7. \A i \in p + 2 .. n + 1 : r[i] = s[i - 1]
  BY <1>5, <1>6
<1>8. (\A i \in 1 .. n + 1 : i \in 1 .. p \/ i = p + 1 \/ i \in p + 2 .. n + 1) /\ (\A i \in 1 .. n : i \in 1 .. p \/ i \in p + 1 .. n)
      /\ (\A i \in 1 .. p : i \in 1 .. n) /\ (\A i \in p + 2 .. n + 1 : i - 1 \in 1 .. n)
  BY <1>1
<1>9. CASE \A i \in 1 .. n : s[i].key # k
  <2>1. \A i \in 1 .. n + 1 : r[i].key # k
    BY <1>3, <1>4, <1>7, <1>8, <1>9
  <2> QED BY <1>1, <1>9, <2>1, NoLane
<1>10. CASE ~ \A i \in 1 .. n : s[i].key # k
  <2>1. PICK h \in 1 .. n : s[h].key = k
    BY <1>10
  <2>2. PICK a \in 1 .. n, b \in 1 .. n : From(s, k, a, b)
    BY <1>1, <2>1, LaneWhere
  <2>3. b \in a .. n /\ \A i \in 1 .. n : s[i].key = k <=> i \in a .. b
    BY <1>1, <2>2 DEF From
  <2>4. a \in a .. b /\ b \in a .. b /\ a <= b
    BY <2>3
  <2>5. s[a].key = k /\ s[b].key = k
    BY <2>3, <2>4
  <2>6. CASE k >= x.key
    <3>1. b \in 1 .. p
      BY <1>2, <1>5, <1>8, <2>5, <2>6
    <3>2. \A i \in 1 .. p : r[i].key = k <=> i \in a .. b
      BY <1>3, <1>8, <2>3
    <3>3. \A i \in p + 2 .. n + 1 : ~(i \in a .. b) /\ ~(i - 1 \in a .. b)
      BY <1>1, <3>1
    <3>4. \A i \in p + 2 .. n + 1 : r[i].key # k
      BY <1>7, <1>8, <2>3, <3>3
    <3>5. ~(p + 1 \in a .. b)
      BY <1>1, <3>1
    <3>6. \A i \in 1 .. n + 1 : r[i].key = k <=> i \in a .. b
      BY <1>4, <1>8, <3>2, <3>3, <3>4, <3>5
    <3>7. a + 0 = a /\ b + 0 = b /\ a \in 1 .. n + 1 /\ b \in a .. n + 1
      BY <1>1, <2>4
    <3>8. From(r, k, a + 0, b + 0)
      BY <1>1, <3>6, <3>7 DEF From
    <3>9. \A i \in a .. b : i + 0 = i /\ i \in 1 .. p
      BY <1>1, <2>2, <3>1
    <3>10. \A i \in a .. b : r[i + 0] = s[i]
      BY <1>3, <3>9
    <3>11. 0 \in Int
      OBVIOUS
    <3> QED BY <1>1, <2>2, <3>8, <3>10, <3>11, SameLane, ZenonT(60)
  <2>7. CASE ~(k >= x.key)
    <3>1. ~(a \in 1 .. p)
      BY <1>3, <2>5, <2>7
    <3>2. a \in p + 1 .. n
      BY <1>8, <3>1
    <3>3. \A i \in 1 .. p : ~(i \in a .. b) /\ ~(i \in a + 1 .. b + 1)
      BY <1>1, <3>2
    <3>4. \A i \in 1 .. p : r[i].key # k
      BY <1>3, <1>8, <2>3, <3>3
    <3>5. \A i \in p + 2 .. n + 1 : i - 1 \in a .. b <=> i \in a + 1 .. b + 1
      BY <1>1, <3>2
    <3>6. \A i \in p + 2 .. n + 1 : r[i].key = k <=> i \in a + 1 .. b + 1
      BY <1>7, <1>8, <2>3, <3>5
    <3>7. ~(p + 1 \in a + 1 .. b + 1) /\ a + 1 \in 1 .. n + 1 /\ b + 1 \in a + 1 .. n + 1
      BY <1>1, <2>3, <3>2
    <3>8. \A i \in 1 .. n + 1 : r[i].key = k <=> i \in a + 1 .. b + 1
      BY <1>4, <1>8, <3>3, <3>4, <3>6, <3>7
    <3>9. From(r, k, a + 1, b + 1)
      BY <1>1, <3>7, <3>8 DEF From
    <3>10. \A i \in a .. b : i \in p + 1 .. n
      BY <1>1, <2>2, <3>2
    <3>11. \A i \in a .. b : r[i + 1] = s[i]
      BY <1>5, <3>10
    <3>12. 1 \in Int
      OBVIOUS
    <3> QED BY <1>1, <2>2, <3>9, <3>11, <3>12, SameLane, ZenonT(60)
  <2> QED BY <2>6, <2>7
<1> QED BY <1>9, <1>10

\* deq() takes the first entry (gpq.c:118), the oldest of the highest priority.
LEMMA TailIs ==
  ASSUME NEW s \in Seq(Items), Len(s) # 0
  PROVE  \E n \in Nat : /\ Len(s) = n + 1 /\ Tail(s) \in Seq(Items) /\ Len(Tail(s)) = n
                        /\ \A i \in 1 .. n : Tail(s)[i] = s[i + 1]
<1>1. s # <<>> /\ Len(s) \in Nat \ {0}
  BY LenProperties
<1>2. PICK n \in Nat : Len(s) = n + 1 /\ Len(s) - 1 = n
  BY <1>1
<1>3. /\ Tail(s) \in Seq(Items) /\ Len(Tail(s)) = Len(s) - 1
      /\ \A i \in 1 .. Len(Tail(s)) : Tail(s)[i] = s[i + 1]
  BY <1>1, HeadTailProperties
<1> QED BY <1>2, <1>3

LEMMA TailSorted ==
  ASSUME NEW s \in Seq(Items), Sorted(s), Len(s) # 0 PROVE Sorted(Tail(s))
<1>1. PICK n \in Nat : /\ Len(s) = n + 1 /\ Tail(s) \in Seq(Items) /\ Len(Tail(s)) = n
                       /\ \A i \in 1 .. n : Tail(s)[i] = s[i + 1]
  BY TailIs
<1>2. \A i \in 1 .. n : i + 1 \in 1 .. n + 1
  OBVIOUS
<1>3. \A i, j \in 1 .. n : i < j => i + 1 < j + 1
  OBVIOUS
<1>4. \A i, j \in 1 .. n + 1 : i < j => s[i].key >= s[j].key
  BY <1>1 DEF Sorted
<1> QED BY <1>1, <1>2, <1>3, <1>4 DEF Sorted

LEMMA TailLane ==
  ASSUME NEW s \in Seq(Items), Sorted(s), Len(s) # 0, NEW k \in Keys
  PROVE  IF k = s[1].key THEN Lane(s, k) # <<>> /\ Lane(Tail(s), k) = Tail(Lane(s, k))
                         ELSE Lane(Tail(s), k) = Lane(s, k)
<1>1. PICK n \in Nat : /\ Len(s) = n + 1 /\ Tail(s) \in Seq(Items) /\ Len(Tail(s)) = n
                       /\ \A i \in 1 .. n : Tail(s)[i] = s[i + 1]
  BY TailIs
<1>2. PICK t \in Seq(Items) : t = Tail(s) /\ Len(t) = n /\ \A i \in 1 .. n : t[i] = s[i + 1]
  BY <1>1
<1>3. CASE k = s[1].key
  <2>1. 1 \in 1 .. n + 1
    OBVIOUS
  <2>2. PICK a \in 1 .. n + 1, b \in 1 .. n + 1 : From(s, k, a, b)
    BY <1>1, <1>3, <2>1, LaneWhere
  <2>3. b \in a .. n + 1 /\ \A i \in 1 .. n + 1 : s[i].key = k <=> i \in a .. b
    BY <1>1, <2>2 DEF From
  <2>4. a = 1
    <3>1. 1 \in a .. b
      BY <1>3, <2>1, <2>3
    <3> QED BY <2>2, <3>1
  <2>5. PICK B \in Nat : b = B + 1 /\ B <= n /\ B + 1 \in 1 .. n + 1
    <3>1. b - 1 \in Nat /\ b = (b - 1) + 1
      BY <2>2
    <3> QED BY <2>2, <3>1
  <2>6. Lane(s, k) = SubSeq(s, 1, B + 1)
    BY <2>2, <2>4, <2>5, LaneIs
  <2>7. /\ SubSeq(s, 1, B + 1) \in Seq(Items) /\ Len(SubSeq(s, 1, B + 1)) = B + 1
        /\ \A i \in 1 .. B + 1 : SubSeq(s, 1, B + 1)[i] = s[i]
    <3>1. PICK l \in Nat \ {0}, m \in Nat : /\ l = 1 /\ m = B + 1 /\ m <= Len(s) /\ l <= m /\ m - l + 1 = B + 1
                                            /\ \A i \in 1 .. B + 1 : l + i - 1 = i
      BY <1>1, <2>5
    <3>2. /\ SubSeq(s, l, m) \in Seq(Items) /\ Len(SubSeq(s, l, m)) = IF l <= m THEN m - l + 1 ELSE 0
          /\ \A i \in 1 .. Len(SubSeq(s, l, m)) : SubSeq(s, l, m)[i] = s[l + i - 1]
      BY <3>1, SubSeqOf
    <3> QED BY <3>1, <3>2
  <2>8. PICK u \in Seq(Items) : u = Lane(s, k) /\ Len(u) = B + 1 /\ \A i \in 1 .. B + 1 : u[i] = s[i]
    <3>1. Lane(s, k) \in Seq(Items) /\ Len(Lane(s, k)) = B + 1 /\ \A i \in 1 .. B + 1 : Lane(s, k)[i] = s[i]
      BY <2>6, <2>7, Zenon
    <3> QED BY <3>1, Zenon
  <2>9. PICK v \in Seq(Items) : v = Tail(u) /\ Len(v) = B /\ \A i \in 1 .. B : v[i] = u[i + 1]
    <3>1. Len(u) # 0
      BY <2>8
    <3>2. PICK m \in Nat : /\ Len(u) = m + 1 /\ Tail(u) \in Seq(Items) /\ Len(Tail(u)) = m
                           /\ \A i \in 1 .. m : Tail(u)[i] = u[i + 1]
      BY <3>1, TailIs
    <3>3. m = B
      BY <2>8, <3>2
    <3> QED BY <3>2, <3>3
  <2>10. \A i \in 1 .. B : v[i] = t[i]
    <3>1. \A i \in 1 .. B : i \in 1 .. n /\ i + 1 \in 1 .. B + 1
      BY <2>5
    <3> QED BY <1>2, <2>8, <2>9, <3>1
  <2>11. \A i \in 1 .. n : t[i].key = k <=> i \in 1 .. B
    <3>1. \A i \in 1 .. n : i + 1 \in 1 .. n + 1 /\ (i + 1 \in 1 .. B + 1 <=> i \in 1 .. B)
      OBVIOUS
    <3> QED BY <1>2, <2>3, <2>4, <2>5, <3>1
  <2>12. u # <<>>
    BY <2>8
  <2>13. CASE B = 0
    <3>1. \A i \in 1 .. n : t[i].key # k
      BY <2>11, <2>13
    <3>2. Lane(t, k) = <<>>
      BY <1>2, <3>1, NoLane
    <3>3. v = <<>>
      BY <2>9, <2>13
    <3> QED BY <1>2, <1>3, <2>8, <2>9, <2>12, <3>2, <3>3
  <2>14. CASE B # 0
    <3>1. 1 \in 1 .. n /\ B \in 1 .. n
      BY <2>5, <2>14
    <3>2. From(t, k, 1, B)
      BY <1>2, <2>11, <3>1 DEF From
    <3>3. Lane(t, k) = SubSeq(t, 1, B)
      <4>1. PICK l : l = 1
        OBVIOUS
      <4>2. Lane(t, k) = SubSeq(t, l, B)
        BY <3>2, <4>1, LaneIs
      <4> QED BY <4>1, <4>2
    <3>4. PICK l \in Nat \ {0}, m \in Nat : /\ l = 1 /\ m = B /\ m <= Len(t) /\ l <= m /\ m - l + 1 = B
                                            /\ \A i \in 1 .. B : l + i - 1 = i
      BY <1>2, <2>5, <2>14
    <3>5. /\ SubSeq(t, l, m) \in Seq(Items) /\ Len(SubSeq(t, l, m)) = IF l <= m THEN m - l + 1 ELSE 0
          /\ \A i \in 1 .. Len(SubSeq(t, l, m)) : SubSeq(t, l, m)[i] = t[l + i - 1]
      BY <3>4, SubSeqOf
    <3>6. PICK w : w = SubSeq(t, l, m)
      OBVIOUS
    <3>7. w \in Seq(Items) /\ Len(w) = B /\ \A i \in 1 .. B : w[i] = t[i]
      BY <3>4, <3>5, <3>6
    <3>8. w = v
      <4>1. \A i \in 1 .. B : w[i] = v[i]
        BY <2>10, <3>7
      <4> QED BY <2>9, <3>7, <4>1, SeqEqual
    <3> QED BY <1>2, <1>3, <2>8, <2>9, <2>12, <3>3, <3>4, <3>6, <3>8
  <2> QED BY <2>13, <2>14
<1>4. CASE k # s[1].key
  <2>1. \A i \in 1 .. n : i + 1 \in 1 .. n + 1
    OBVIOUS
  <2>2. CASE \A i \in 1 .. n + 1 : s[i].key # k
    <3>1. \A i \in 1 .. n : t[i].key # k
      BY <1>2, <2>1, <2>2
    <3>2. Lane(s, k) = <<>> /\ Lane(t, k) = <<>>
      BY <1>1, <1>2, <2>2, <3>1, NoLane
    <3> QED BY <1>2, <1>4, <3>2
  <2>3. CASE ~ \A i \in 1 .. n + 1 : s[i].key # k
    <3>1. PICK h \in 1 .. n + 1 : s[h].key = k
      BY <2>3
    <3>2. PICK a \in 1 .. n + 1, b \in 1 .. n + 1 : From(s, k, a, b)
      BY <1>1, <3>1, LaneWhere
    <3>3. b \in a .. n + 1 /\ \A i \in 1 .. n + 1 : s[i].key = k <=> i \in a .. b
      BY <1>1, <3>2 DEF From
    <3>4. a # 1
      <4>1. a \in a .. b
        BY <3>3
      <4> QED BY <1>4, <3>2, <3>3, <4>1
    <3>5. -1 \in Int /\ a + (-1) \in 1 .. n /\ b + (-1) \in a + (-1) .. n
      BY <3>2, <3>3, <3>4
    <3>6. \A i \in 1 .. n : i + 1 \in a .. b <=> i \in a + (-1) .. b + (-1)
      BY <3>2
    <3>7. \A i \in 1 .. n : t[i].key = k <=> i \in a + (-1) .. b + (-1)
      BY <1>2, <2>1, <3>3, <3>6
    <3>8. From(t, k, a + (-1), b + (-1))
      BY <1>2, <3>5, <3>7 DEF From
    <3>9. \A i \in a .. b : i + (-1) \in 1 .. n /\ (i + (-1)) + 1 = i
      BY <3>2, <3>4
    <3>10. \A i \in a .. b : t[i + (-1)] = s[i]
      BY <1>2, <3>9
    <3>11. Lane(t, k) = Lane(s, k)
      <4>1. PICK d \in Int : d = -1
        OBVIOUS
      <4>2. From(t, k, a + d, b + d) /\ \A i \in a .. b : t[i + d] = s[i]
        BY <3>8, <3>10, <4>1
      <4>3. From(s, k, a, b)
        BY <3>2
      <4> QED BY <4>2, <4>3, SameLane, ZenonT(60)
    <3> QED BY <1>2, <1>4, <3>11
  <2> QED BY <2>2, <2>3
<1> QED BY <1>3, <1>4

\* No priority that has entries is higher than that of the first.
LEMMA FirstHighest ==
  ASSUME NEW s \in Seq(Items), Sorted(s), NEW k \in Keys, Lane(s, k) # <<>>
  PROVE  Len(s) # 0 /\ k <= s[1].key
<1>1. PICK n \in Nat : n = Len(s)
  BY LenProperties
<1>2. PICK i \in 1 .. n : s[i].key = k
  BY <1>1, NoLane
<1>3. 1 \in 1 .. n /\ n # 0 /\ (i = 1 \/ 1 < i)
  BY <1>2
<1>4. s[1].key \in Int /\ s[i].key \in Int
  BY <1>1, <1>2, <1>3, KeysInt
<1>5. i # 1 => s[1].key >= s[i].key
  BY <1>1, <1>3 DEF Sorted
<1>6. PICK v \in Int, w \in Int : v = s[1].key /\ w = k /\ (i # 1 => v >= w) /\ (i = 1 => v = w)
  BY <1>2, <1>4, <1>5
<1> QED BY <1>1, <1>3, <1>6
-----------------------------------------------------------------------------
(* The calls *)

Calls == {"none", "newq", "freeq", "enq", "deq", "headq", "seeq"}
Moments == {"idle", "in", "locked", "out", "elt", "key"}
\* One address or none.
Cell == {S \in SUBSET Int : \A a, b \in S : a = b}
QueueRec == [valid : BOOLEAN, type : {"QF_WAIT", "QF_NOWAIT"}, max : Int, seen : Int, mutex : BOOLEAN,
             items : Seq(Items), elt : Cell, key : Cell]
CallRec == [call : Calls, at : Moments, q : Qs, item : Items \cup {Nothing.item}]

QueueTypes == Q \in [Qs -> QueueRec] /\ doing \in [{Producer, Consumer} -> CallRec]

\* The entries of a queue, highest priority first; a slot that is free has none.
InOrder == \A q \in Qs : /\ Sorted(Q[q].items)
                         /\ IF Q[q].valid THEN Q[q].max \in Lengths ELSE Q[q].items = <<>>

\* What a call has tested stays true until it is inside (gpq.c:46).
Producing == LET d == doing[Producer] IN
  \/ d = Nothing
  \/ /\ d.call = "enq" /\ d.at \in {"in", "locked", "out"} /\ d.item \in Items /\ Q[d.q].valid
     /\ doing[Consumer].call \in {"newq", "freeq"} => doing[Consumer].q # d.q
     /\ d.at # "out" => Len(Q[d.q].items) < Q[d.q].max
Consuming == LET d == doing[Consumer] IN
  \/ d = Nothing
  \/ /\ d.call \in {"deq", "headq", "seeq"} /\ d.at \in {"in", "locked", "out"} /\ Q[d.q].valid
     /\ d.at # "out" => Q[d.q].items # <<>>
  \/ /\ d.call \in {"newq", "freeq"} /\ d.at \in {"elt", "key"} /\ Q[d.q].valid
     /\ Q[d.q].items = <<>>

CallsInv == QueueTypes /\ InOrder /\ Producing /\ Consuming

LEMMA OneQueue == ASSUME QueueTypes, NEW q \in Qs
  PROVE /\ Q[q] \in QueueRec /\ Q[q].items \in Seq(Items) /\ Q[q].max \in Int /\ Len(Q[q].items) \in Nat
<1>1. Q[q] \in QueueRec
  BY DEF QueueTypes
<1>2. Q[q].items \in Seq(Items) /\ Q[q].max \in Int
  BY <1>1 DEF QueueRec
<1> QED BY <1>1, <1>2, LenProperties

LEMMA OneCall == ASSUME QueueTypes, NEW p \in {Producer, Consumer}
  PROVE doing[p] \in CallRec /\ doing[p].q \in Qs /\ doing[p].at \in Moments /\ doing[p].call \in Calls
<1>1. doing[p] \in CallRec
  BY DEF QueueTypes
<1> QED BY <1>1 DEF CallRec

LEMMA NothingType == Nothing \in CallRec
<1>1. 0 \in Qs
  BY QueueAssumption DEF Qs
<1> QED BY <1>1 DEF Nothing, CallRec, Calls, Moments

LEMMA SetType ==
  ASSUME QueueTypes, NEW q \in Qs, NEW rec \in QueueRec, Set(q, rec)
  PROVE  Q' \in [Qs -> QueueRec] /\ Q'[q] = rec /\ \A r \in Qs \ {q} : Q'[r] = Q[r]
BY DEF QueueTypes, Set

\* The call of p goes on.
LEMMA GoesOn ==
  ASSUME QueueTypes, NEW p \in {Producer, Consumer}, NEW at \in Moments \ {"idle"}, Do(p, at)
  PROVE  /\ doing' \in [{Producer, Consumer} -> CallRec]
         /\ doing'[p].call = doing[p].call /\ doing'[p].at = at /\ doing'[p].q = doing[p].q
         /\ doing'[p].item = doing[p].item
         /\ \A o \in {Producer, Consumer} \ {p} : doing'[o] = doing[o]
<1>1. doing' = [doing EXCEPT ![p] = [doing[p] EXCEPT !.at = at]]
  BY DEF Do
<1>2. doing \in [{Producer, Consumer} -> CallRec] /\ doing[p] \in CallRec
  BY DEF QueueTypes
<1>3. PICK d : d = [doing[p] EXCEPT !.at = at]
  OBVIOUS
<1>4. d \in CallRec /\ d.call = doing[p].call /\ d.at = at /\ d.q = doing[p].q /\ d.item = doing[p].item
  BY <1>2, <1>3 DEF CallRec
<1> QED BY <1>1, <1>2, <1>3, <1>4

\* It ends.
LEMMA Returns ==
  ASSUME QueueTypes, NEW p \in {Producer, Consumer}, Do(p, "idle")
  PROVE  /\ doing' \in [{Producer, Consumer} -> CallRec] /\ doing'[p] = Nothing
         /\ \A o \in {Producer, Consumer} \ {p} : doing'[o] = doing[o]
BY NothingType DEF Do, QueueTypes

LEMMA Begins ==
  ASSUME QueueTypes, NEW p \in {Producer, Consumer}, NEW d \in CallRec,
         doing' = [doing EXCEPT ![p] = d]
  PROVE  /\ doing' \in [{Producer, Consumer} -> CallRec] /\ doing'[p] = d
         /\ \A o \in {Producer, Consumer} \ {p} : doing'[o] = doing[o]
BY DEF QueueTypes

LEMMA Two == Producer \in {Producer, Consumer} /\ Consumer \in {Producer, Consumer} /\ Producer # Consumer
             /\ {Producer, Consumer} \ {Producer} = {Consumer} /\ {Producer, Consumer} \ {Consumer} = {Producer}
  BY QueueAssumption

LEMMA EmptySorted == Sorted(<<>>) /\ <<>> \in Seq(Items) /\ Len(<<>>) = 0
  BY DEF Sorted

LEMMA NoCell == {} \in Cell
  BY DEF Cell

LEMMA InitCalls == QueueInit => CallsInv
<1> SUFFICES ASSUME QueueInit PROVE CallsInv
  OBVIOUS
<1>1. NoQueue \in QueueRec /\ NoQueue.items = <<>> /\ NoQueue.valid = FALSE
  BY NoCell DEF NoQueue, QueueRec
<1>2. QueueTypes
  BY <1>1, NothingType DEF QueueInit, QueueTypes
<1>3. \A q \in Qs : Q[q].items = <<>> /\ ~Q[q].valid
  BY <1>1 DEF QueueInit
<1>4. InOrder
  BY <1>3, EmptySorted DEF InOrder
<1>5. doing[Producer] = Nothing /\ doing[Consumer] = Nothing
  BY DEF QueueInit
<1> QED BY <1>2, <1>4, <1>5 DEF CallsInv, Producing, Consuming

\* What a step leaves of the lanes.
Same(q)     == Q'[q].items = Q[q].items
Enqueued(q) == doing[Producer].q = q /\ doing[Producer].item \in Items
               /\ Q'[q].items = Inserted(Q[q].items, doing[Producer].item)
Dequeued(q) == Len(Q[q].items) # 0 /\ Q'[q].items = Tail(Q[q].items)
Moved == \E q \in Qs : /\ Same(q) \/ Enqueued(q) \/ Dequeued(q)
                       /\ \A r \in Qs \ {q} : Same(r)

LEMMA NewqCalls ==
  ASSUME CallsInv, NEW size \in Lengths, NEW type \in {"QF_WAIT", "QF_NOWAIT"}, Newq(size, type)
  PROVE  CallsInv' /\ Moved
<1>1. PICK q \in Qs : /\ ~Q[q].valid
                      /\ Set(q, [NoQueue EXCEPT !.valid = TRUE, !.type = type, !.max = size])
                      /\ doing' = [doing EXCEPT ![Consumer] = [Nothing EXCEPT !.call = "newq", !.at = "elt", !.q = q]]
  BY DEF Newq
<1>2. PICK rec : rec = [NoQueue EXCEPT !.valid = TRUE, !.type = type, !.max = size]
  OBVIOUS
<1>3. rec \in QueueRec /\ rec.valid = TRUE /\ rec.items = <<>> /\ rec.max = size
  <2>1. size \in Int
    BY QueueAssumption
  <2>2. PICK n : n = NoQueue
    OBVIOUS
  <2>3. n \in QueueRec /\ n.items = <<>>
    BY <2>2, NoCell DEF NoQueue, QueueRec
  <2>4. rec = [n EXCEPT !.valid = TRUE, !.type = type, !.max = size]
    BY <1>2, <2>2
  <2> QED BY <2>1, <2>3, <2>4 DEF QueueRec
<1>4. PICK d : d = [Nothing EXCEPT !.call = "newq", !.at = "elt", !.q = q]
  OBVIOUS
<1>5. d \in CallRec /\ d.call = "newq" /\ d.at = "elt" /\ d.q = q
  BY <1>4 DEF Nothing, CallRec, Calls, Moments
<1>6. QueueTypes /\ InOrder /\ Producing
  BY DEF CallsInv
<1>7. Q' \in [Qs -> QueueRec] /\ Q'[q] = rec /\ \A r \in Qs \ {q} : Q'[r] = Q[r]
  BY <1>1, <1>2, <1>3, <1>6, SetType
<1>8. doing' \in [{Producer, Consumer} -> CallRec] /\ doing'[Consumer] = d /\ doing'[Producer] = doing[Producer]
  BY <1>1, <1>4, <1>5, <1>6, Begins, Two
<1>9. QueueTypes'
  BY <1>7, <1>8 DEF QueueTypes
<1>10. InOrder'
  BY <1>3, <1>6, <1>7, EmptySorted DEF InOrder
<1>11. doing[Producer] # Nothing => doing[Producer].q # q
  BY <1>1, <1>6 DEF Producing
<1>12. doing[Producer].q \in Qs
  BY <1>6, OneCall, Two
<1>13. Producing'
  BY <1>5, <1>6, <1>7, <1>8, <1>11, <1>12 DEF Producing
<1>14. Consuming'
  BY <1>3, <1>5, <1>7, <1>8 DEF Consuming
<1>15. Q[q].items = <<>>
  BY <1>1, <1>6 DEF InOrder
<1>16. Moved
  BY <1>3, <1>7, <1>15 DEF Moved, Same
<1> QED BY <1>9, <1>10, <1>13, <1>14, <1>16 DEF CallsInv

LEMMA NewqMemCalls ==
  ASSUME CallsInv, memlist \subseteq BlockType, NEW at \in {"elt", "key"}, NEW next \in {"key", "idle"}, NewqMem(at, next)
  PROVE  CallsInv' /\ Moved
<1>1. PICK q \in Qs : q = doing[Consumer].q
  BY OneCall, Two DEF CallsInv
<1>2. doing[Consumer].call = "newq" /\ Do(Consumer, next)
  BY DEF NewqMem
<1>3. PICK a \in Cell : Set(q, IF at = "elt" THEN [Q[q] EXCEPT !.elt = a] ELSE [Q[q] EXCEPT !.key = a])
  <2>1. PICK a \in {{b.at} : b \in memlist} \cup {{}} :
          Set(q, IF at = "elt" THEN [Q[q] EXCEPT !.elt = a] ELSE [Q[q] EXCEPT !.key = a])
    BY <1>1 DEF NewqMem
  <2>2. a \in Cell
    BY <2>1, NoCell DEF Cell, BlockType
  <2> QED BY <2>1, <2>2
<1>4. PICK rec : rec = IF at = "elt" THEN [Q[q] EXCEPT !.elt = a] ELSE [Q[q] EXCEPT !.key = a]
  OBVIOUS
<1>5. QueueTypes /\ InOrder /\ Producing /\ Consuming
  BY DEF CallsInv
<1>6. rec \in QueueRec /\ rec.valid = Q[q].valid /\ rec.items = Q[q].items /\ rec.max = Q[q].max
  <2>1. Q[q] \in QueueRec
    BY <1>5, OneQueue
  <2> QED BY <1>4, <2>1 DEF QueueRec
<1>7. Q' \in [Qs -> QueueRec] /\ Q'[q] = rec /\ \A r \in Qs \ {q} : Q'[r] = Q[r]
  BY <1>3, <1>4, <1>5, <1>6, SetType
<1>8. \A r \in Qs : Q'[r].valid = Q[r].valid /\ Q'[r].items = Q[r].items /\ Q'[r].max = Q[r].max
  BY <1>6, <1>7
<1>9. InOrder'
  BY <1>5, <1>8 DEF InOrder
<1>10. doing[Producer].q \in Qs
  BY <1>5, OneCall, Two
<1>11. Q[q].valid /\ Q[q].items = <<>>
  BY <1>1, <1>2, <1>5 DEF Consuming, Nothing
<1>12. /\ doing' \in [{Producer, Consumer} -> CallRec] /\ doing'[Producer] = doing[Producer]
       /\ Producing' /\ Consuming'
  <2>1. CASE next = "key"
    <3>1. /\ doing' \in [{Producer, Consumer} -> CallRec]
          /\ doing'[Consumer].call = "newq" /\ doing'[Consumer].at = "key" /\ doing'[Consumer].q = q
          /\ doing'[Producer] = doing[Producer]
      BY <1>1, <1>2, <1>5, <2>1, GoesOn, Two DEF Moments
    <3>2. Producing'
      BY <1>1, <1>2, <1>5, <1>8, <1>10, <3>1 DEF Producing
    <3> QED BY <1>8, <1>11, <3>1, <3>2 DEF Consuming
  <2>2. CASE next = "idle"
    <3>1. doing' \in [{Producer, Consumer} -> CallRec] /\ doing'[Consumer] = Nothing /\ doing'[Producer] = doing[Producer]
      BY <1>2, <1>5, <2>2, Returns, Two
    <3>2. Producing'
      BY <1>5, <1>8, <1>10, <3>1 DEF Producing, Nothing
    <3> QED BY <3>1, <3>2 DEF Consuming
  <2> QED BY <2>1, <2>2
<1>13. QueueTypes'
  BY <1>7, <1>12 DEF QueueTypes
<1>14. Moved
  BY <1>8 DEF Moved, Same
<1> QED BY <1>9, <1>12, <1>13, <1>14 DEF CallsInv

LEMMA StandStill == ASSUME QueueTypes, UNCHANGED Q PROVE Moved
<1>1. 0 \in Qs
  BY QueueAssumption DEF Qs
<1> QED BY <1>1 DEF Moved, Same

LEMMA EnqCalls ==
  ASSUME CallsInv, NEW q \in Qs, NEW item \in Items, Known(q), Enq(q, item) PROVE CallsInv' /\ Moved
<1>1. /\ doing' = [doing EXCEPT ![Producer] = [call |-> "enq", at |-> "in", q |-> q, item |-> item]]
      /\ UNCHANGED Q /\ NotFull(q)
  BY DEF Enq, Call
<1>2. PICK d : d = [call |-> "enq", at |-> "in", q |-> q, item |-> item]
  OBVIOUS
<1>3. d \in CallRec /\ d.call = "enq" /\ d.at = "in" /\ d.q = q /\ d.item = item
  BY <1>2 DEF CallRec, Calls, Moments
<1>4. QueueTypes /\ InOrder /\ Consuming
  BY DEF CallsInv
<1>5. doing' \in [{Producer, Consumer} -> CallRec] /\ doing'[Producer] = d /\ doing'[Consumer] = doing[Consumer]
  BY <1>1, <1>2, <1>3, <1>4, Begins, Two
<1>6. Producing'
  BY <1>1, <1>3, <1>5 DEF Producing, Known, NotFull
<1>7. QueueTypes' /\ InOrder' /\ Consuming'
  BY <1>1, <1>4, <1>5 DEF QueueTypes, InOrder, Consuming
<1> QED BY <1>1, <1>4, <1>6, <1>7, StandStill DEF CallsInv

LEMMA TakeCalls ==
  ASSUME CallsInv, NEW q \in Qs, NEW c \in {"deq", "headq", "seeq"}, Call(Consumer, c, q, Nothing.item), NotEmpty(q)
  PROVE  CallsInv' /\ Moved
<1>1. /\ doing' = [doing EXCEPT ![Consumer] = [call |-> c, at |-> "in", q |-> q, item |-> Nothing.item]]
      /\ UNCHANGED Q
  BY DEF Call
<1>2. PICK d : d = [call |-> c, at |-> "in", q |-> q, item |-> Nothing.item]
  OBVIOUS
<1>3. d \in CallRec /\ d.call = c /\ d.at = "in" /\ d.q = q
  BY <1>2 DEF CallRec, Calls, Moments
<1>4. QueueTypes /\ InOrder /\ Producing
  BY DEF CallsInv
<1>5. doing' \in [{Producer, Consumer} -> CallRec] /\ doing'[Consumer] = d /\ doing'[Producer] = doing[Producer]
  BY <1>1, <1>2, <1>3, <1>4, Begins, Two
<1>6. Consuming'
  BY <1>1, <1>3, <1>5 DEF Consuming, NotEmpty
<1>7. Producing'
  BY <1>1, <1>3, <1>4, <1>5 DEF Producing
<1>8. QueueTypes' /\ InOrder'
  BY <1>1, <1>4, <1>5 DEF QueueTypes, InOrder
<1> QED BY <1>1, <1>4, <1>6, <1>7, <1>8, StandStill DEF CallsInv

LEMMA FreeqCalls == ASSUME CallsInv, NEW q \in Qs, Freeq(q) PROVE CallsInv' /\ Moved
<1>1. /\ doing' = [doing EXCEPT ![Consumer] = [Nothing EXCEPT !.call = "freeq", !.at = "key", !.q = q]]
      /\ UNCHANGED Q /\ Q[q].valid /\ Q[q].items = <<>>
      /\ doing[Producer].call = "none" \/ doing[Producer].q # q
  BY DEF Freeq
<1>2. PICK d : d = [Nothing EXCEPT !.call = "freeq", !.at = "key", !.q = q]
  OBVIOUS
<1>3. d \in CallRec /\ d.call = "freeq" /\ d.at = "key" /\ d.q = q
  BY <1>2 DEF Nothing, CallRec, Calls, Moments
<1>4. QueueTypes /\ InOrder /\ Producing
  BY DEF CallsInv
<1>5. doing' \in [{Producer, Consumer} -> CallRec] /\ doing'[Consumer] = d /\ doing'[Producer] = doing[Producer]
  BY <1>1, <1>2, <1>3, <1>4, Begins, Two
<1>6. Consuming'
  BY <1>1, <1>3, <1>5 DEF Consuming
<1>7. Producing'
  BY <1>1, <1>3, <1>4, <1>5 DEF Producing
<1>8. QueueTypes' /\ InOrder'
  BY <1>1, <1>4, <1>5 DEF QueueTypes, InOrder
<1> QED BY <1>1, <1>4, <1>6, <1>7, <1>8, StandStill DEF CallsInv

LEMMA FreeqKeyCalls == ASSUME CallsInv, FreeqKey PROVE CallsInv' /\ Moved
<1>1. UNCHANGED Q /\ doing[Consumer].call = "freeq" /\ Do(Consumer, "elt")
  BY DEF FreeqKey
<1>2. QueueTypes /\ InOrder /\ Producing /\ Consuming
  BY DEF CallsInv
<1>3. /\ doing' \in [{Producer, Consumer} -> CallRec]
      /\ doing'[Consumer].call = "freeq" /\ doing'[Consumer].at = "elt" /\ doing'[Consumer].q = doing[Consumer].q
      /\ doing'[Producer] = doing[Producer]
  BY <1>1, <1>2, GoesOn, Two DEF Moments
<1>4. Q[doing[Consumer].q].valid /\ Q[doing[Consumer].q].items = <<>>
  BY <1>1, <1>2 DEF Consuming, Nothing
<1>5. Consuming'
  BY <1>1, <1>3, <1>4 DEF Consuming
<1>6. Producing'
  BY <1>1, <1>2, <1>3 DEF Producing
<1>7. QueueTypes' /\ InOrder'
  BY <1>1, <1>2, <1>3 DEF QueueTypes, InOrder
<1> QED BY <1>1, <1>2, <1>5, <1>6, <1>7, StandStill DEF CallsInv

LEMMA FreeqEltCalls == ASSUME CallsInv, FreeqElt PROVE CallsInv' /\ Moved
<1>1. PICK q \in Qs : q = doing[Consumer].q
  BY OneCall, Two DEF CallsInv
<1>2. doing[Consumer].call = "freeq" /\ Do(Consumer, "idle") /\ Set(q, [Q[q] EXCEPT !.valid = FALSE])
  BY <1>1 DEF FreeqElt
<1>3. QueueTypes /\ InOrder /\ Producing /\ Consuming
  BY DEF CallsInv
<1>4. PICK rec : rec = [Q[q] EXCEPT !.valid = FALSE]
  OBVIOUS
<1>5. rec \in QueueRec /\ rec.items = Q[q].items /\ rec.valid = FALSE
  BY <1>3, <1>4, OneQueue DEF QueueRec
<1>6. Q' \in [Qs -> QueueRec] /\ Q'[q] = rec /\ \A r \in Qs \ {q} : Q'[r] = Q[r]
  BY <1>2, <1>3, <1>4, <1>5, SetType
<1>7. doing' \in [{Producer, Consumer} -> CallRec] /\ doing'[Consumer] = Nothing /\ doing'[Producer] = doing[Producer]
  BY <1>2, <1>3, Returns, Two
<1>8. Q[q].items = <<>>
  BY <1>1, <1>2, <1>3 DEF Consuming, Nothing
<1>9. InOrder'
  BY <1>3, <1>5, <1>6, <1>8, EmptySorted DEF InOrder
<1>10. doing[Producer].q \in Qs
  BY <1>3, OneCall, Two
<1>11. Producing'
  BY <1>1, <1>2, <1>3, <1>6, <1>7, <1>10 DEF Producing, Nothing
<1>12. Consuming' /\ QueueTypes'
  BY <1>6, <1>7 DEF Consuming, QueueTypes
<1>13. Moved
  BY <1>5, <1>6 DEF Moved, Same
<1> QED BY <1>9, <1>11, <1>12, <1>13 DEF CallsInv

LEMMA Involved ==
  ASSUME CallsInv, NEW p \in {Producer, Consumer}, doing[p] # Nothing
  PROVE  doing[p].q \in Qs /\ Q[doing[p].q].valid
BY OneCall DEF CallsInv, Producing, Consuming

\* wait() and signal() leave the entries alone.
LEMMA MutexCalls ==
  ASSUME CallsInv, NEW p \in {Producer, Consumer}, Lock(p) \/ Unlock(p) PROVE CallsInv' /\ Moved
<1>1. PICK q \in Qs : q = doing[p].q
  BY OneCall DEF CallsInv
<1>2. QueueTypes /\ InOrder /\ Producing /\ Consuming
  BY DEF CallsInv
<1>3. PICK m \in BOOLEAN : Set(q, [Q[q] EXCEPT !.mutex = m])
  BY <1>1 DEF Lock, Unlock
<1>4. PICK rec : rec = [Q[q] EXCEPT !.mutex = m]
  OBVIOUS
<1>5. rec \in QueueRec /\ rec.items = Q[q].items /\ rec.valid = Q[q].valid /\ rec.max = Q[q].max
  BY <1>2, <1>4, OneQueue DEF QueueRec
<1>6. Q' \in [Qs -> QueueRec] /\ Q'[q] = rec /\ \A r \in Qs \ {q} : Q'[r] = Q[r]
  BY <1>2, <1>3, <1>4, <1>5, SetType
<1>7. \A r \in Qs : Q'[r].valid = Q[r].valid /\ Q'[r].items = Q[r].items /\ Q'[r].max = Q[r].max
  BY <1>5, <1>6
<1>8. InOrder'
  BY <1>2, <1>7 DEF InOrder
<1>9. Moved
  BY <1>7 DEF Moved, Same
<1>10. doing[Producer].q \in Qs /\ doing[Consumer].q \in Qs
  BY <1>2, OneCall, Two
<1>11. CASE Lock(p)
  <2>1. doing[p].at = "in" /\ Do(p, "locked")
    BY <1>11 DEF Lock
  <2>2. /\ doing' \in [{Producer, Consumer} -> CallRec]
        /\ doing'[p].call = doing[p].call /\ doing'[p].at = "locked" /\ doing'[p].q = doing[p].q
        /\ doing'[p].item = doing[p].item
        /\ \A o \in {Producer, Consumer} \ {p} : doing'[o] = doing[o]
    BY <1>2, <2>1, GoesOn DEF Moments
  <2>3. CASE p = Producer
    <3>1. doing'[Consumer] = doing[Consumer]
      BY <2>2, <2>3, Two
    <3>2. Producing'
      BY <1>2, <1>7, <1>10, <2>1, <2>2, <2>3, <3>1 DEF Producing, Nothing
    <3>3. Consuming'
      BY <1>2, <1>7, <1>10, <3>1 DEF Consuming
    <3> QED BY <1>6, <1>8, <1>9, <2>2, <3>2, <3>3 DEF CallsInv, QueueTypes
  <2>4. CASE p = Consumer
    <3>1. doing'[Producer] = doing[Producer]
      BY <2>2, <2>4, Two
    <3>2. Producing'
      BY <1>2, <1>7, <1>10, <2>1, <2>2, <2>4, <3>1 DEF Producing, Nothing
    <3>3. Consuming'
      BY <1>2, <1>7, <1>10, <2>1, <2>2, <2>4, <3>1 DEF Consuming, Nothing
    <3> QED BY <1>6, <1>8, <1>9, <2>2, <3>2, <3>3 DEF CallsInv, QueueTypes
  <2> QED BY <2>3, <2>4
<1>12. CASE Unlock(p)
  <2>1. doing[p].at = "out" /\ Do(p, "idle")
    BY <1>12 DEF Unlock
  <2>2. /\ doing' \in [{Producer, Consumer} -> CallRec] /\ doing'[p] = Nothing
        /\ \A o \in {Producer, Consumer} \ {p} : doing'[o] = doing[o]
    BY <1>2, <2>1, Returns
  <2>3. CASE p = Producer
    <3>1. doing'[Consumer] = doing[Consumer]
      BY <2>2, <2>3, Two
    <3>2. Producing'
      BY <2>2, <2>3 DEF Producing
    <3>3. Consuming'
      BY <1>2, <1>7, <1>10, <3>1 DEF Consuming
    <3> QED BY <1>6, <1>8, <1>9, <2>2, <3>2, <3>3 DEF CallsInv, QueueTypes
  <2>4. CASE p = Consumer
    <3>1. doing'[Producer] = doing[Producer]
      BY <2>2, <2>4, Two
    <3>2. Producing'
      BY <1>2, <1>7, <1>10, <2>2, <2>4, <3>1 DEF Producing, Nothing
    <3>3. Consuming'
      BY <2>2, <2>4 DEF Consuming
    <3> QED BY <1>6, <1>8, <1>9, <2>2, <3>2, <3>3 DEF CallsInv, QueueTypes
  <2> QED BY <2>3, <2>4
<1> QED BY <1>11, <1>12

\* The call is over, or what is left of it is to signal the semaphore.
LEMMA Inside ==
  ASSUME CallsInv, NEW p \in {Producer, Consumer}, Body(p)
  PROVE  /\ doing[p].at \in {"in", "locked"} /\ doing[p] # Nothing
         /\ doing[p].call \in {"enq", "deq", "headq", "seeq"}
         /\ doing' \in [{Producer, Consumer} -> CallRec]
         /\ \/ doing'[p] = Nothing
            \/ /\ doing'[p].call = doing[p].call /\ doing'[p].at = "out"
               /\ doing'[p].q = doing[p].q /\ doing'[p].item = doing[p].item
         /\ \A o \in {Producer, Consumer} \ {p} : doing'[o] = doing[o]
<1>1. doing[p].call \in {"enq", "deq", "headq", "seeq"}
  BY DEF Body
<1>2. doing[p] # Nothing
  BY <1>1 DEF Nothing
<1>3. QueueTypes
  BY DEF CallsInv
<1>4. CASE doing[p].at = "in" /\ Do(p, "idle")
  BY <1>1, <1>2, <1>3, <1>4, Returns
<1>5. CASE doing[p].at = "locked" /\ Do(p, "out")
  <2>1. "out" \in Moments \ {"idle"}
    BY DEF Moments
  <2> QED BY <1>1, <1>2, <1>3, <1>5, <2>1, GoesOn
<1> QED BY <1>4, <1>5 DEF Body

LEMMA BodyCalls == ASSUME CallsInv, NEW p \in {Producer, Consumer}, Body(p) PROVE CallsInv' /\ Moved
<1>1. PICK q \in Qs : q = doing[p].q
  BY OneCall DEF CallsInv
<1>2. QueueTypes /\ InOrder /\ Producing /\ Consuming
  BY DEF CallsInv
<1>3. /\ doing[p].at \in {"in", "locked"} /\ doing[p] # Nothing
      /\ doing[p].call \in {"enq", "deq", "headq", "seeq"}
      /\ doing' \in [{Producer, Consumer} -> CallRec]
      /\ \/ doing'[p] = Nothing
         \/ /\ doing'[p].call = doing[p].call /\ doing'[p].at = "out"
            /\ doing'[p].q = doing[p].q /\ doing'[p].item = doing[p].item
      /\ \A o \in {Producer, Consumer} \ {p} : doing'[o] = doing[o]
  BY Inside
<1>4. doing[Producer].q \in Qs /\ doing[Consumer].q \in Qs
  BY <1>2, OneCall, Two
<1>5. Q[q] \in QueueRec /\ Q[q].items \in Seq(Items) /\ Q[q].max \in Int /\ Len(Q[q].items) \in Nat
  BY <1>2, OneQueue
<1>6. CASE doing[p].call = "enq"
  <2>1. p = Producer /\ doing'[Consumer] = doing[Consumer]
    <3>1. p # Consumer
      BY <1>2, <1>3, <1>6 DEF Consuming
    <3> QED BY <1>3, <3>1, Two
  <2>2. /\ doing[p].item \in Items /\ Q[q].valid
        /\ doing[Consumer].call \in {"newq", "freeq"} => doing[Consumer].q # q
    BY <1>1, <1>2, <1>3, <2>1 DEF Producing
  <2>3. PICK i \in 0 .. Len(Q[q].items) : Placed(Q[q].items, doing[p].item, Inserted(Q[q].items, doing[p].item), i)
    BY <1>2, <1>5, <2>2, InsertedIs DEF InOrder
  <2>4. PICK s : s = Inserted(Q[q].items, doing[p].item)
    OBVIOUS
  <2>5. s \in Seq(Items) /\ Len(s) = Len(Q[q].items) + 1 /\ Sorted(s) /\ s # <<>>
    <3>1. Sorted(s)
      BY <1>2, <1>5, <2>2, <2>3, <2>4, PlacedSorted DEF InOrder
    <3>2. s \in Seq(Items) /\ Len(s) = Len(Q[q].items) + 1
      BY <2>3, <2>4 DEF Placed
    <3>3. Len(s) # 0
      BY <1>5, <3>2
    <3> QED BY <3>1, <3>2, <3>3
  <2>6. PICK rec : rec = [Q[q] EXCEPT !.items = s]
    OBVIOUS
  <2>7. rec \in QueueRec /\ rec.items = s /\ rec.valid = Q[q].valid /\ rec.max = Q[q].max
    BY <1>5, <2>5, <2>6 DEF QueueRec
  <2>8. Set(q, rec)
    BY <1>1, <1>6, <2>4, <2>6 DEF Body
  <2>9. Q' \in [Qs -> QueueRec] /\ Q'[q] = rec /\ \A r \in Qs \ {q} : Q'[r] = Q[r]
    BY <1>2, <2>7, <2>8, SetType
  <2>10. InOrder'
    BY <1>2, <2>2, <2>5, <2>7, <2>9 DEF InOrder
  <2>11. Producing'
    BY <1>1, <1>3, <1>6, <2>1, <2>2, <2>7, <2>9 DEF Producing
  <2>12. \A r \in Qs : Q'[r].valid = Q[r].valid /\ (Q[r].items # <<>> => Q'[r].items # <<>>)
                       /\ (r # q => Q'[r].items = Q[r].items)
    BY <2>5, <2>7, <2>9
  <2>13. Consuming'
    BY <1>2, <1>4, <2>1, <2>2, <2>12 DEF Consuming
  <2>14. Moved
    BY <1>1, <2>1, <2>2, <2>4, <2>7, <2>9 DEF Moved, Same, Enqueued
  <2> QED BY <1>3, <2>9, <2>10, <2>11, <2>13, <2>14 DEF CallsInv, QueueTypes
<1>7. CASE doing[p].call \in {"deq", "headq", "seeq"}
  <2>1. p = Consumer /\ doing'[Producer] = doing[Producer]
    <3>1. p # Producer
      BY <1>2, <1>3, <1>7 DEF Producing
    <3> QED BY <1>3, <3>1, Two
  <2>2. Q[q].valid /\ Q[q].items # <<>>
    BY <1>1, <1>2, <1>3, <1>7, <2>1 DEF Consuming
  <2>3. Len(Q[q].items) # 0
    BY <1>5, <2>2
  <2>4. PICK rec \in QueueRec : /\ Set(q, rec) /\ rec.valid = Q[q].valid /\ rec.max = Q[q].max
                                /\ rec.items = Q[q].items \/ rec.items = Tail(Q[q].items)
    <3>1. CASE doing[p].call = "deq"
      <4>1. Set(q, [Q[q] EXCEPT !.items = Tail(Q[q].items)])
        BY <1>1, <3>1 DEF Body
      <4>2. PICK t \in Seq(Items) : t = Tail(Q[q].items)
        BY <1>5, <2>3, TailIs
      <4>3. PICK rec : rec = [Q[q] EXCEPT !.items = t]
        OBVIOUS
      <4>4. rec \in QueueRec /\ rec.items = t /\ rec.valid = Q[q].valid /\ rec.max = Q[q].max
        BY <1>5, <4>3 DEF QueueRec
      <4> QED BY <4>1, <4>2, <4>3, <4>4
    <3>2. CASE doing[p].call = "headq"
      BY <1>1, <1>5, <3>2 DEF Body
    <3>3. CASE doing[p].call = "seeq"
      <4>1. Set(q, [Q[q] EXCEPT !.seen = Seen(q)])
        BY <1>1, <3>3 DEF Body
      <4>2. Seen(q) \in Int
        BY <1>5 DEF Seen, QueueRec
      <4>3. PICK rec : rec = [Q[q] EXCEPT !.seen = Seen(q)]
        OBVIOUS
      <4>4. rec \in QueueRec /\ rec.items = Q[q].items /\ rec.valid = Q[q].valid /\ rec.max = Q[q].max
        BY <1>5, <4>2, <4>3 DEF QueueRec
      <4> QED BY <4>1, <4>3, <4>4
    <3> QED BY <1>7, <3>1, <3>2, <3>3
  <2>5. Q' \in [Qs -> QueueRec] /\ Q'[q] = rec /\ \A r \in Qs \ {q} : Q'[r] = Q[r]
    BY <1>2, <2>4, SetType
  <2>6. PICK s : s = rec.items
    OBVIOUS
  <2>7. Sorted(s) /\ Len(s) \in Nat /\ Len(s) <= Len(Q[q].items)
    <3>1. CASE s = Q[q].items
      BY <1>2, <1>5, <3>1 DEF InOrder
    <3>2. CASE s = Tail(Q[q].items)
      <4>1. Sorted(s)
        BY <1>2, <1>5, <2>3, <3>2, TailSorted DEF InOrder
      <4>2. PICK n \in Nat : Len(Q[q].items) = n + 1 /\ Len(Tail(Q[q].items)) = n
        BY <1>5, <2>3, TailIs
      <4>3. Len(s) = n
        BY <3>2, <4>2
      <4> QED BY <4>1, <4>2, <4>3
    <3> QED BY <2>4, <2>6, <3>1, <3>2
  <2>8. InOrder'
    BY <1>2, <2>2, <2>4, <2>5, <2>6, <2>7 DEF InOrder
  <2>9. Consuming'
    BY <1>1, <1>3, <1>7, <2>1, <2>2, <2>4, <2>5 DEF Consuming
  <2>10. \A r \in Qs : /\ Q'[r].valid = Q[r].valid /\ Q'[r].max = Q[r].max
                       /\ Len(Q[r].items) < Q[r].max => Len(Q'[r].items) < Q'[r].max
    <3>1. Q'[q].valid = Q[q].valid /\ Q'[q].max = Q[q].max
      BY <2>4, <2>5
    <3>2. PICK k \in Nat, l \in Nat, m \in Int : k = Len(Q'[q].items) /\ l = Len(Q[q].items) /\ m = Q[q].max /\ k <= l
      BY <1>5, <2>5, <2>6, <2>7
    <3>3. l < m => k < m
      BY <3>2
    <3>4. Len(Q[q].items) < Q[q].max => Len(Q'[q].items) < Q'[q].max
      BY <3>1, <3>2, <3>3
    <3> QED BY <2>5, <3>1, <3>4
  <2>11. Producing'
    <3>1. doing[Consumer].call \notin {"newq", "freeq"} /\ doing'[Consumer].call \notin {"newq", "freeq"}
      BY <1>3, <1>7, <2>1 DEF Nothing
    <3> QED BY <1>2, <1>4, <2>1, <2>10, <3>1 DEF Producing
  <2>12. Moved
    BY <2>3, <2>4, <2>5 DEF Moved, Same, Dequeued
  <2> QED BY <1>3, <2>5, <2>8, <2>9, <2>11, <2>12 DEF CallsInv, QueueTypes
<1> QED BY <1>3, <1>6, <1>7

LEMMA LaneType ==
  ASSUME NEW s \in Seq(Items), Sorted(s), NEW k \in Keys PROVE Lane(s, k) \in Seq(Items)
<1>1. CASE \A i \in 1 .. Len(s) : s[i].key # k
  <2>1. Lane(s, k) = <<>>
    BY <1>1, NoLane
  <2> QED BY <2>1
<1>2. CASE ~ \A i \in 1 .. Len(s) : s[i].key # k
  <2>1. PICK a \in 1 .. Len(s), b \in 1 .. Len(s) : From(s, k, a, b)
    BY <1>2, LaneWhere
  <2>2. PICK m \in Nat \ {0}, n \in Nat : m = a /\ n = b /\ n <= Len(s)
    BY <2>1, LenProperties
  <2>3. Lane(s, k) = SubSeq(s, m, n)
    BY <2>1, <2>2, LaneIs
  <2>4. SubSeq(s, m, n) \in Seq(Items)
    BY <2>2, SubSeqOf
  <2> QED BY <2>3, <2>4
<1> QED BY <1>1, <1>2

LEMMA TwoDeep ==
  ASSUME NEW V, NEW L \in [Qs -> [Keys -> V]], NEW M \in [Qs -> [Keys -> V]], NEW q \in Qs, NEW k \in Keys,
         \A r \in Qs \ {q} : M[r] = L[r], \A j \in Keys \ {k} : M[q][j] = L[q][j]
  PROVE  M = [L EXCEPT ![q][k] = M[q][k]]
<1>1. PICK row : row = [L[q] EXCEPT ![k] = M[q][k]]
  OBVIOUS
<1>2. L[q] \in [Keys -> V] /\ M[q] \in [Keys -> V]
  OBVIOUS
<1>3. row \in [Keys -> V] /\ \A j \in Keys : row[j] = M[q][j]
  BY <1>1, <1>2
<1>4. row = M[q]
  BY <1>2, <1>3
<1>5. M = [L EXCEPT ![q] = row]
  BY <1>2, <1>4
<1> QED BY <1>1, <1>5

LaneMap == [q \in Qs |-> [k \in Keys |-> Lane(Q[q].items, k)]]

\* One item joins a lane, one leaves the highest lane that has any, or none moves.
LEMMA LaneStep ==
  ASSUME CallsInv, CallsInv', Moved PROVE [Lanes!Next]_LaneMap
<1>1. QueueTypes /\ InOrder
  BY DEF CallsInv
<1>2. PICK q \in Qs : /\ Same(q) \/ Enqueued(q) \/ Dequeued(q)
                      /\ \A r \in Qs \ {q} : Same(r)
  BY DEF Moved
<1>3. PICK L, M : L = LaneMap /\ M = LaneMap'
  OBVIOUS
<1>4. L = [r \in Qs |-> [k \in Keys |-> Lane(Q[r].items, k)]]
  BY <1>3 DEF LaneMap
<1>5. M = [r \in Qs |-> [k \in Keys |-> Lane(Q'[r].items, k)]]
  BY <1>3 DEF LaneMap
<1>6. \A r \in Qs \ {q} : M[r] = L[r]
  BY <1>2, <1>4, <1>5 DEF Same
<1>11. L \in [Qs -> [Keys -> Seq(Items)]] /\ M \in [Qs -> [Keys -> Seq(Items)]]
  <2>1. \A r \in Qs : \A k \in Keys : Lane(Q[r].items, k) \in Seq(Items)
    BY <1>1, OneQueue, LaneType DEF InOrder
  <2>2. \A r \in Qs : \A k \in Keys : Lane(Q'[r].items, k) \in Seq(Items)
    <3>1. \A r \in Qs : Q'[r].items \in Seq(Items) /\ Sorted(Q'[r].items)
      BY DEF CallsInv, QueueTypes, QueueRec, InOrder
    <3> QED BY <3>1, LaneType
  <2> QED BY <1>4, <1>5, <2>1, <2>2
<1>7. Q[q].items \in Seq(Items) /\ Sorted(Q[q].items) /\ Len(Q[q].items) \in Nat
  BY <1>1, OneQueue DEF InOrder
<1>8. CASE Same(q)
  <2>1. M = L
    BY <1>2, <1>4, <1>5, <1>8 DEF Same
  <2> QED BY <1>3, <2>1
<1>9. CASE Enqueued(q)
  <2>1. PICK x \in Items : x = doing[Producer].item
    BY <1>9 DEF Enqueued
  <2>2. PICK s : s = Q'[q].items
    OBVIOUS
  <2>3. PICK i \in 0 .. Len(Q[q].items) : Placed(Q[q].items, x, s, i)
    BY <1>7, <1>9, <2>1, <2>2, InsertedIs DEF Enqueued
  <2>4. x.key \in Keys
    BY DEF Items
  <2>5. Lane(s, x.key) = Append(Lane(Q[q].items, x.key), x)
    BY <1>7, <2>3, PlacedLane
  <2>6. \A k \in Keys \ {x.key} : Lane(s, k) = Lane(Q[q].items, k)
    BY <1>7, <2>3, PlacedOther
  <2>7. M[q][x.key] = Append(L[q][x.key], x)
    BY <1>4, <1>5, <2>2, <2>4, <2>5
  <2>8. \A k \in Keys \ {x.key} : M[q][k] = L[q][k]
    BY <1>4, <1>5, <2>2, <2>6
  <2>9. M = [L EXCEPT ![q][x.key] = Append(@, x)]
    <3>1. M = [L EXCEPT ![q][x.key] = M[q][x.key]]
      BY <1>6, <1>11, <2>4, <2>8, TwoDeep
    <3> QED BY <2>7, <3>1
  <2>10. Lanes!Put(q, x)
    BY <1>3, <2>9 DEF Lanes!Put, LaneMap
  <2> QED BY <2>10 DEF Lanes!Next
<1>10. CASE Dequeued(q)
  <2>1. Len(Q[q].items) # 0 /\ Q'[q].items = Tail(Q[q].items)
    BY <1>10 DEF Dequeued
  <2>2. PICK s \in Seq(Items), t \in {Q'[q].items} : s = Q[q].items /\ t = Q'[q].items /\ t = Tail(s) /\ Sorted(s) /\ Len(s) # 0
    BY <1>7, <2>1
  <2>3. PICK h \in Keys : h = s[1].key
    <3>1. 1 \in 1 .. Len(s)
      BY <1>7, <2>2
    <3>2. s[1] \in Items
      BY <3>1, KeysInt
    <3> QED BY <3>2 DEF Items
  <2>4. \A k \in Keys : IF k = h THEN Lane(s, k) # <<>> /\ Lane(t, k) = Tail(Lane(s, k)) ELSE Lane(t, k) = Lane(s, k)
    BY <2>2, <2>3, TailLane
  <2>5. L[q][h] # <<>> /\ M[q][h] = Tail(L[q][h])
    BY <1>4, <1>5, <2>2, <2>4
  <2>6. \A k \in Keys \ {h} : M[q][k] = L[q][k]
    BY <1>4, <1>5, <2>2, <2>4
  <2>7. M = [L EXCEPT ![q][h] = Tail(@)]
    <3>1. M = [L EXCEPT ![q][h] = M[q][h]]
      BY <1>6, <1>11, <2>6, TwoDeep
    <3> QED BY <2>5, <3>1
  <2>8. \A j \in Keys : Lane(s, j) # <<>> => j <= h
    BY <2>2, <2>3, FirstHighest
  <2>9. \A j \in Keys : L[q][j] # <<>> => j <= h
    BY <1>4, <2>2, <2>8
  <2>10. Lanes!Take(q, h)
    BY <1>3, <2>5, <2>7, <2>9 DEF Lanes!Take, LaneMap
  <2> QED BY <2>10 DEF Lanes!Next
<1> QED BY <1>2, <1>8, <1>9, <1>10
-----------------------------------------------------------------------------
(* The arrays of the queues *)

Addresses == {u.at : u \in used}

\* A slot has two different arrays, or those of them that newq() got.
Making(q)  == doing[Consumer].call = "newq" /\ doing[Consumer].q = q
Freeing(q) == doing[Consumer].call = "freeq" /\ doing[Consumer].q = q
Slot(q) == Q[q].valid =>
  /\ Q[q].elt \cap Q[q].key = {}
  /\ Making(q) => Q[q].key = {} /\ (doing[Consumer].at = "elt" => Q[q].elt = {})
  /\ Freeing(q) => Made(q)

\* Nobody else has anything.
Held == Addresses = UNION {Arrays(q) : q \in Qs}
Disjoint == \A q, r \in Qs : q # r => Arrays(q) \cap Arrays(r) = {}
ArraysInv == Held /\ Disjoint /\ \A q \in Qs : Slot(q)

LEMMA FreshBlock ==
  ASSUME HeapInv, NEW n \in Nat \ {0}, NEW b \in memlist, GetmemFrom(b, n)
  PROVE  HeapInv' /\ b.at \in Int /\ b.at \notin Addresses /\ Addresses' = Addresses \cup {b.at}
<1>1. HeapInv'
  BY GetmemStep DEF Getmem
<1>2. used' = used \cup {[at |-> b.at, len |-> n, of |-> "mem"]}
  BY DEF GetmemFrom
<1>3. b.at \in Int /\ b.len \in Nat \ {0}
  BY DEF HeapInv, HeapTypes, BlockType
<1>4. ASSUME NEW u \in used PROVE u.at # b.at
  <2>1. Extent(u) \in BlockType /\ Extent(u).at = u.at
    <3>1. u \in [at : Int, len : Nat \ {0}, of : {"mem", "stk"}]
      BY DEF HeapInv, HeapTypes
    <3> QED BY <3>1, ExtentType DEF Extent, Block
  <2>2. Apart(Extent(u), b)
    BY DEF HeapInv, NoOverlap
  <2> QED BY <1>3, <2>1, <2>2 DEF Apart, End, BlockType
<1>5. PICK new : new = [at |-> b.at, len |-> n, of |-> "mem"]
  OBVIOUS
<1>6. used' = used \cup {new}
  BY <1>2, <1>5
<1>7. Addresses' = Addresses \cup {b.at}
  <2>1. new.at = b.at
    BY <1>5
  <2> QED BY <1>6, <2>1 DEF Addresses
<1> QED BY <1>1, <1>3, <1>4, <1>7 DEF Addresses

LEMMA FreedBlock ==
  ASSUME HeapInv, NEW u, Release(u)
  PROVE  HeapInv' /\ u.at \in Addresses /\ Addresses' = Addresses \ {u.at}
<1>1. HeapInv'
  BY ReleaseStep
<1>2. u \in used /\ used' = used \ {u}
  BY DEF Release
<1>3. ASSUME NEW v \in used, v # u PROVE v.at # u.at
  <2>1. \A w \in used : Extent(w) \in BlockType /\ Extent(w).at = w.at
    <3>1. \A w \in used : w \in [at : Int, len : Nat \ {0}, of : {"mem", "stk"}]
      BY DEF HeapInv, HeapTypes
    <3> QED BY <3>1, ExtentType DEF Extent, Block
  <2>2. Apart(Extent(u), Extent(v))
    BY <1>2, <1>3 DEF HeapInv, NoOverlap
  <2> QED BY <1>2, <2>1, <2>2 DEF Apart, End, BlockType
<1> QED BY <1>1, <1>2, <1>3 DEF Addresses

\* Calls that neither make nor free a queue.
SameWork(q) == (Making(q)' <=> Making(q)) /\ (Freeing(q)' <=> Freeing(q)) /\ (KeyFreed(q)' <=> KeyFreed(q))
               /\ (Making(q) => doing'[Consumer].at = doing[Consumer].at)

LEMMA SameArrays ==
  ASSUME ArraysInv, UNCHANGED heapVars,
         \A q \in Qs : Q'[q].valid = Q[q].valid /\ Q'[q].elt = Q[q].elt /\ Q'[q].key = Q[q].key,
         \A q \in Qs : SameWork(q)
  PROVE  ArraysInv'
<1>1. Addresses' = Addresses
  BY DEF heapVars, Addresses
<1>2. ASSUME NEW q \in Qs PROVE Arrays(q)' = Arrays(q)
  BY DEF Arrays, SameWork
<1>3. Held' /\ Disjoint'
  BY <1>1, <1>2 DEF ArraysInv, Held, Disjoint
<1>4. ASSUME NEW q \in Qs PROVE Slot(q)'
  BY DEF ArraysInv, Slot, Made, SameWork
<1> QED BY <1>3, <1>4 DEF ArraysInv

\* One queue gets or loses an array, or none does.
LEMMA OneChanges ==
  ASSUME ArraysInv, NEW q \in Qs, \A r \in Qs \ {q} : Arrays(r)' = Arrays(r), \A r \in Qs : Slot(r)',
         NEW a, \/ a \notin Addresses /\ Addresses' = Addresses \cup {a} /\ Arrays(q)' = Arrays(q) \cup {a}
                \/ a \in Arrays(q) /\ Addresses' = Addresses \ {a} /\ Arrays(q)' = Arrays(q) \ {a}
                \/ Addresses' = Addresses /\ Arrays(q)' = Arrays(q)
  PROVE  ArraysInv'
<1>1. \A x : x \in Addresses <=> \E r \in Qs : x \in Arrays(r)
  BY DEF ArraysInv, Held
<1>2. Disjoint'
  BY <1>1 DEF ArraysInv, Disjoint
<1>3. ASSUME NEW x PROVE x \in Addresses' <=> \E r \in Qs : x \in Arrays(r)'
  <2>1. CASE x = a
    BY <1>1, <2>1 DEF ArraysInv, Disjoint
  <2>2. CASE x # a
    BY <1>1, <2>2
  <2> QED BY <2>1, <2>2
<1>4. Held'
  BY <1>3 DEF Held
<1> QED BY <1>2, <1>4 DEF ArraysInv

\* The slots that a call of the consumer is not about.
LEMMA OtherSlots ==
  ASSUME ArraysInv, NEW q \in Qs, \A r \in Qs \ {q} : Q'[r] = Q[r],
         doing[Consumer].q = q \/ doing[Consumer] = Nothing,
         doing'[Consumer].q = q \/ doing'[Consumer] = Nothing
  PROVE  \A r \in Qs \ {q} : Arrays(r)' = Arrays(r) /\ Slot(r)'
<1> SUFFICES ASSUME NEW r \in Qs \ {q} PROVE Arrays(r)' = Arrays(r) /\ Slot(r)'
  OBVIOUS
<1>1. ~Making(r) /\ ~Freeing(r) /\ ~KeyFreed(r) /\ ~Making(r)' /\ ~Freeing(r)' /\ ~KeyFreed(r)'
  BY DEF Making, Freeing, KeyFreed, Nothing
<1>2. Q'[r] = Q[r]
  OBVIOUS
<1> QED BY <1>1, <1>2 DEF Arrays, Slot, ArraysInv

LEMMA NewqArrays ==
  ASSUME CallsInv, ArraysInv, NEW size \in Lengths, NEW type \in {"QF_WAIT", "QF_NOWAIT"}, Newq(size, type)
  PROVE  ArraysInv'
<1>1. PICK q \in Qs : /\ ~Q[q].valid /\ Q' = [Q EXCEPT ![q] = [NoQueue EXCEPT !.valid = TRUE, !.type = type, !.max = size]]
                      /\ doing' = [doing EXCEPT ![Consumer] = [Nothing EXCEPT !.call = "newq", !.at = "elt", !.q = q]]
  BY DEF Newq, Set
<1>2. UNCHANGED heapVars /\ doing[Consumer] = Nothing
  BY DEF Newq
<1>3. \A r \in Qs \ {q} : Q'[r] = Q[r]
  BY <1>1 DEF CallsInv, QueueTypes
<1>4. doing'[Consumer].call = "newq" /\ doing'[Consumer].at = "elt" /\ doing'[Consumer].q = q
  BY <1>1, Two DEF CallsInv, QueueTypes, Nothing
<1>5. Q'[q].elt = {} /\ Q'[q].key = {}
  <2>1. PICK rec : rec = [NoQueue EXCEPT !.valid = TRUE, !.type = type, !.max = size]
    OBVIOUS
  <2>2. rec.elt = {} /\ rec.key = {}
    BY <2>1 DEF NoQueue
  <2> QED BY <1>1, <2>1, <2>2 DEF CallsInv, QueueTypes
<1>6. \A r \in Qs \ {q} : Arrays(r)' = Arrays(r) /\ Slot(r)'
  BY <1>2, <1>3, <1>4, OtherSlots
<1>7. Arrays(q) = {} /\ Arrays(q)' = {}
  BY <1>1, <1>5 DEF Arrays
<1>8. Slot(q)'
  BY <1>4, <1>5 DEF Slot, Freeing
<1>9. Addresses' = Addresses
  BY <1>2 DEF Addresses, heapVars
<1> QED BY <1>6, <1>7, <1>8, <1>9, OneChanges

\* getmem() hands out a block that was free, or nothing.
LEMMA GivesCell ==
  ASSUME HeapInv, NEW n \in Nat \ {0}, NEW c, Gives(c, n)
  PROVE  /\ HeapInv' /\ c \in Cell
         /\ \/ c = {} /\ Addresses' = Addresses
            \/ \E a : c = {a} /\ a \notin Addresses /\ Addresses' = Addresses \cup {a}
<1>1. ASSUME NEW b \in memlist, GetmemFrom(b, n), c = {b.at}
      PROVE  HeapInv' /\ c \in Cell /\ b.at \notin Addresses /\ Addresses' = Addresses \cup {b.at}
  BY <1>1, FreshBlock DEF Cell
<1>2. CASE c = {} /\ UNCHANGED heapVars
  BY <1>2, NoCell DEF heapVars, HeapInv, HeapTypes, NoOverlap, Addresses
<1> QED BY <1>1, <1>2 DEF Gives

\* newq() gets one array after the other, or fails to (gpq.c:221-222).
LEMMA NewqMemArrays ==
  ASSUME HeapInv, CallsInv, ArraysInv, NewqMem("elt", "key") \/ NewqMem("key", "idle")
  PROVE  HeapInv' /\ ArraysInv'
<1>1. PICK q \in Qs : q = doing[Consumer].q
  BY OneCall, Two DEF CallsInv
<1>2. doing[Consumer].call = "newq"
  BY DEF NewqMem
<1>3. Q[q].valid /\ Q[q].max \in Nat \ {0} /\ Q[q] \in QueueRec /\ QueueTypes
  <2>1. Q[q].valid /\ Q[q].max \in Lengths
    BY <1>1, <1>2 DEF CallsInv, Consuming, Nothing, InOrder
  <2> QED BY <2>1, OneQueue, QueueAssumption DEF CallsInv
<1>4. ~KeyFreed(q) /\ Making(q) /\ Q[q].key = {} /\ (doing[Consumer].at = "elt" => Q[q].elt = {})
  BY <1>1, <1>2, <1>3 DEF KeyFreed, Making, ArraysInv, Slot
<1>5. Arrays(q) = Q[q].elt
  BY <1>3, <1>4 DEF Arrays
<1>6. CASE NewqMem("elt", "key")
  <2>1. PICK c : Gives(c, Q[q].max) /\ Set(q, [Q[q] EXCEPT !.elt = c])
    BY <1>1, <1>6 DEF NewqMem
  <2>2. /\ HeapInv' /\ c \in Cell
        /\ \/ c = {} /\ Addresses' = Addresses
           \/ \E a : c = {a} /\ a \notin Addresses /\ Addresses' = Addresses \cup {a}
    BY <1>3, <2>1, GivesCell
  <2>3. doing[Consumer].at = "elt" /\ Do(Consumer, "key")
    BY <1>6 DEF NewqMem
  <2>4. doing'[Consumer].call = "newq" /\ doing'[Consumer].at = "key" /\ doing'[Consumer].q = q
    BY <1>1, <1>2, <1>3, <2>3, GoesOn, Two DEF Moments
  <2>5. PICK rec : rec = [Q[q] EXCEPT !.elt = c]
    OBVIOUS
  <2>6. rec \in QueueRec /\ rec.valid /\ rec.elt = c /\ rec.key = {}
    BY <1>3, <1>4, <2>2, <2>5 DEF QueueRec
  <2>7. Q'[q] = rec /\ \A r \in Qs \ {q} : Q'[r] = Q[r]
    BY <1>3, <2>1, <2>5, <2>6, SetType
  <2>8. \A r \in Qs \ {q} : Arrays(r)' = Arrays(r) /\ Slot(r)'
    BY <1>1, <2>4, <2>7, OtherSlots
  <2>9. Arrays(q) = {} /\ Arrays(q)' = c
    BY <1>4, <1>5, <2>3, <2>6, <2>7 DEF Arrays
  <2>10. Slot(q)'
    BY <2>4, <2>6, <2>7 DEF Slot, Making, Freeing
  <2>11. \A r \in Qs : Slot(r)'
    BY <2>8, <2>10
  <2>12. ArraysInv'
    BY <2>2, <2>8, <2>9, <2>11, OneChanges
  <2> QED BY <2>2, <2>12
<1>7. CASE NewqMem("key", "idle")
  <2>1. PICK c : Gives(c, Q[q].max) /\ Set(q, [Q[q] EXCEPT !.key = c])
    BY <1>1, <1>7 DEF NewqMem
  <2>2. /\ HeapInv' /\ c \in Cell
        /\ \/ c = {} /\ Addresses' = Addresses
           \/ \E a : c = {a} /\ a \notin Addresses /\ Addresses' = Addresses \cup {a}
    BY <1>3, <2>1, GivesCell
  <2>3. Do(Consumer, "idle")
    BY <1>7 DEF NewqMem
  <2>4. doing'[Consumer] = Nothing
    BY <1>3, <2>3, Returns, Two
  <2>5. PICK rec : rec = [Q[q] EXCEPT !.key = c]
    OBVIOUS
  <2>6. rec \in QueueRec /\ rec.valid /\ rec.elt = Q[q].elt /\ rec.key = c
    BY <1>3, <2>2, <2>5 DEF QueueRec
  <2>7. Q'[q] = rec /\ \A r \in Qs \ {q} : Q'[r] = Q[r]
    BY <1>3, <2>1, <2>5, <2>6, SetType
  <2>8. \A r \in Qs \ {q} : Arrays(r)' = Arrays(r) /\ Slot(r)'
    BY <1>1, <2>4, <2>7, OtherSlots
  <2>9. Arrays(q)' = Arrays(q) \cup c
    BY <1>5, <2>4, <2>6, <2>7 DEF Arrays, KeyFreed, Nothing
  <2>10. Q[q].elt \subseteq Addresses
    BY <1>5 DEF ArraysInv, Held
  <2>11. Slot(q)'
    BY <2>2, <2>4, <2>6, <2>7, <2>10 DEF Slot, Making, Freeing, Nothing
  <2>12. \A r \in Qs : Slot(r)'
    BY <2>8, <2>11
  <2>13. ArraysInv'
    BY <2>2, <2>8, <2>9, <2>12, OneChanges
  <2> QED BY <2>2, <2>13
<1> QED BY <1>6, <1>7

\* freeq() gives back one after the other (gpq.c:239-240).
LEMMA FreeqArrays ==
  ASSUME HeapInv, CallsInv, ArraysInv, FreeqKey \/ FreeqElt
  PROVE  HeapInv' /\ ArraysInv'
<1>1. PICK q \in Qs : q = doing[Consumer].q
  BY OneCall, Two DEF CallsInv
<1>2. doing[Consumer].call = "freeq" /\ Q[q].valid /\ Q[q] \in QueueRec /\ QueueTypes
  <2>1. doing[Consumer].call = "freeq"
    BY DEF FreeqKey, FreeqElt
  <2>2. Q[q].valid
    BY <1>1, <2>1 DEF CallsInv, Consuming, Nothing
  <2> QED BY <2>1, <2>2, OneQueue DEF CallsInv
<1>3. Made(q) /\ Q[q].elt \cap Q[q].key = {}
  BY <1>1, <1>2 DEF ArraysInv, Slot, Freeing
<1>4. \A c \in Cell : \A a \in c : c = {a}
  BY DEF Cell
<1>5. ASSUME NEW a, Release([at |-> a, len |-> Q[q].max, of |-> "mem"])
      PROVE  HeapInv' /\ Addresses' = Addresses \ {a}
  <2>1. PICK u : u = [at |-> a, len |-> Q[q].max, of |-> "mem"]
    OBVIOUS
  <2>2. u.at = a /\ Release(u)
    BY <1>5, <2>1
  <2> QED BY <2>2, FreedBlock
<1>6. CASE FreeqKey
  <2>1. PICK a \in Q[q].key : Release([at |-> a, len |-> Q[q].max, of |-> "mem"])
    BY <1>1, <1>6 DEF FreeqKey
  <2>2. UNCHANGED Q /\ doing[Consumer].at = "key" /\ Do(Consumer, "elt")
    BY <1>6 DEF FreeqKey
  <2>3. doing'[Consumer].call = "freeq" /\ doing'[Consumer].at = "elt" /\ doing'[Consumer].q = q
    BY <1>1, <1>2, <2>2, GoesOn, Two DEF Moments
  <2>4. ~KeyFreed(q) /\ KeyFreed(q)'
    BY <2>2, <2>3 DEF KeyFreed
  <2>5. \A r \in Qs \ {q} : Arrays(r)' = Arrays(r) /\ Slot(r)'
    BY <1>1, <2>2, <2>3, OtherSlots
  <2>6. Q[q].key = {a}
    BY <1>2, <1>4, <2>1 DEF QueueRec
  <2>7. a \in Arrays(q) /\ Arrays(q)' = Arrays(q) \ {a}
    BY <1>2, <1>3, <2>2, <2>4, <2>6 DEF Arrays
  <2>8. Slot(q)'
    BY <1>3, <2>2, <2>3 DEF Slot, Making, Freeing, Made
  <2>9. \A r \in Qs : Slot(r)'
    BY <2>5, <2>8
  <2> QED BY <1>5, <2>1, <2>5, <2>7, <2>9, OneChanges
<1>7. CASE FreeqElt
  <2>1. PICK a \in Q[q].elt : Release([at |-> a, len |-> Q[q].max, of |-> "mem"])
    BY <1>1, <1>7 DEF FreeqElt, FreeElt
  <2>2. /\ doing[Consumer].at = "elt" /\ Do(Consumer, "idle") /\ Set(q, [Q[q] EXCEPT !.valid = FALSE])
    BY <1>1, <1>7 DEF FreeqElt
  <2>3. doing'[Consumer] = Nothing
    BY <1>2, <2>2, Returns, Two
  <2>4. PICK rec : rec = [Q[q] EXCEPT !.valid = FALSE]
    OBVIOUS
  <2>5. rec \in QueueRec /\ ~rec.valid
    BY <1>2, <2>4 DEF QueueRec
  <2>6. Q'[q] = rec /\ \A r \in Qs \ {q} : Q'[r] = Q[r]
    BY <1>2, <2>2, <2>4, <2>5, SetType
  <2>7. \A r \in Qs \ {q} : Arrays(r)' = Arrays(r) /\ Slot(r)'
    BY <1>1, <2>3, <2>6, OtherSlots
  <2>8. Q[q].elt = {a}
    BY <1>2, <1>4, <2>1 DEF QueueRec
  <2>9. KeyFreed(q)
    BY <1>1, <1>2, <2>2 DEF KeyFreed
  <2>10. Arrays(q) = {a} /\ Arrays(q)' = {}
    BY <1>2, <2>5, <2>6, <2>8, <2>9 DEF Arrays
  <2>11. Slot(q)'
    BY <2>5, <2>6 DEF Slot
  <2>12. \A r \in Qs : Slot(r)'
    BY <2>7, <2>11
  <2>13. a \in Arrays(q) /\ Arrays(q)' = Arrays(q) \ {a}
    BY <2>10
  <2> QED BY <1>5, <2>1, <2>7, <2>12, <2>13, OneChanges
<1> QED BY <1>6, <1>7

\* The other calls do not touch memory.
LEMMA BeginArrays ==
  ASSUME CallsInv, ArraysInv, NEW p \in {Producer, Consumer}, NEW c, NEW q \in Qs, NEW item,
         c \notin {"newq", "freeq"}, Call(p, c, q, item)
  PROVE  ArraysInv'
<1>1. /\ doing[p] = Nothing /\ UNCHANGED heapVars /\ UNCHANGED Q
      /\ doing' = [doing EXCEPT ![p] = [call |-> c, at |-> "in", q |-> q, item |-> item]]
  BY DEF Call
<1>2. doing'[p].call = c /\ \A o \in {Producer, Consumer} \ {p} : doing'[o] = doing[o]
  BY <1>1 DEF CallsInv, QueueTypes
<1>3. \A r \in Qs : SameWork(r)
  <2>1. CASE p = Producer
    <3>1. doing'[Consumer] = doing[Consumer]
      BY <1>2, <2>1, Two
    <3> QED BY <3>1 DEF SameWork, Making, Freeing, KeyFreed
  <2>2. CASE p = Consumer
    BY <1>1, <1>2, <2>2 DEF SameWork, Making, Freeing, KeyFreed, Nothing
  <2> QED BY <2>1, <2>2
<1> QED BY <1>1, <1>3, SameArrays

LEMMA FreeqBegins == ASSUME CallsInv, ArraysInv, NEW q \in Qs, Freeq(q) PROVE ArraysInv'
<1>1. /\ doing[Consumer] = Nothing /\ UNCHANGED heapVars /\ UNCHANGED Q /\ Made(q)
      /\ doing' = [doing EXCEPT ![Consumer] = [Nothing EXCEPT !.call = "freeq", !.at = "key", !.q = q]]
  BY DEF Freeq
<1>2. doing'[Consumer].call = "freeq" /\ doing'[Consumer].at = "key" /\ doing'[Consumer].q = q
  BY <1>1, Two DEF CallsInv, QueueTypes, Nothing
<1>3. \A r \in Qs \ {q} : Arrays(r)' = Arrays(r) /\ Slot(r)'
  BY <1>1, <1>2, OtherSlots
<1>4. Arrays(q)' = Arrays(q)
  <2>1. ~KeyFreed(q) /\ ~KeyFreed(q)' /\ Q'[q] = Q[q]
    BY <1>1, <1>2 DEF KeyFreed, Nothing
  <2> QED BY <2>1 DEF Arrays
<1>5. Slot(q)'
  BY <1>1, <1>2 DEF ArraysInv, Slot, Making, Freeing, Made
<1>6. Addresses' = Addresses
  BY <1>1 DEF Addresses, heapVars
<1> QED BY <1>3, <1>4, <1>5, <1>6, OneChanges

LEMMA InsideArrays ==
  ASSUME CallsInv, CallsInv', ArraysInv, NEW p \in {Producer, Consumer}, Lock(p) \/ Body(p) \/ Unlock(p)
  PROVE  ArraysInv'
<1>1. PICK q \in Qs : q = doing[p].q
  BY OneCall DEF CallsInv
<1>2. QueueTypes /\ Q[q] \in QueueRec /\ UNCHANGED heapVars
  BY OneQueue DEF CallsInv, Lock, Body, Unlock
<1>3. PICK rec : /\ Set(q, rec) /\ rec.valid = Q[q].valid /\ rec.elt = Q[q].elt /\ rec.key = Q[q].key
  <2>1. CASE Lock(p) \/ Unlock(p)
    <3>1. PICK m \in BOOLEAN : Set(q, [Q[q] EXCEPT !.mutex = m])
      BY <1>1, <2>1 DEF Lock, Unlock
    <3>2. PICK rec : rec = [Q[q] EXCEPT !.mutex = m]
      OBVIOUS
    <3>3. rec.valid = Q[q].valid /\ rec.elt = Q[q].elt /\ rec.key = Q[q].key
      BY <1>2, <3>2 DEF QueueRec
    <3> QED BY <3>1, <3>2, <3>3
  <2>2. CASE Body(p)
    <3>1. PICK s, n : \/ Set(q, [Q[q] EXCEPT !.items = s]) \/ Set(q, Q[q]) \/ Set(q, [Q[q] EXCEPT !.seen = n])
      BY <1>1, <2>2 DEF Body
    <3>2. PICK one, two : one = [Q[q] EXCEPT !.items = s] /\ two = [Q[q] EXCEPT !.seen = n]
      OBVIOUS
    <3>3. /\ one.valid = Q[q].valid /\ one.elt = Q[q].elt /\ one.key = Q[q].key
          /\ two.valid = Q[q].valid /\ two.elt = Q[q].elt /\ two.key = Q[q].key
      BY <1>2, <3>2 DEF QueueRec
    <3> QED BY <3>1, <3>2, <3>3
  <2> QED BY <2>1, <2>2
<1>4. Q'[q] = rec /\ \A r \in Qs \ {q} : Q'[r] = Q[r]
  BY <1>2, <1>3 DEF Set, QueueTypes
<1>5. \A r \in Qs : Q'[r].valid = Q[r].valid /\ Q'[r].elt = Q[r].elt /\ Q'[r].key = Q[r].key
  BY <1>3, <1>4
<1>6. PICK at \in {"idle", "locked", "out"} : Do(p, at)
  BY DEF Lock, Body, Unlock
<1>7. \A r \in Qs : SameWork(r)
  <2>1. CASE p = Producer
    <3>1. doing'[Consumer] = doing[Consumer]
      BY <1>2, <1>6, <2>1, Two DEF Do, QueueTypes
    <3> QED BY <3>1 DEF SameWork, Making, Freeing, KeyFreed
  <2>2. CASE p = Consumer
    <3>1. doing[Consumer].call \notin {"newq", "freeq"}
      <4>1. doing[Consumer].at \in {"in", "locked", "out"}
        BY <2>2 DEF Lock, Body, Unlock
      <4> QED BY <4>1 DEF CallsInv, Consuming, Nothing
    <3>2. doing'[Consumer].call \notin {"newq", "freeq"}
      <4>1. CASE at = "idle"
        BY <1>2, <1>6, <2>2, <4>1, Returns, Two DEF Nothing
      <4>2. CASE at # "idle"
        <5>1. at \in Moments \ {"idle"}
          BY <4>2 DEF Moments
        <5> QED BY <1>2, <1>6, <2>2, <3>1, <5>1, GoesOn, Two
      <4> QED BY <4>1, <4>2
    <3> QED BY <3>1, <3>2 DEF SameWork, Making, Freeing, KeyFreed
  <2> QED BY <2>1, <2>2
<1> QED BY <1>2, <1>5, <1>7, SameArrays

QueueInv == HeapInv /\ CallsInv /\ ArraysInv

LEMMA InitQueues == HeapInit /\ QueueInit => QueueInv
<1> SUFFICES ASSUME HeapInit, QueueInit PROVE QueueInv
  OBVIOUS
<1>1. HeapInv /\ CallsInv
  BY InitHeap, InitCalls
<1>2. \A q \in Qs : ~Q[q].valid
  BY DEF QueueInit, NoQueue
<1>3. \A q \in Qs : Arrays(q) = {}
  BY <1>2 DEF Arrays
<1>4. Addresses = {}
  BY DEF HeapInit, Addresses
<1>5. ArraysInv
  BY <1>2, <1>3, <1>4 DEF ArraysInv, Held, Disjoint, Slot
<1> QED BY <1>1, <1>5 DEF QueueInv

\* Every call keeps the invariant, and is a step of the lanes or leaves them.
LEMMA QueueKept ==
  ASSUME QueueInv, [QueueNext]_<<heapVars, queueVars>> PROVE QueueInv' /\ [Lanes!Next]_LaneMap
<1>1. HeapInv /\ CallsInv /\ ArraysInv /\ memlist \subseteq BlockType
  BY DEF QueueInv, HeapInv, HeapTypes
<1>2. UNCHANGED heapVars => HeapInv'
  BY <1>1 DEF heapVars, HeapInv, HeapTypes, NoOverlap
<1>3. SUFFICES HeapInv' /\ CallsInv' /\ ArraysInv' /\ Moved
  BY <1>1, <1>3, LaneStep DEF QueueInv
<1>4. ASSUME NEW size \in Lengths, NEW type \in {"QF_WAIT", "QF_NOWAIT"}, Newq(size, type)
      PROVE  HeapInv' /\ CallsInv' /\ ArraysInv' /\ Moved
  BY <1>1, <1>2, <1>4, NewqCalls, NewqArrays DEF Newq
<1>5. ASSUME NewqMem("elt", "key") \/ NewqMem("key", "idle")
      PROVE  HeapInv' /\ CallsInv' /\ ArraysInv' /\ Moved
  BY <1>1, <1>5, NewqMemCalls, NewqMemArrays
<1>6. ASSUME NEW q \in Qs, NEW k \in Keys, NEW e \in Elts, Known(q), Enq(q, [key |-> k, elt |-> e])
      PROVE  HeapInv' /\ CallsInv' /\ ArraysInv' /\ Moved
  <2>1. PICK item \in Items : item = [key |-> k, elt |-> e]
    BY DEF Items
  <2>2. Enq(q, item) /\ Call(Producer, "enq", q, item)
    BY <1>6, <2>1 DEF Enq
  <2>3. UNCHANGED heapVars
    BY <2>2 DEF Call
  <2>4. ArraysInv'
    BY <1>1, <2>2, Two, BeginArrays
  <2> QED BY <1>1, <1>2, <1>6, <2>2, <2>3, <2>4, EnqCalls
<1>7. ASSUME NEW q \in Qs, Deq(q) \/ Headq(q) \/ Seeq(q)
      PROVE  HeapInv' /\ CallsInv' /\ ArraysInv' /\ Moved
  <2>1. PICK c \in {"deq", "headq", "seeq"} : Call(Consumer, c, q, Nothing.item) /\ NotEmpty(q)
    BY <1>7 DEF Deq, Headq, Seeq
  <2>2. UNCHANGED heapVars
    BY <2>1 DEF Call
  <2>3. ArraysInv'
    BY <1>1, <2>1, Two, BeginArrays
  <2> QED BY <1>1, <1>2, <2>1, <2>2, <2>3, TakeCalls
<1>8. ASSUME NEW q \in Qs, Freeq(q) PROVE HeapInv' /\ CallsInv' /\ ArraysInv' /\ Moved
  <2>1. UNCHANGED heapVars
    BY <1>8 DEF Freeq
  <2> QED BY <1>1, <1>2, <1>8, <2>1, FreeqCalls, FreeqBegins
<1>9. ASSUME NEW p \in {Producer, Consumer}, Lock(p) \/ Body(p) \/ Unlock(p)
      PROVE  HeapInv' /\ CallsInv' /\ ArraysInv' /\ Moved
  <2>1. UNCHANGED heapVars
    BY <1>9 DEF Lock, Body, Unlock
  <2>2. CallsInv' /\ Moved
    BY <1>1, <1>9, MutexCalls, BodyCalls
  <2> QED BY <1>1, <1>2, <1>9, <2>1, <2>2, InsideArrays
<1>10. ASSUME FreeqKey \/ FreeqElt PROVE HeapInv' /\ CallsInv' /\ ArraysInv' /\ Moved
  BY <1>1, <1>10, FreeqKeyCalls, FreeqEltCalls, FreeqArrays
<1>11. CASE UNCHANGED <<heapVars, queueVars>>
  <2>1. UNCHANGED Q /\ UNCHANGED doing /\ UNCHANGED heapVars
    BY <1>11 DEF queueVars
  <2>2. CallsInv'
    BY <1>1, <2>1 DEF CallsInv, QueueTypes, InOrder, Producing, Consuming
  <2>3. Moved
    BY <1>1, <2>1, StandStill DEF CallsInv
  <2>4. ArraysInv'
    BY <1>1, <2>1, SameArrays DEF SameWork, Making, Freeing, KeyFreed
  <2> QED BY <1>2, <2>1, <2>2, <2>3, <2>4
<1> QED BY <1>4, <1>5, <1>6, <1>7, <1>8, <1>9, <1>10, <1>11 DEF QueueNext

LEMMA InitLanes == QueueInit => Lanes!Init
<1> SUFFICES ASSUME QueueInit PROVE Lanes!Init
  OBVIOUS
<1>1. \A q \in Qs : Q[q].items = <<>>
  BY DEF QueueInit, NoQueue
<1>2. \A k \in Keys : Lane(<<>>, k) = <<>>
  <2>1. PICK s \in Seq(Items) : s = <<>> /\ Len(s) = 0
    BY EmptySorted
  <2>2. \A k \in Keys : Lane(s, k) = <<>>
    <3>1. \A i \in 1 .. Len(s) : FALSE
      BY <2>1
    <3> QED BY <3>1, NoLane
  <2> QED BY <2>1, <2>2
<1> QED BY <1>1, <1>2 DEF Lanes!Init

LEMMA TestsHold == CallsInv => TestHolds
<1> SUFFICES ASSUME CallsInv, NEW p \in {Producer, Consumer}, doing[p].at \in {"in", "locked"}
             PROVE  /\ Q[doing[p].q].valid
                    /\ IF doing[p].call = "enq" THEN Len(Q[doing[p].q].items) < Q[doing[p].q].max
                                                ELSE Q[doing[p].q].items # <<>>
  BY DEF TestHolds
<1>1. CASE p = Producer
  BY <1>1 DEF CallsInv, Producing, Nothing
<1>2. CASE p = Consumer
  BY <1>2 DEF CallsInv, Consuming, Nothing
<1> QED BY <1>1, <1>2

\* A queue is one FIFO lane for each priority, the highest first, and every call finds
\* it as it was tested (gpq.c:46-73, 97-118), for any sizes, priorities and items.
THEOREM QueueTheorem == QueueSpec => Prioritised
<1>1. HeapInit /\ QueueInit => QueueInv
  BY InitQueues
<1>2. QueueInv /\ [QueueNext]_<<heapVars, queueVars>> => QueueInv' /\ [Lanes!Next]_LaneMap
  BY QueueKept
<1>3. QueueInit => Lanes!Init
  BY InitLanes
<1>4. QueueInv => TestHolds
  BY TestsHold DEF QueueInv
<1>5. LaneMap = [q \in Qs |-> [k \in Keys |-> Lane(Q[q].items, k)]]
  BY DEF LaneMap
<1>6. QueueSpec => Lanes!Spec
  BY <1>1, <1>2, <1>3, PTL DEF QueueSpec, Lanes!Spec, LaneMap
<1>7. QueueSpec => [][TestHolds']_queueVars
  BY <1>1, <1>2, <1>4, PTL DEF QueueSpec
<1> QED BY <1>6, <1>7 DEF Prioritised

\* The memory handed out is, at any moment, the two arrays of every queue that newq()
\* has returned and what getmem() gave the slots on which it has given up; no two
\* share an array (gpq.c:221-224, 239-240).
THEOREM ArraysTheorem == QueueSpec => []ArraysHeld /\ ArraysAccounted
<1>1. HeapInit /\ QueueInit => QueueInv
  BY InitQueues
<1>2. QueueInv /\ [QueueNext]_<<heapVars, queueVars>> => QueueInv'
  BY QueueKept
<1>3. QueueInv => ArraysHeld
  <2> SUFFICES ASSUME QueueInv PROVE ArraysHeld
    OBVIOUS
  <2>1. ASSUME NEW q \in Qs, Known(q)
        PROVE  \E a \in Q[q].elt, b \in Q[q].key : a # b /\ Arrays(q) = {a, b}
    <3>1. Q[q] \in QueueRec /\ Q[q].valid /\ ~KeyFreed(q)
      BY <2>1, OneQueue DEF QueueInv, CallsInv, Known, KeyFreed
    <3>2. Q[q].elt \in Cell /\ Q[q].key \in Cell /\ Q[q].elt \cap Q[q].key = {}
      BY <3>1 DEF QueueRec, QueueInv, ArraysInv, Slot
    <3>3. PICK a \in Q[q].elt, b \in Q[q].key : TRUE
      BY <2>1 DEF Known, Made
    <3>4. Q[q].elt = {a} /\ Q[q].key = {b} /\ a # b
      BY <3>2, <3>3 DEF Cell
    <3>5. Arrays(q) = {a, b}
      BY <3>1, <3>4 DEF Arrays
    <3> QED BY <3>3, <3>4, <3>5
  <2> QED BY <2>1 DEF QueueInv, ArraysInv, Held, Disjoint, ArraysHeld, Addresses
<1>4. QueueSpec => []ArraysHeld
  BY <1>1, <1>2, <1>3, PTL DEF QueueSpec
<1>5. []ArraysHeld => ArraysAccounted
  BY PTL DEF ArraysAccounted
<1> QED BY <1>4, <1>5, PTL
-----------------------------------------------------------------------------
(* Booting *)

\* TypeOK in three parts, which the provers take apart: the Boolean variables,
\* the other scalars, the functions.
Flags == server \in BOOLEAN /\ asked \in BOOLEAN /\ rrq \in BOOLEAN /\ patient \in BOOLEAN

Scalars ==
  /\ pc \in {"idle", "switch", "bootp_request", "bootp_timer", "tftp_req", "tftp_state",
            "tftp_timer", "tftp_block", "tftp_bytes", "tftp_retx", "jumped"}
  /\ bs \in States /\ try \in 0..(MaxTry + 1) /\ timer \in {Off} \cup 0..(MaxTry + 2)
  /\ block \in 0..N /\ bytes \in {0, 1} /\ retx \in 0..MaxRetx
  /\ port \in Ports \cup {0} /\ memloc \in 1..(N + 1)

Tables == /\ mem \in [1..N -> 0..N]
          /\ cur \in [Ports -> 0..(N + 1)] /\ acks \in [Ports -> SUBSET (0..N)]

\* Which states the handlers may have left behind at each point of the loop.
Stages ==
  /\ pc = "idle" => bs # "BOOT_DONE"
  /\ pc # "idle" => try <= MaxTry
  /\ pc \in {"bootp_request", "bootp_timer"} => bs \in {"BOOTP_REQ_SENT", "BOOTP_RETX", "BEGIN_TFTP"}
  /\ pc \in {"tftp_req", "tftp_state"} => bs \in {"BEGIN_TFTP", "TFTP_RETX"}
  /\ pc \in {"tftp_timer", "tftp_block"} => bs \in {"TFTP_REQ_SENT", "TFTP_RETX"}

\* Until the loop has set it to 1, the expected block is 0.
Fresh == pc \in {"tftp_state", "tftp_timer", "tftp_block"} => block = 0 /\ memloc = 1 /\ bytes = 0

Transfer == bs = "TFTP_REQ_SENT" /\ pc \notin {"tftp_timer", "tftp_block"}

\* During a transfer the expected block belongs where memloc is ...
Place == Transfer => block >= 1 /\ (bytes = 1 => block >= 2) /\ memloc = block

\* ... and the blocks before it are in their places.
Brought == Transfer => \A i \in 1..(block - 1) : mem[i] = i

\* The last block is acknowledged only when it has been taken.
LastAck == bs # "BOOT_DONE" => \A p \in Ports : N \notin acks[p]

Loop == Scalars /\ Stages /\ Fresh /\ Place
NInv == Loop /\ Tables /\ Brought /\ Loaded /\ LastAck /\ ServerDone
IInv == Flags /\ NInv

LEMMA Numbers == ASSUME NEW b \in 1..N PROVE Short(b) = b /\ b \in 0..N
BY BootAssumption DEF Short

LEMMA InitInv == Init => IInv
<1> SUFFICES ASSUME Init PROVE IInv OBVIOUS
<1>1. Flags
  BY Zenon DEF Init, Flags
<1>2. Tables
  BY BootAssumption DEF Init, Tables
<1>3. Loop
  BY BootAssumption DEF Init, Loop, Scalars, States, Off, Stages, Fresh, Place, Transfer
<1>4. Brought /\ Loaded
  BY DEF Init, Brought, Transfer, Loaded
<1>5. LastAck /\ ServerDone
  BY BootAssumption DEF Init, LastAck, ServerDone
<1> QED BY <1>1, <1>2, <1>3, <1>4, <1>5 DEF IInv, NInv

\* No step makes a Boolean variable anything else.
LEMMA FlagsInv == ASSUME Flags, Next PROVE Flags'
<1>1. CASE Start BY <1>1, Zenon DEF Flags, Start, BootXinu, net
<1>2. CASE GiveUp BY <1>2, Zenon DEF Flags, GiveUp, net
<1>3. CASE BeginBootp BY <1>3, Zenon DEF Flags, BeginBootp, net
<1>4. CASE BootpRequest BY <1>4, Zenon DEF Flags, BootpRequest
<1>5. CASE BeginTftp BY <1>5, Zenon DEF Flags, BeginTftp, net
<1>6. CASE TftpReq BY <1>6, Zenon DEF Flags, TftpReq
<1>7. CASE TftpState BY <1>7, Zenon DEF Flags, TftpState, net
<1>8. CASE StartTimer BY <1>8, Zenon DEF Flags, StartTimer, net
<1>9. CASE TftpBlock BY <1>9, Zenon DEF Flags, TftpBlock, net
<1>10. CASE TftpBytes BY <1>10, Zenon DEF Flags, TftpBytes, net
<1>11. CASE TftpRetx BY <1>11, Zenon DEF Flags, TftpRetx, net
<1>12. CASE Leave BY <1>12, Zenon DEF Flags, Leave, net
<1>13. CASE Tick BY <1>13, Zenon DEF Flags, Tick
<1>14. CASE Lose BY <1>14, Zenon DEF Flags, Lose
<1>15. ASSUME NEW k \in BootpKinds, BootpIn(k) PROVE Flags' BY <1>15, Zenon DEF Flags, BootpIn, net
<1>16. ASSUME NEW p \in Ports, NEW b \in 1..N, DataIn(p, b) PROVE Flags' BY <1>16, Zenon DEF Flags, DataIn
<1>17. ASSUME NEW p \in Ports, ErrorIn(p) PROVE Flags' BY <1>17, Zenon DEF Flags, ErrorIn, net
<1>18. ASSUME NEW p \in Ports, Open(p) PROVE Flags' BY <1>18, Zenon DEF Flags, Open
<1>19. ASSUME NEW p \in Ports, AckIn(p) PROVE Flags' BY <1>19, Zenon DEF Flags, AckIn
<1>20. ASSUME NEW p \in Ports, Close(p) PROVE Flags' BY <1>20, Zenon DEF Flags, Close
<1> QED BY <1>1, <1>2, <1>3, <1>4, <1>5, <1>6, <1>7, <1>8, <1>9, <1>10, <1>11, <1>12, <1>13, <1>14, <1>15, <1>16, <1>17, <1>18, <1>19, <1>20, Zenon DEF Next, Step, Interrupt, Server

\* The loop's own steps leave the image and the servers' side alone.
LEMMA StepKeeps == ASSUME Start \/ Step PROVE UNCHANGED <<mem, cur, acks, port>>
<1>1. CASE Start BY <1>1 DEF Start, file, net
<1>2. CASE GiveUp BY <1>2 DEF GiveUp, file, net
<1>3. CASE BeginBootp BY <1>3 DEF BeginBootp, file, net
<1>4. CASE BootpRequest BY <1>4 DEF BootpRequest, file, net
<1>5. CASE BeginTftp BY <1>5 DEF BeginTftp, file, net
<1>6. CASE TftpReq BY <1>6 DEF TftpReq, file, net
<1>7. CASE TftpState BY <1>7 DEF TftpState, file, net
<1>8. CASE StartTimer BY <1>8 DEF StartTimer, file, net
<1>9. CASE TftpBlock BY <1>9 DEF TftpBlock, file, net
<1>10. CASE TftpBytes BY <1>10 DEF TftpBytes, file, net
<1>11. CASE TftpRetx BY <1>11 DEF TftpRetx, file, net
<1>12. CASE Leave BY <1>12 DEF Leave, file, net
<1> QED BY <1>1, <1>2, <1>3, <1>4, <1>5, <1>6, <1>7, <1>8, <1>9, <1>10, <1>11, <1>12 DEF Step

\* What they do to the numbers.
LEMMA StepMoves ==
  ASSUME Loop, Start \/ Step
  PROVE  /\ Loop'
         /\ bs' = "BOOT_DONE" <=> bs = "BOOT_DONE" /\ pc # "idle"
         /\ Transfer' => block' = 1 \/ (Transfer /\ block' = block)
<1> USE BootAssumption DEF Loop, Scalars, States, Off, Stages, Fresh, Place, Transfer, main, file
<1>1. CASE Start BY <1>1, SMTT(30) DEF Start, BootXinu
<1>2. CASE GiveUp BY <1>2, SMTT(30) DEF GiveUp
<1>3. CASE BeginBootp BY <1>3, SMTT(30) DEF BeginBootp, Retry
<1>4. CASE BootpRequest BY <1>4, SMTT(30) DEF BootpRequest
<1>5. CASE BeginTftp BY <1>5, SMTT(30) DEF BeginTftp, Retry
<1>6. CASE TftpReq BY <1>6, SMTT(30) DEF TftpReq
<1>7. CASE TftpState BY <1>7, SMTT(30) DEF TftpState
<1>8. CASE StartTimer BY <1>8, SMTT(30) DEF StartTimer
<1>9. CASE TftpBlock BY <1>9, SMTT(30) DEF TftpBlock
<1>10. CASE TftpBytes BY <1>10, SMTT(30) DEF TftpBytes
<1>11. CASE TftpRetx BY <1>11, SMTT(30) DEF TftpRetx
<1>12. CASE Leave BY <1>12, SMTT(30) DEF Leave
<1> HIDE DEF Loop, Scalars, States, Off, Stages, Fresh, Place, Transfer
<1> QED BY <1>1, <1>2, <1>3, <1>4, <1>5, <1>6, <1>7, <1>8, <1>9, <1>10, <1>11, <1>12 DEF Step

LEMMA StepInv == ASSUME NInv, Start \/ Step PROVE NInv'
<1>1. Loop /\ Tables /\ Brought /\ Loaded /\ LastAck /\ ServerDone
  BY DEF NInv
<1>2. UNCHANGED <<mem, cur, acks, port>>
  BY StepKeeps
<1>3. /\ Loop'
      /\ bs' = "BOOT_DONE" <=> bs = "BOOT_DONE" /\ pc # "idle"
      /\ Transfer' => block' = 1 \/ (Transfer /\ block' = block)
  BY <1>1, StepMoves
<1>4. bs = "BOOT_DONE" => pc # "idle"
  BY <1>1 DEF Loop, Stages
<1>5. Tables'
  BY <1>1, <1>2 DEF Tables
<1>6. Brought'
  BY <1>1, <1>2, <1>3 DEF Brought
<1>7. Loaded' /\ LastAck' /\ ServerDone'
  BY <1>1, <1>2, <1>3, <1>4 DEF Loaded, LastAck, ServerDone
<1> QED
  BY <1>3, <1>5, <1>6, <1>7 DEF NInv

\* A step that stores nothing and does not end a transfer with success keeps the
\* image; if the transfers have no news of the last block, they stay as they are.
LEMMA ElseInv ==
  ASSUME NInv, UNCHANGED <<mem, pc>>, Loop', Tables',
         UNCHANGED <<bs, block>> \/ (bs # "BOOT_DONE" /\ bs' \notin {"TFTP_REQ_SENT", "BOOT_DONE"}),
         bs # "BOOT_DONE" => \A q \in Ports : N \notin acks'[q] /\ ~(cur'[q] > N)
  PROVE  NInv'
<1>1. Brought' /\ Loaded'
  BY DEF NInv, Brought, Transfer, Loaded
<1>2. LastAck' /\ ServerDone'
  BY DEF LastAck, ServerDone
<1> QED
  BY <1>1, <1>2 DEF NInv

LEMMA Quiet ==
  ASSUME NInv PROVE bs # "BOOT_DONE" => \A q \in Ports : N \notin acks[q] /\ ~(cur[q] > N)
BY DEF NInv, LastAck, ServerDone

\* What an acknowledgement adds to those under way.
LEMMA AckAdds ==
  ASSUME Tables, NEW p \in Ports \cup {0}, NEW b \in 0..N, Ack(p, b)
  PROVE  /\ acks' \in [Ports -> SUBSET (0..N)] /\ timer' = 2
         /\ \A q \in Ports : acks'[q] \subseteq acks[q] \cup {b}
<1>1. acks \in [Ports -> SUBSET (0..N)]
  BY DEF Tables
<1>2. timer' = 2 /\ acks' = IF p # 0 /\ b >= cur[p] THEN [acks EXCEPT ![p] = acks[p] \cup {b}] ELSE acks
  BY DEF Ack
<1>3. CASE acks' = acks
  BY <1>1, <1>2, <1>3
<1>4. CASE p \in Ports /\ acks' = [acks EXCEPT ![p] = acks[p] \cup {b}]
  BY <1>1, <1>2, <1>4
<1> QED
  BY <1>2, <1>3, <1>4

\* Such an acknowledgement, of a block before the last, is no news of the last.
LEMMA AckKeeps ==
  ASSUME NInv, NEW p \in Ports \cup {0}, NEW b \in 0..N, b # N, Ack(p, b), cur' = cur, mem' = mem
  PROVE  /\ Tables' /\ timer' = 2
         /\ bs # "BOOT_DONE" => \A q \in Ports : N \notin acks'[q] /\ ~(cur'[q] > N)
<1>1. /\ acks' \in [Ports -> SUBSET (0..N)] /\ timer' = 2
      /\ \A q \in Ports : acks'[q] \subseteq acks[q] \cup {b}
  BY AckAdds DEF NInv
<1>2. Tables'
  BY <1>1 DEF NInv, Tables
<1>3. N \notin {b}
  OBVIOUS
<1> QED BY <1>1, <1>2, <1>3, Quiet

\* Ticks and packets that acknowledge nothing.
LEMMA SilentInv ==
  ASSUME NInv, Loop', UNCHANGED <<mem, pc, acks, cur>>,
         UNCHANGED <<bs, block>> \/ (bs # "BOOT_DONE" /\ bs' \notin {"TFTP_REQ_SENT", "BOOT_DONE"})
  PROVE  NInv'
<1>1. Tables'
  BY DEF NInv, Tables
<1>2. bs # "BOOT_DONE" => \A q \in Ports : N \notin acks'[q] /\ ~(cur'[q] > N)
  BY Quiet
<1> QED
  BY <1>1, <1>2, ElseInv

LEMMA TickInv == ASSUME NInv, Tick PROVE NInv'
<1>0. /\ Loop
      /\ UNCHANGED <<pc, try, block, bytes, port, mem, memloc, cur>>
  BY DEF NInv, Tick, file
<1>1. CASE UNCHANGED acks
  <2>1. bs' = bs \/ (bs # "BOOT_DONE" /\ bs' \in {"BOOTP_RETX", "TFTP_RETX", "BOOT_ERROR"})
    BY <1>1 DEF Tick
  <2>2. Loop'
    BY <1>0, <1>1, BootAssumption DEF Loop, Scalars, States, Off, Stages, Fresh, Place, Transfer, Tick, Ack, Expired
  <2>3. UNCHANGED <<bs, block>> \/ (bs # "BOOT_DONE" /\ bs' \notin {"TFTP_REQ_SENT", "BOOT_DONE"})
    BY <1>0, <2>1
  <2>. QED BY <1>0, <1>1, <2>2, <2>3, SilentInv
<1>2. CASE Ack(port, block - 1) /\ bs = "TFTP_REQ_SENT" /\ bytes = 1 /\ retx < MaxRetx
           /\ retx' = retx + 1 /\ bs' = bs
  <2>1. block - 1 \in 0..N /\ block - 1 # N /\ port \in Ports \cup {0}
    BY <1>0, <1>2, BootAssumption DEF Loop, Scalars, Fresh, Place, Transfer
  <2>2. /\ Tables' /\ timer' = 2
        /\ bs # "BOOT_DONE" => \A q \in Ports : N \notin acks'[q] /\ ~(cur'[q] > N)
    BY <1>0, <1>2, <2>1, AckKeeps
  <2>3. Loop'
    BY <1>0, <1>2, <2>2, BootAssumption DEF Loop, Scalars, States, Off, Stages, Fresh, Place, Transfer
  <2>. QED BY <1>0, <1>2, <2>2, <2>3, ElseInv
<1>. QED BY <1>1, <1>2 DEF Tick

LEMMA BootpInInv == ASSUME NInv, NEW k \in BootpKinds, BootpIn(k) PROVE NInv'
<1>1. /\ UNCHANGED <<mem, pc, acks, cur>>
      /\ bs # "BOOT_DONE" /\ bs' \notin {"TFTP_REQ_SENT", "BOOT_DONE"}
  BY DEF BootpIn, file, net
<1>2. Loop
  BY DEF NInv
<1>3. Loop'
  BY <1>2, BootAssumption DEF Loop, Scalars, States, Off, Stages, Fresh, Place, Transfer, BootpIn, Booting, file
<1> QED
  BY <1>1, <1>3, SilentInv

\* The expected block goes to its place; only the last one ends the transfer.
LEMMA ExpectInv ==
  ASSUME NInv, NEW p \in Ports, NEW b \in 1..N, DataIn(p, b), Expect(p, b) PROVE NInv'
<1>0. Loop /\ Tables /\ Brought /\ Loaded /\ LastAck /\ ServerDone
  BY DEF NInv
<1>1. block = b /\ b \in 0..N /\ bs = "TFTP_REQ_SENT"
  <2>1. block = Short(b) /\ bs = "TFTP_REQ_SENT" BY DEF Expect, DataIn
  <2>. QED BY <2>1, Numbers
<1>2. Transfer /\ memloc = b /\ pc # "tftp_state"
  BY <1>0, <1>1, BootAssumption DEF Loop, Fresh, Place, Transfer
<1>3. \A i \in 1..(b - 1) : mem[i] = i
  BY <1>0, <1>1, <1>2 DEF Brought
<1>4. mem' = [mem EXCEPT ![b] = b] /\ memloc' = b + 1 /\ bytes' = 1
  BY <1>1, <1>2 DEF Expect, Store
<1>5. mem' \in [1..N -> 0..N] /\ \A i \in 1..b : mem'[i] = i
  <2>1. mem \in [1..N -> 0..N] BY <1>0 DEF Tables
  <2>2. mem' \in [1..N -> 0..N] BY <1>1, <1>4, <2>1
  <2>3. \A i \in 1..b : mem'[i] = i BY <1>3, <1>4, <2>1, BootAssumption
  <2>. QED BY <2>2, <2>3
<1>6. /\ acks' \in [Ports -> SUBSET (0..N)] /\ timer' = 2
      /\ \A q \in Ports : acks'[q] \subseteq acks[q] \cup {b}
  <2>1. Ack(p, b) BY <1>1 DEF Expect
  <2>. QED BY <1>0, <1>1, <2>1, AckAdds
<1>7. UNCHANGED <<pc, try, retx, cur>> /\ port' = p
  BY DEF DataIn
<1>11. /\ bs = "TFTP_REQ_SENT" /\ block = b /\ memloc' = b + 1 /\ bytes' = 1 /\ timer' = 2
      /\ UNCHANGED <<pc, try, retx>> /\ port' = p /\ pc # "tftp_state" /\ Transfer
  BY <1>1, <1>2, <1>4, <1>6, <1>7
<1>8. Tables'
  BY <1>0, <1>5, <1>6, <1>7 DEF Tables
<1>9. CASE b = N
  <2>1. bs' = "BOOT_DONE" /\ block' = block BY <1>1, <1>9 DEF Expect, IsLastBlock
  <2>2. pc # "idle" BY DEF DataIn, Booting
  <2>3. Loop'
    BY <1>0, <1>11, <1>9, <2>1, <2>2, SMTT(30), BootAssumption DEF Loop, Scalars, States, Off, Stages, Fresh, Place, Transfer
  <2>4. Brought' /\ Loaded' BY <1>5, <1>9, <2>1 DEF Brought, Transfer, Loaded
  <2>5. LastAck' /\ ServerDone' BY <2>1 DEF LastAck, ServerDone
  <2>. QED BY <1>8, <2>3, <2>4, <2>5 DEF NInv
<1>10. CASE b # N
  <2>1. bs' = bs /\ block' = b + 1 BY <1>1, <1>10 DEF Expect, IsLastBlock
  <2>2. N \notin {b} BY <1>10
  <2>3. Loop'
    BY <1>0, <1>11, <1>10, <2>1, SMTT(30), BootAssumption DEF Loop, Scalars, States, Off, Stages, Fresh, Place, Transfer
  <2>4. Brought' /\ Loaded' BY <1>1, <1>5, <2>1 DEF Brought, Loaded
  <2>5. LastAck' BY <1>0, <1>1, <1>6, <2>1, <2>2 DEF LastAck
  <2>6. ServerDone' BY <1>0, <1>1, <1>7, <2>1 DEF ServerDone
  <2>. QED BY <1>8, <2>3, <2>4, <2>5, <2>6 DEF NInv
<1>. QED BY <1>9, <1>10

\* Any other block changes neither memory nor position.
LEMMA ReackInv ==
  ASSUME NInv, NEW p \in Ports, NEW b \in 1..N, DataIn(p, b), Reack(p, b),
         UNCHANGED <<bs, block, bytes, file>>
  PROVE  NInv'
<1>0. Loop /\ UNCHANGED <<pc, try, retx, cur, mem, memloc>> /\ port' = p
  BY DEF NInv, DataIn, file
<1>1. block \in 0..N /\ Short(b) = b /\ b \in 0..N
  BY <1>0, Numbers DEF Loop, Scalars
<1>2. /\ Tables' /\ timer' \in {Off, 2}
      /\ bs # "BOOT_DONE" => \A q \in Ports : N \notin acks'[q] /\ ~(cur'[q] > N)
  <2>1. CASE block - b = 1 /\ Ack(p, b)
    <3>1. b # N BY <1>1, <2>1, BootAssumption
    <3>. QED BY <1>0, <1>1, <2>1, <3>1, AckKeeps
  <2>2. CASE block - b = -1 /\ Ack(p, block)
    <3>1. block # N BY <1>1, <2>2, BootAssumption
    <3>. QED BY <1>0, <1>1, <2>2, <3>1, AckKeeps
  <2>3. CASE timer' = Off /\ UNCHANGED acks
    <3>1. Tables' BY <1>0, <2>3 DEF NInv, Tables
    <3>. QED BY <1>0, <2>3, <3>1, Quiet
  <2>. QED BY <1>1, <2>1, <2>2, <2>3 DEF Reack
<1>3. Loop'
  BY <1>0, <1>2, BootAssumption DEF Loop, Scalars, States, Off, Stages, Fresh, Place, Transfer
<1>. QED BY <1>0, <1>2, <1>3, ElseInv

LEMMA ErrorInInv == ASSUME NInv, NEW p \in Ports, ErrorIn(p) PROVE NInv'
<1>1. /\ UNCHANGED <<mem, pc, acks, cur>>
      /\ bs # "BOOT_DONE" /\ bs' \notin {"TFTP_REQ_SENT", "BOOT_DONE"}
  BY DEF ErrorIn, file, net
<1>2. Loop
  BY DEF NInv
<1>3. Loop'
  BY <1>2, BootAssumption DEF Loop, Scalars, States, Off, Stages, Fresh, Place, Transfer, ErrorIn, Booting, main, file
<1> QED
  BY <1>1, <1>3, SilentInv

LEMMA InterruptInv == ASSUME NInv, Interrupt PROVE NInv'
<1>1. CASE Tick BY <1>1, TickInv
<1>2. ASSUME NEW k \in BootpKinds, BootpIn(k) PROVE NInv' BY <1>2, BootpInInv
<1>3. ASSUME NEW p \in Ports, NEW b \in 1..N, DataIn(p, b) PROVE NInv'
  <2>1. CASE Expect(p, b) BY <1>3, <2>1, ExpectInv
  <2>2. CASE Reack(p, b) /\ UNCHANGED <<bs, block, bytes, file>> BY <1>3, <2>2, ReackInv
  <2>. QED BY <1>3, <2>1, <2>2 DEF DataIn
<1>4. ASSUME NEW p \in Ports, ErrorIn(p) PROVE NInv' BY <1>4, ErrorInInv
<1>. QED BY <1>1, <1>2, <1>3, <1>4 DEF Interrupt

\* The servers and the network touch nothing of the client's: what they do keeps
\* the invariant if no transfer completes that the last block was not acknowledged to.
LEMMA TheirsInv ==
  ASSUME NInv, UNCHANGED <<pc, bs, try, block, bytes, retx, timer, port, mem, memloc>>,
         cur' \in [Ports -> 0..(N + 1)], acks' \in [Ports -> SUBSET (0..N)],
         \A q \in Ports : acks'[q] \subseteq acks[q],
         \A q \in Ports : cur'[q] > N => cur[q] > N \/ N \in acks[q]
  PROVE  NInv'
<1>1. Loop'
  BY DEF NInv, Loop, Scalars, States, Off, Stages, Fresh, Place, Transfer
<1>2. Tables'
  BY DEF NInv, Tables
<1>3. bs # "BOOT_DONE" => \A q \in Ports : N \notin acks'[q] /\ ~(cur'[q] > N)
  BY Quiet
<1> QED
  BY <1>1, <1>2, <1>3, ElseInv

LEMMA NetworkInv == ASSUME NInv, Server \/ Lose PROVE NInv'
<1>0. cur \in [Ports -> 0..(N + 1)] /\ acks \in [Ports -> SUBSET (0..N)]
  BY DEF NInv, Tables
<1>1. ASSUME NEW p \in Ports, Open(p) PROVE NInv'
  <2>1. /\ UNCHANGED <<pc, bs, try, block, bytes, retx, timer, port, mem, memloc, acks>>
        /\ cur' = [cur EXCEPT ![p] = 1]
    BY <1>1 DEF Open, main, file
  <2>2. cur' \in [Ports -> 0..(N + 1)] /\ \A q \in Ports : cur'[q] > N => cur[q] > N
    BY <1>0, <2>1, SMTT(30), BootAssumption
  <2>. QED BY <1>0, <2>1, <2>2, TheirsInv
<1>2. ASSUME NEW p \in Ports, AckIn(p) PROVE NInv'
  <2>1. /\ UNCHANGED <<pc, bs, try, block, bytes, retx, timer, port, mem, memloc>>
        /\ cur[p] \in 1..N /\ cur[p] \in acks[p] /\ cur' = [cur EXCEPT ![p] = cur[p] + 1]
        /\ acks' = [acks EXCEPT ![p] = {b \in acks[p] : b > cur[p]}]
    BY <1>2 DEF AckIn, main, file
  <2>2. cur' \in [Ports -> 0..(N + 1)] /\ \A q \in Ports : cur'[q] > N => cur[q] > N \/ N \in acks[q]
    <3>1. PICK c \in 1..N : c = cur[p] BY <2>1
    <3>2. cur' = [cur EXCEPT ![p] = c + 1] /\ c + 1 \in 0..(N + 1) /\ (c + 1 > N => c = N)
      BY <2>1, <3>1, BootAssumption
    <3>3. cur' \in [Ports -> 0..(N + 1)] /\ cur'[p] = c + 1 /\ \A q \in Ports \ {p} : cur'[q] = cur[q]
      BY <1>0, <3>2
    <3>. QED BY <2>1, <3>1, <3>2, <3>3
  <2>3. acks' \in [Ports -> SUBSET (0..N)] /\ \A q \in Ports : acks'[q] \subseteq acks[q]
    BY <1>0, <2>1
  <2>. QED BY <2>1, <2>2, <2>3, TheirsInv
<1>3. ASSUME NEW p \in Ports, Close(p) PROVE NInv'
  <2>1. /\ UNCHANGED <<pc, bs, try, block, bytes, retx, timer, port, mem, memloc>>
        /\ cur' = [cur EXCEPT ![p] = 0] /\ acks' = [acks EXCEPT ![p] = {}]
    BY <1>3 DEF Close, main, file
  <2>2. cur' \in [Ports -> 0..(N + 1)] /\ \A q \in Ports : cur'[q] > N => cur[q] > N
    BY <1>0, <2>1, SMTT(30), BootAssumption
  <2>3. acks' \in [Ports -> SUBSET (0..N)] /\ \A q \in Ports : acks'[q] \subseteq acks[q]
    BY <1>0, <2>1
  <2>. QED BY <2>1, <2>2, <2>3, TheirsInv
<1>4. CASE Lose
  <2>1. UNCHANGED <<pc, bs, try, block, bytes, retx, timer, port, mem, memloc, cur>>
    BY <1>4 DEF Lose, main, file
  <2>2. acks' \in [Ports -> SUBSET (0..N)] /\ \A q \in Ports : acks'[q] \subseteq acks[q]
    <3>1. CASE UNCHANGED acks BY <1>0, <3>1
    <3>2. ASSUME NEW p \in Ports, NEW b \in acks[p], acks' = [acks EXCEPT ![p] = acks[p] \ {b}]
          PROVE  acks' \in [Ports -> SUBSET (0..N)] /\ \A q \in Ports : acks'[q] \subseteq acks[q]
      BY <1>0, <3>2
    <3>. QED BY <1>4, <3>1, <3>2 DEF Lose
  <2>. QED BY <1>0, <2>1, <2>2, TheirsInv
<1>. QED BY <1>1, <1>2, <1>3, <1>4 DEF Server

LEMMA Invariance == Spec => []IInv
<1>1. IInv /\ [Next]_vars => IInv'
  <2> SUFFICES ASSUME IInv, [Next]_vars PROVE IInv' OBVIOUS
  <2>0. Flags /\ NInv
    BY DEF IInv
  <2>1. CASE UNCHANGED vars
    <3>1. Flags' BY <2>0, <2>1, Zenon DEF Flags, vars, net
    <3>2. NInv'
      <4>1. UNCHANGED <<mem, pc, acks, cur, bs, block>> BY <2>1 DEF vars, main, file, net
      <4>2. Loop'
        BY <2>0, <2>1 DEF NInv, Loop, Scalars, States, Off, Stages, Fresh, Place, Transfer, vars, main, file
      <4>. QED BY <2>0, <4>1, <4>2, SilentInv
    <3>. QED BY <3>1, <3>2 DEF IInv
  <2>2. CASE Next
    <3>1. Flags' BY <2>0, <2>2, FlagsInv
    <3>2. NInv' BY <2>0, <2>2, StepInv, InterruptInv, NetworkInv DEF Next
    <3>. QED BY <3>1, <3>2 DEF IInv
  <2>. QED BY <2>1, <2>2
<1>. QED BY <1>1, InitInv, PTL DEF Spec

\* What boot_xinu() jumps to is the boot file, for every file that 16-bit block
\* numbers can count, every network and every order of interrupts.
THEOREM LoadedTheorem == Spec => []Loaded
BY Invariance, PTL DEF IInv, NInv

\* No server's transfer completes before the client has the file.
THEOREM ServerDoneTheorem == Spec => []ServerDone
BY Invariance, PTL DEF IInv, NInv

\* Types: in particular memory is written at 1..N only.
THEOREM BootTypeTheorem == Spec => []TypeOK
<1>1. IInv => TypeOK
  BY Zenon DEF IInv, NInv, TypeOK, Flags, Loop, Scalars, Tables
<1> QED BY <1>1, Invariance, PTL
-----------------------------------------------------------------------------
(* The transmit ring, for every size of the ring, of the header and of a block. *)

\* The room and the used bytes make up the ring, except that a full ring counts
\* as an empty one.
LEMMA AvailIsRest ==
  ASSUME NEW start \in 0..(TxSize - 1), NEW end \in 0..(TxSize - 1)
  PROVE  Avail(start, end) = TxSize - Used(start, end)
BY RingAssumption DEF Avail, Used

\* mon_ethwstrt() (ethwstrt.c:28-74): a block put where the room exceeds it by
\* more than a header leaves start and end in the ring and apart, and takes its
\* bytes, and at most a header more, from the room.
THEOREM EndStaysBehind ==
  ASSUME NEW start \in 0..(TxSize - 1), NEW end \in 0..(TxSize - 1),
         NEW len \in Nat \ {0}, len + TxHeader < Avail(start, end)
  PROVE  /\ NextEnd(end, len) \in 0..(TxSize - 1)
         /\ NextEnd(end, len) # start
         /\ Used(start, NextEnd(end, len)) >= Used(start, end) + len
         /\ Used(start, NextEnd(end, len)) <= Used(start, end) + len + TxHeader
<1>1. len + TxHeader < TxSize - Used(start, end)
  BY AvailIsRest
<1>2. CASE end + len + TxHeader >= TxSize
  BY <1>1, <1>2, RingAssumption DEF NextEnd, Used
<1>3. CASE end + len + TxHeader < TxSize
  BY <1>1, <1>3, RingAssumption DEF NextEnd, Used
<1> QED
  BY <1>2, <1>3, RingAssumption

\* The bytes of such a block: none is in use before, all are in use after.
THEOREM BlockIsApart ==
  ASSUME NEW start \in 0..(TxSize - 1), NEW end \in 0..(TxSize - 1),
         NEW len \in Nat \ {0}, len + TxHeader < Avail(start, end),
         NEW c \in Cells(end, len)
  PROVE  /\ c \in 0..(TxSize - 1)
         /\ Used(start, c) >= Used(start, end)
         /\ Used(start, c) < Used(start, NextEnd(end, len))
<1>1. PICK i \in 0..(len - 1) : c = IF end + i < TxSize THEN end + i ELSE end + i - TxSize
  BY DEF Cells
<1>2. i \in Nat /\ i < len
  BY <1>1
<1>3. len + TxHeader < TxSize - Used(start, end)
  BY AvailIsRest
<1>4. c \in 0..(TxSize - 1) /\ Used(start, c) = Used(start, end) + i
  <2>1. CASE end + i < TxSize
    BY <1>1, <1>2, <1>3, <2>1, RingAssumption DEF Used
  <2>2. CASE end + i >= TxSize
    BY <1>1, <1>2, <1>3, <2>2, RingAssumption DEF Used
  <2> QED
    BY <2>1, <2>2, <1>2, RingAssumption
<1>5. Used(start, NextEnd(end, len)) >= Used(start, end) + len
  BY EndStaysBehind
<1>6. Used(start, end) \in Int /\ Used(start, NextEnd(end, len)) \in Int
  BY EndStaysBehind, RingAssumption DEF Used
<1> QED
  BY <1>2, <1>4, <1>5, <1>6
-----------------------------------------------------------------------------
(* Sorting *)

\* What qsort() moves, and a call of qs1().
Elem == [key : SortKeys, was : Int]
Frame == [at : {"start", "up", "down", "done"},
          a : Int, l : Int, i : Int, j : Int, lp : Int, hp : Int]

QTypes ==
  /\ given \in Seq(Elem) /\ Len(given) <= MaxLen
  /\ arr \in Seq(Elem) /\ Len(arr) = Len(given)
  /\ sort \in Frame
  /\ calls \in Seq(Frame) /\ \A k \in 1 .. Len(calls) : calls[k].at = "start"

Elements(s)  == {s[k] : k \in DOMAIN s}
SameElements == Elements(arr) = Elements(given)

\* The pieces that are not sorted yet: the current one and those of the waiting calls.
Nth(k)       == IF k = 0 THEN sort ELSE calls[k]
Within(P, x) == P.a <= x /\ x < P.l

PiecesFit   == \A k \in 0 .. Len(calls) :
                 1 <= Nth(k).a /\ Nth(k).a <= Nth(k).l /\ Nth(k).l <= Len(arr) + 1
PiecesApart == \A k, m \in 0 .. Len(calls) :
                 k # m => Nth(k).l <= Nth(m).a \/ Nth(m).l <= Nth(k).a

\* Two elements that are not in one such piece are in order.
OrderElsewhere ==
  \A x, y \in 1 .. Len(arr) : x < y =>
    \/ arr[x].key <= arr[y].key
    \/ \E k \in 0 .. Len(calls) : Within(Nth(k), x) /\ Within(Nth(k), y)

\* What the pass over the elements below the pivots has found, and what the end is.
AtI   == sort.at = "down" /\ sort.i < sort.lp => arr[sort.i].key > arr[sort.lp].key
AtEnd == sort.at = "done" => calls = <<>> /\ sort.l - sort.a <= 1

\* At each depth of nesting the pieces are half as long.
Length(P) == P.l - P.a
Nested ==
  /\ Len(calls) <= MaxLen
  /\ TwoTo[Len(calls)] * (Length(sort) + 1) <= Len(arr) + 1
  /\ \A k \in 1 .. Len(calls) : TwoTo[Len(calls) - k] * (Length(calls[k]) + 1) <= Len(arr) + 1

SortInv ==
  /\ QTypes /\ SameElements
  /\ PiecesFit /\ PiecesApart /\ OrderElsewhere
  /\ Partitioned /\ AtI /\ AtEnd /\ Nested

\* TwoTo is what its definition says.
LEMMA TwoToIs ==
  /\ TwoTo[0] = 1
  /\ \A n \in 1 .. MaxLen : TwoTo[n] = 2 * TwoTo[n - 1]
<1> DEFINE step == [z \in (1 .. MaxLen) \X Nat |-> 2 * z[2]]
           Def(f) == f = [n \in 0 .. MaxLen |-> IF n = 0 THEN 1 ELSE 2 * f[n - 1]]
<1>1. MaxLen \in Nat
  BY QsortAssumption
<1>2. step \in [(1 .. MaxLen) \X Nat -> Nat]
  OBVIOUS
<1> HIDE DEF step
<1>3. PICK f \in [0 .. MaxLen -> Nat] : Steps(f, 1, step, MaxLen)
  BY <1>1, <1>2, StepsExist
<1>4. \A n \in 1 .. MaxLen : f[n] = 2 * f[n - 1]
  <2>1. \A n \in 1 .. MaxLen : n - 1 \in 0 .. MaxLen
    BY <1>1
  <2>2. \A n \in 1 .. MaxLen : step[<<n, f[n - 1]>>] = 2 * f[n - 1]
    BY <2>1 DEF step
  <2> QED
    BY <1>3, <2>2 DEF Steps
<1>5. f = [n \in 0 .. MaxLen |-> f[n]]
  OBVIOUS
<1>6. \A n \in 0 .. MaxLen : f[n] = IF n = 0 THEN 1 ELSE 2 * f[n - 1]
  <2>1. f[0] = 1
    BY <1>3 DEF Steps
  <2>2. \A n \in 0 .. MaxLen : n = 0 \/ (n # 0 /\ n \in 1 .. MaxLen)
    BY <1>1
  <2> QED
    BY <1>4, <2>1, <2>2
<1>7. Def(f)
  BY <1>5, <1>6
<1>8. Def(CHOOSE g : Def(g))
  BY <1>7
<1>9. TwoTo = [n \in 0 .. MaxLen |-> IF n = 0 THEN 1 ELSE 2 * TwoTo[n - 1]]
  BY <1>8 DEF TwoTo
<1>10. \A n \in 0 .. MaxLen : TwoTo[n] = IF n = 0 THEN 1 ELSE 2 * TwoTo[n - 1]
  BY <1>9
<1>11. 0 \in 0 .. MaxLen /\ \A n \in 1 .. MaxLen : n \in 0 .. MaxLen /\ n # 0
  BY <1>1
<1>12. TwoTo[0] = 1
  BY <1>10, <1>11
<1>13. \A n \in 1 .. MaxLen : TwoTo[n] = 2 * TwoTo[n - 1]
  BY <1>10, <1>11
<1> QED
  BY <1>12, <1>13

\* Powers of two are above their exponents.
LEMMA TwoToType == \A n \in 0 .. MaxLen : TwoTo[n] \in Nat /\ TwoTo[n] > n
<1> DEFINE K == [n \in 0 .. MaxLen |-> {x \in Nat : x > n}]
<1>1. MaxLen \in Nat
  BY QsortAssumption
<1>2. TwoTo[0] \in K[0]
  <2>1. 0 \in 0 .. MaxLen /\ 1 \in {x \in Nat : x > 0}
    BY <1>1
  <2>2. K[0] = {x \in Nat : x > 0}
    BY <2>1
  <2> QED
    BY <2>1, <2>2, TwoToIs
<1>3. ASSUME NEW n \in 1 .. MaxLen, TwoTo[n - 1] \in K[n - 1]  PROVE TwoTo[n] \in K[n]
  <2>1. n - 1 \in 0 .. MaxLen /\ n \in 0 .. MaxLen
    BY <1>1
  <2>2. TwoTo[n - 1] \in Nat /\ TwoTo[n - 1] > n - 1
    BY <1>3, <2>1
  <2>3. TwoTo[n] = 2 * TwoTo[n - 1]
    BY TwoToIs
  <2> QED
    BY <2>1, <2>2, <2>3
<1> HIDE DEF K
<1>4. \A n \in 0 .. MaxLen : TwoTo[n] \in K[n]
  BY <1>1, <1>2, <1>3, StepsKeep
<1> QED
  BY <1>4 DEF K

\* Sequences with the same elements, whatever their order.
LEMMA SameImage ==
  ASSUME NEW s, NEW t, DOMAIN t = DOMAIN s,
         \A k \in DOMAIN s : \E m \in DOMAIN s : t[k] = s[m],
         \A k \in DOMAIN s : \E m \in DOMAIN s : s[k] = t[m]
  PROVE  Elements(t) = Elements(s)
<1>1. ASSUME NEW v \in {t[k] : k \in DOMAIN t}  PROVE v \in {s[k] : k \in DOMAIN s}
  OBVIOUS
<1>2. ASSUME NEW v \in {s[k] : k \in DOMAIN s}  PROVE v \in {t[k] : k \in DOMAIN t}
  OBVIOUS
<1> QED
  BY <1>1, <1>2 DEF Elements

\* Exchanges keep the elements.
Exchange(s, x, y, t)  == t = [s EXCEPT ![x] = s[y], ![y] = s[x]]
Rotate(s, x, y, z, t) == t = [s EXCEPT ![x] = s[z], ![z] = s[y], ![y] = s[x]]

LEMMA Exchanged ==
  ASSUME NEW s \in Seq(Elem), NEW x \in 1 .. Len(s), NEW y \in 1 .. Len(s),
         NEW t, Exchange(s, x, y, t)
  PROVE  /\ t \in Seq(Elem) /\ Len(t) = Len(s)
         /\ t[x] = s[y] /\ t[y] = s[x]
         /\ \A k \in 1 .. Len(s) : k # x /\ k # y => t[k] = s[k]
         /\ Elements(t) = Elements(s)
<1>1. DOMAIN s = 1 .. Len(s) /\ DOMAIN t = 1 .. Len(s)
  BY DEF Exchange
<1>2. /\ t \in Seq(Elem) /\ Len(t) = Len(s)
      /\ t[x] = s[y] /\ t[y] = s[x]
      /\ \A k \in 1 .. Len(s) : k # x /\ k # y => t[k] = s[k]
  BY DEF Exchange
<1>3. \A k \in 1 .. Len(s) : \E m \in 1 .. Len(s) : t[k] = s[m]
  BY <1>2
<1>4. \A k \in 1 .. Len(s) : \E m \in 1 .. Len(s) : s[k] = t[m]
  BY <1>2
<1>5. Elements(t) = Elements(s)
  <2>1. /\ \A k \in DOMAIN s : \E m \in DOMAIN s : t[k] = s[m]
        /\ \A k \in DOMAIN s : \E m \in DOMAIN s : s[k] = t[m]
        /\ DOMAIN t = DOMAIN s
    BY <1>1, <1>3, <1>4
  <2> QED
    BY <2>1, SameImage
<1> QED
  BY <1>2, <1>5

LEMMA Rotated ==
  ASSUME NEW s \in Seq(Elem), NEW x \in 1 .. Len(s), NEW y \in 1 .. Len(s), NEW z \in 1 .. Len(s),
         x # y, x # z,
         NEW t, Rotate(s, x, y, z, t)
  PROVE  /\ t \in Seq(Elem) /\ Len(t) = Len(s)
         /\ t[y] = s[x] /\ t[x] = s[z] /\ (y # z => t[z] = s[y])
         /\ \A k \in 1 .. Len(s) : k \notin {x, y, z} => t[k] = s[k]
         /\ Elements(t) = Elements(s)
<1>1. DOMAIN s = 1 .. Len(s) /\ DOMAIN t = 1 .. Len(s)
  BY DEF Rotate
<1>2. t \in Seq(Elem) /\ Len(t) = Len(s)
  BY DEF Rotate
<1>3. /\ t[y] = s[x] /\ t[x] = s[z] /\ (y # z => t[z] = s[y])
      /\ \A k \in 1 .. Len(s) : k \notin {x, y, z} => t[k] = s[k]
  BY <1>1 DEF Rotate
<1>4. \A k \in 1 .. Len(s) : \E m \in 1 .. Len(s) : t[k] = s[m]
  BY <1>3
<1>5. \A k \in 1 .. Len(s) : \E m \in 1 .. Len(s) : s[k] = t[m]
  <2> SUFFICES ASSUME NEW k \in 1 .. Len(s) PROVE \E m \in 1 .. Len(s) : s[k] = t[m]
    OBVIOUS
  <2>1. CASE k = x
    BY <1>3, <2>1
  <2>2. CASE k = y
    BY <1>3, <2>2
  <2>3. CASE k = z /\ z # y
    BY <1>3, <2>3
  <2>4. CASE k \notin {x, y, z}
    BY <1>3, <2>4
  <2> QED
    BY <2>1, <2>2, <2>3, <2>4
<1>6. Elements(t) = Elements(s)
  <2>1. /\ \A k \in DOMAIN s : \E m \in DOMAIN s : t[k] = s[m]
        /\ \A k \in DOMAIN s : \E m \in DOMAIN s : s[k] = t[m]
        /\ DOMAIN t = DOMAIN s
    BY <1>1, <1>4, <1>5
  <2> QED
    BY <2>1, SameImage
<1> QED
  BY <1>2, <1>3, <1>6

\* Partitioned for an array and indices.
Parted(s, a, i, lp, hp, j, l) ==
  /\ a <= i /\ i <= lp /\ lp <= hp /\ hp <= j /\ j < l
  /\ \A k \in a .. i - 1 : s[k].key < s[lp].key
  /\ \A k \in lp .. hp : s[k].key = s[lp].key
  /\ \A k \in j + 1 .. l - 1 : s[k].key > s[lp].key

\* The places of an array that a pass looks at.
LEMMA PartedPlaces ==
  ASSUME NEW s \in Seq(Elem), NEW a \in Int, NEW i \in Int, NEW lp \in Int, NEW hp \in Int,
         NEW j \in Int, NEW l \in Int, 1 <= a, l <= Len(s) + 1,
         Parted(s, a, i, lp, hp, j, l)
  PROVE  /\ Len(s) \in Nat
         /\ a <= i /\ i <= lp /\ lp <= hp /\ hp <= j /\ j < l
         /\ i \in 1 .. Len(s) /\ lp \in 1 .. Len(s) /\ hp \in 1 .. Len(s) /\ j \in 1 .. Len(s)
         /\ \A k \in a .. i - 1 : k \in 1 .. Len(s) /\ k < i
         /\ \A k \in lp .. hp : k \in 1 .. Len(s) /\ lp <= k /\ k <= hp
         /\ \A k \in j + 1 .. l - 1 : k \in 1 .. Len(s) /\ k > j
<1>1. /\ Len(s) \in Nat
      /\ a <= i /\ i <= lp /\ lp <= hp /\ hp <= j /\ j < l
  BY DEF Parted
<1>2. /\ i \in 1 .. Len(s) /\ lp \in 1 .. Len(s) /\ hp \in 1 .. Len(s) /\ j \in 1 .. Len(s)
  BY <1>1
<1>3. \A k \in a .. i - 1 : k \in 1 .. Len(s) /\ k < i
  BY <1>1
<1>4. \A k \in lp .. hp : k \in 1 .. Len(s) /\ lp <= k /\ k <= hp
  BY <1>1
<1>5. \A k \in j + 1 .. l - 1 : k \in 1 .. Len(s) /\ k > j
  BY <1>1
<1> QED
  BY <1>1, <1>2, <1>3, <1>4, <1>5

LEMMA ElemKeys == ASSUME NEW s \in Seq(Elem)  PROVE \A k \in 1 .. Len(s) : s[k].key \in Int
<1>1. \A e \in Elem : e.key \in Int
  BY QsortAssumption DEF Elem
<1> QED
  BY <1>1

\* Another pivot, at i.
LEMMA PartedBelow ==
  ASSUME NEW s \in Seq(Elem), NEW a \in Int, NEW i \in Int, NEW lp \in Int, NEW hp \in Int,
         NEW j \in Int, NEW l \in Int, 1 <= a, l <= Len(s) + 1,
         Parted(s, a, i, lp, hp, j, l),
         i < lp, s[i].key = s[lp].key,
         NEW t, Exchange(s, i, lp - 1, t)
  PROVE  Parted(t, a, i, lp - 1, hp, j, l)
<1>1. /\ Len(s) \in Nat
      /\ a <= i /\ i <= lp /\ lp <= hp /\ hp <= j /\ j < l
  BY DEF Parted
<1>2. /\ i \in 1 .. Len(s) /\ lp \in 1 .. Len(s) /\ hp \in 1 .. Len(s) /\ j \in 1 .. Len(s)
      /\ lp - 1 \in 1 .. Len(s)
      /\ \A k \in a .. i - 1 : k \in 1 .. Len(s) /\ k < i
      /\ \A k \in lp .. hp : k \in 1 .. Len(s) /\ lp <= k /\ k <= hp
      /\ \A k \in j + 1 .. l - 1 : k \in 1 .. Len(s) /\ k > j
  <2>1. lp - 1 \in 1 .. Len(s)
    BY <1>1
  <2> QED
    BY <2>1, PartedPlaces
<1>3. /\ t[lp - 1] = s[i]
      /\ \A k \in 1 .. Len(s) : k # i /\ k # lp - 1 => t[k].key = s[k].key
  BY <1>2, Exchanged
<1>4. t[lp - 1].key = s[lp].key
  BY <1>3
<1>5. \A k \in a .. i - 1 : t[k].key < t[lp - 1].key
  <2>1. \A k \in a .. i - 1 : k # lp - 1 /\ k # i
    BY <1>1, <1>2
  <2> QED
    BY <1>2, <1>3, <1>4, <2>1 DEF Parted
<1>6. \A k \in lp - 1 .. hp : t[k].key = t[lp - 1].key
  <2>1. \A k \in lp - 1 .. hp : k = lp - 1 \/ (k \in lp .. hp /\ k # lp - 1 /\ k # i)
    BY <1>1
  <2> QED
    BY <1>2, <1>3, <1>4, <2>1 DEF Parted
<1>7. \A k \in j + 1 .. l - 1 : t[k].key > t[lp - 1].key
  <2>1. \A k \in j + 1 .. l - 1 : k # lp - 1 /\ k # i
    BY <1>1, <1>2
  <2> QED
    BY <1>2, <1>3, <1>4, <2>1 DEF Parted
<1> QED
  BY <1>1, <1>5, <1>6, <1>7 DEF Parted

\* i goes up past a lesser element.
LEMMA PartedLess ==
  ASSUME NEW s \in Seq(Elem), NEW a \in Int, NEW i \in Int, NEW lp \in Int, NEW hp \in Int,
         NEW j \in Int, NEW l \in Int, 1 <= a, l <= Len(s) + 1,
         Parted(s, a, i, lp, hp, j, l),
         i < lp, s[i].key < s[lp].key
  PROVE  Parted(s, a, i + 1, lp, hp, j, l)
<1>1. a <= i /\ i <= lp /\ lp <= hp /\ hp <= j /\ j < l
  BY DEF Parted
<1>2. \A k \in a .. i + 1 - 1 : k = i \/ k \in a .. i - 1
  OBVIOUS
<1>3. \A k \in a .. i - 1 : s[k].key < s[lp].key
  BY DEF Parted
<1>4. \A k \in a .. i + 1 - 1 : s[k].key < s[lp].key
  BY <1>2, <1>3
<1>5. /\ \A k \in lp .. hp : s[k].key = s[lp].key
      /\ \A k \in j + 1 .. l - 1 : s[k].key > s[lp].key
  BY DEF Parted
<1>6. a <= i + 1 /\ i + 1 <= lp
  BY <1>1
<1> QED
  BY <1>1, <1>4, <1>5, <1>6 DEF Parted

\* Another pivot, at j.
LEMMA PartedPivot ==
  ASSUME NEW s \in Seq(Elem), NEW a \in Int, NEW i \in Int, NEW lp \in Int, NEW hp \in Int,
         NEW j \in Int, NEW l \in Int, 1 <= a, l <= Len(s) + 1,
         Parted(s, a, i, lp, hp, j, l), 
         hp < j, s[hp].key = s[j].key,
         NEW t, Exchange(s, hp + 1, j, t)
  PROVE  /\ Parted(t, a, i, lp, hp + 1, j, l)
         /\ t[lp].key = s[lp].key /\ (i < lp => t[i].key = s[i].key)
<1>1. /\ Len(s) \in Nat
      /\ a <= i /\ i <= lp /\ lp <= hp /\ hp <= j /\ j < l
  BY DEF Parted
<1>2. /\ i \in 1 .. Len(s) /\ lp \in 1 .. Len(s) /\ hp \in 1 .. Len(s) /\ j \in 1 .. Len(s)
      /\ hp + 1 \in 1 .. Len(s)
      /\ \A k \in a .. i - 1 : k \in 1 .. Len(s) /\ k < i
      /\ \A k \in lp .. hp : k \in 1 .. Len(s) /\ lp <= k /\ k <= hp
      /\ \A k \in j + 1 .. l - 1 : k \in 1 .. Len(s) /\ k > j
  <2>1. hp + 1 \in 1 .. Len(s)
    BY <1>1
  <2> QED
    BY <2>1, PartedPlaces
<1>3. /\ t[hp + 1] = s[j]
      /\ \A k \in 1 .. Len(s) : k # hp + 1 /\ k # j => t[k].key = s[k].key
  BY <1>2, Exchanged
<1>4. s[hp].key = s[lp].key /\ t[hp + 1].key = s[lp].key
  BY <1>1, <1>2, <1>3 DEF Parted
<1>5. t[lp].key = s[lp].key /\ (i < lp => t[i].key = s[i].key)
  <2>1. lp # hp + 1 /\ lp # j /\ i # hp + 1 /\ i # j
    BY <1>1
  <2> QED
    BY <1>2, <1>3, <2>1
<1>6. \A k \in a .. i - 1 : t[k].key < t[lp].key
  <2>1. \A k \in a .. i - 1 : k # hp + 1 /\ k # j
    BY <1>1, <1>2
  <2> QED
    BY <1>2, <1>3, <1>5, <2>1 DEF Parted
<1>7. \A k \in lp .. hp + 1 : t[k].key = t[lp].key
  <2>1. \A k \in lp .. hp + 1 : k = hp + 1 \/ (k \in lp .. hp /\ k # hp + 1 /\ k # j)
    BY <1>1
  <2> QED
    BY <1>2, <1>3, <1>4, <1>5, <2>1 DEF Parted
<1>8. \A k \in j + 1 .. l - 1 : t[k].key > t[lp].key
  <2>1. \A k \in j + 1 .. l - 1 : k # hp + 1 /\ k # j
    BY <1>1, <1>2
  <2> QED
    BY <1>2, <1>3, <1>5, <2>1 DEF Parted
<1> QED
  BY <1>1, <1>5, <1>6, <1>7, <1>8 DEF Parted

\* j goes down past a greater element.
LEMMA PartedGreater ==
  ASSUME NEW s \in Seq(Elem), NEW a \in Int, NEW i \in Int, NEW lp \in Int, NEW hp \in Int,
         NEW j \in Int, NEW l \in Int, 1 <= a, l <= Len(s) + 1,
         Parted(s, a, i, lp, hp, j, l), 
         hp < j, s[hp].key < s[j].key
  PROVE  Parted(s, a, i, lp, hp, j - 1, l)
<1>1. /\ Len(s) \in Nat
      /\ a <= i /\ i <= lp /\ lp <= hp /\ hp <= j /\ j < l
  BY DEF Parted
<1>2. s[hp].key = s[lp].key
  BY <1>1 DEF Parted
<1>3. \A k \in j - 1 + 1 .. l - 1 : k = j \/ k \in j + 1 .. l - 1
  OBVIOUS
<1>4. \A k \in j - 1 + 1 .. l - 1 : s[k].key > s[lp].key
  <2>1. s[j].key > s[lp].key
    BY <1>1, <1>2, ElemKeys, PartedPlaces
  <2> QED
    BY <1>3, <2>1 DEF Parted
<1> QED
  BY <1>1, <1>4 DEF Parted

\* All below the pivots are less: the pivots move up and leave room for a lesser one.
LEMMA PartedLesser ==
  ASSUME NEW s \in Seq(Elem), NEW a \in Int, NEW i \in Int, NEW lp \in Int, NEW hp \in Int,
         NEW j \in Int, NEW l \in Int, 1 <= a, l <= Len(s) + 1,
         Parted(s, a, i, lp, hp, j, l), 
         hp < j, i = lp, s[hp].key > s[j].key,
         NEW t, Rotate(s, i, hp + 1, j, t)
  PROVE  Parted(t, a, i + 1, lp + 1, hp + 1, j, l)
<1>1. /\ Len(s) \in Nat
      /\ a <= i /\ i <= lp /\ lp <= hp /\ hp <= j /\ j < l
  BY DEF Parted
<1>2. /\ i \in 1 .. Len(s) /\ lp \in 1 .. Len(s) /\ hp \in 1 .. Len(s) /\ j \in 1 .. Len(s)
      /\ hp + 1 \in 1 .. Len(s)
      /\ \A k \in a .. i - 1 : k \in 1 .. Len(s) /\ k < i
      /\ \A k \in lp .. hp : k \in 1 .. Len(s) /\ lp <= k /\ k <= hp
      /\ \A k \in j + 1 .. l - 1 : k \in 1 .. Len(s) /\ k > j
  <2>1. hp + 1 \in 1 .. Len(s)
    BY <1>1
  <2> QED
    BY <2>1, PartedPlaces
<1>3. i # hp + 1 /\ i # j
  BY <1>1
<1>4. /\ t[hp + 1] = s[i] /\ t[i] = s[j]
      /\ \A k \in 1 .. Len(s) : k # i /\ k # hp + 1 /\ k # j => t[k].key = s[k].key
  BY <1>2, <1>3, Rotated
<1>5. s[hp].key = s[lp].key /\ t[hp + 1].key = s[lp].key
  BY <1>1, <1>4 DEF Parted
<1>6. \A k \in lp + 1 .. hp + 1 : t[k].key = s[lp].key
  <2>1. \A k \in lp + 1 .. hp + 1 :
          k = hp + 1 \/ (k \in lp .. hp /\ k # i /\ k # hp + 1 /\ k # j)
    BY <1>1
  <2> QED
    BY <1>2, <1>4, <1>5, <2>1 DEF Parted
<1>7. t[lp + 1].key = s[lp].key
  BY <1>1, <1>6
<1>8. \A k \in a .. i + 1 - 1 : t[k].key < t[lp + 1].key
  <2>1. \A k \in a .. i + 1 - 1 : k = i \/ (k \in a .. i - 1 /\ k # i /\ k # hp + 1 /\ k # j)
    BY <1>1
  <2>2. t[i].key < s[lp].key
    BY <1>2, <1>4, <1>5, ElemKeys
  <2> QED
    BY <1>2, <1>4, <1>7, <2>1, <2>2 DEF Parted
<1>9. \A k \in j + 1 .. l - 1 : t[k].key > t[lp + 1].key
  <2>1. \A k \in j + 1 .. l - 1 : k # i /\ k # hp + 1 /\ k # j
    BY <1>1, <1>2
  <2> QED
    BY <1>2, <1>4, <1>7, <2>1 DEF Parted
<1> QED
  BY <1>1, <1>6, <1>7, <1>8, <1>9 DEF Parted

\* The greater one at i and the lesser one at j change places.
LEMMA PartedBoth ==
  ASSUME NEW s \in Seq(Elem), NEW a \in Int, NEW i \in Int, NEW lp \in Int, NEW hp \in Int,
         NEW j \in Int, NEW l \in Int, 1 <= a, l <= Len(s) + 1,
         Parted(s, a, i, lp, hp, j, l), 
         hp < j, i < lp, s[i].key > s[lp].key, s[hp].key > s[j].key,
         NEW t, Exchange(s, i, j, t)
  PROVE  Parted(t, a, i + 1, lp, hp, j - 1, l)
<1>1. /\ Len(s) \in Nat
      /\ a <= i /\ i <= lp /\ lp <= hp /\ hp <= j /\ j < l
  BY DEF Parted
<1>2. /\ i \in 1 .. Len(s) /\ lp \in 1 .. Len(s) /\ hp \in 1 .. Len(s) /\ j \in 1 .. Len(s)
      /\ \A k \in a .. i - 1 : k \in 1 .. Len(s) /\ k < i
      /\ \A k \in lp .. hp : k \in 1 .. Len(s) /\ lp <= k /\ k <= hp
      /\ \A k \in j + 1 .. l - 1 : k \in 1 .. Len(s) /\ k > j
  BY PartedPlaces
<1>3. /\ t[i] = s[j] /\ t[j] = s[i]
      /\ \A k \in 1 .. Len(s) : k # i /\ k # j => t[k].key = s[k].key
  <2>1. /\ t[i] = s[j] /\ t[j] = s[i]
        /\ \A k \in 1 .. Len(s) : k # i /\ k # j => t[k] = s[k]
    BY <1>2, Exchanged
  <2> QED
    BY <2>1
<1>4. s[hp].key = s[lp].key /\ t[lp].key = s[lp].key
  BY <1>1, <1>2, <1>3 DEF Parted
<1>5. \A k \in a .. i + 1 - 1 : t[k].key < t[lp].key
  <2>1. \A k \in a .. i + 1 - 1 : k = i \/ (k \in a .. i - 1 /\ k # i /\ k # j)
    BY <1>1
  <2>2. t[i].key < s[lp].key
    BY <1>2, <1>3, <1>4, ElemKeys
  <2> QED
    BY <1>2, <1>3, <1>4, <2>1, <2>2 DEF Parted
<1>6. \A k \in lp .. hp : t[k].key = t[lp].key
  <2>1. \A k \in lp .. hp : k # i /\ k # j
    BY <1>1, <1>2
  <2> QED
    BY <1>2, <1>3, <1>4, <2>1 DEF Parted
<1>7. \A k \in j - 1 + 1 .. l - 1 : t[k].key > t[lp].key
  <2>1. \A k \in j - 1 + 1 .. l - 1 : k = j \/ (k \in j + 1 .. l - 1 /\ k # i /\ k # j)
    BY <1>1
  <2> QED
    BY <1>2, <1>3, <1>4, <2>1 DEF Parted
<1> QED
  BY <1>1, <1>5, <1>6, <1>7 DEF Parted

\* The pivots move down to make room for the greater one at i.
LEMMA PartedShift ==
  ASSUME NEW s \in Seq(Elem), NEW a \in Int, NEW i \in Int, NEW lp \in Int, NEW hp \in Int,
         NEW j \in Int, NEW l \in Int, 1 <= a, l <= Len(s) + 1,
         Parted(s, a, i, lp, hp, j, l), 
         j = hp, i < lp, s[i].key > s[lp].key,
         NEW t, Rotate(s, j, lp - 1, i, t)
  PROVE  Parted(t, a, i, lp - 1, hp - 1, hp - 1, l)
<1>1. /\ Len(s) \in Nat
      /\ a <= i /\ i <= lp /\ lp <= hp /\ hp <= j /\ j < l
  BY DEF Parted
<1>2. /\ i \in 1 .. Len(s) /\ lp \in 1 .. Len(s) /\ hp \in 1 .. Len(s) /\ j \in 1 .. Len(s)
      /\ lp - 1 \in 1 .. Len(s)
      /\ \A k \in a .. i - 1 : k \in 1 .. Len(s) /\ k < i
      /\ \A k \in lp .. hp : k \in 1 .. Len(s) /\ lp <= k /\ k <= hp
      /\ \A k \in j + 1 .. l - 1 : k \in 1 .. Len(s) /\ k > j
  <2>1. lp - 1 \in 1 .. Len(s)
    BY <1>1
  <2>2. /\ i \in 1 .. Len(s) /\ lp \in 1 .. Len(s) /\ hp \in 1 .. Len(s) /\ j \in 1 .. Len(s)
        /\ \A k \in a .. i - 1 : k \in 1 .. Len(s) /\ k < i
        /\ \A k \in lp .. hp : k \in 1 .. Len(s) /\ lp <= k /\ k <= hp
        /\ \A k \in j + 1 .. l - 1 : k \in 1 .. Len(s) /\ k > j
    BY PartedPlaces
  <2> QED
    BY <2>1, <2>2
<1>3. j # lp - 1 /\ j # i
  BY <1>1
<1>4. /\ t[lp - 1] = s[j] /\ t[j] = s[i]
      /\ \A k \in 1 .. Len(s) : k # j /\ k # lp - 1 /\ k # i => t[k].key = s[k].key
  BY <1>2, <1>3, Rotated
<1>5. t[lp - 1].key = s[lp].key
  BY <1>1, <1>4 DEF Parted
<1>6. \A k \in a .. i - 1 : t[k].key < t[lp - 1].key
  <2>1. \A k \in a .. i - 1 : k # j /\ k # lp - 1 /\ k # i
    BY <1>1, <1>2
  <2> QED
    BY <1>2, <1>4, <1>5, <2>1 DEF Parted
<1>7. \A k \in lp - 1 .. hp - 1 : t[k].key = t[lp - 1].key
  <2>1. \A k \in lp - 1 .. hp - 1 : k = lp - 1 \/ (k \in lp .. hp /\ k # j /\ k # lp - 1 /\ k # i)
    BY <1>1
  <2> QED
    BY <1>2, <1>4, <1>5, <2>1 DEF Parted
<1>8. \A k \in hp - 1 + 1 .. l - 1 : t[k].key > t[lp - 1].key
  <2>1. \A k \in hp - 1 + 1 .. l - 1 : k = j \/ (k \in j + 1 .. l - 1 /\ k # j /\ k # lp - 1 /\ k # i)
    BY <1>1
  <2> QED
    BY <1>2, <1>4, <1>5, <2>1 DEF Parted
<1> QED
  BY <1>1, <1>6, <1>7, <1>8 DEF Parted

-----------------------------------------------------------------------------
(* A pass over the current piece *)

LEMMA WithinIs ==
  ASSUME NEW P, NEW x \in Int
  PROVE  /\ Within(P, x) => P.a <= x /\ x < P.l
         /\ ~Within(P, x) => ~(P.a <= x /\ x < P.l)
  BY DEF Within

LEMMA PassFacts ==
  ASSUME SortInv, sort.at \in {"up", "down"}
  PROVE  /\ sort.a \in Int /\ sort.l \in Int /\ sort.i \in Int /\ sort.j \in Int
         /\ sort.lp \in Int /\ sort.hp \in Int /\ Len(arr) \in Nat /\ arr \in Seq(Elem)
         /\ 1 <= sort.a /\ sort.l <= Len(arr) + 1
         /\ sort.a <= sort.i /\ sort.i <= sort.lp /\ sort.lp <= sort.hp
         /\ sort.hp <= sort.j /\ sort.j < sort.l
         /\ \A k \in Int : Within(sort, k) => k \in 1 .. Len(arr)
         /\ \A k \in 1 .. Len(arr) : arr[k].key \in Int
         /\ Parted(arr, sort.a, sort.i, sort.lp, sort.hp, sort.j, sort.l)
<1>1. /\ sort \in Frame /\ arr \in Seq(Elem) /\ Len(calls) \in Nat /\ Len(arr) \in Nat
  BY DEF SortInv, QTypes
<1>2. /\ sort.a \in Int /\ sort.l \in Int /\ sort.i \in Int /\ sort.j \in Int
      /\ sort.lp \in Int /\ sort.hp \in Int
  BY <1>1 DEF Frame
<1>3. 1 <= sort.a /\ sort.a <= sort.l /\ sort.l <= Len(arr) + 1
  BY <1>1 DEF SortInv, PiecesFit, Nth
<1>4. Parted(arr, sort.a, sort.i, sort.lp, sort.hp, sort.j, sort.l)
  BY DEF SortInv, Partitioned, Parted
<1>5. \A k \in Int : Within(sort, k) => k \in 1 .. Len(arr)
  BY <1>1, <1>2, <1>3 DEF Within
<1>6. \A k \in 1 .. Len(arr) : arr[k].key \in Int
  BY <1>1, ElemKeys
<1> QED
  BY <1>1, <1>2, <1>3, <1>4, <1>5, <1>6 DEF Parted

\* Moving elements within the current piece leaves the rest as it is.
LEMMA PieceMoves ==
  ASSUME SortInv, UNCHANGED <<calls, given>>, sort' \in Frame,
         sort'.a = sort.a, sort'.l = sort.l, sort'.at \in {"up", "down"},
         arr' \in Seq(Elem), Len(arr') = Len(arr), Elements(arr') = Elements(arr),
         \A k \in 1 .. Len(arr) : ~Within(sort, k) => arr'[k] = arr[k],
         \A k \in 1 .. Len(arr) : Within(sort, k) =>
           \E m \in 1 .. Len(arr) : Within(sort, m) /\ arr'[k] = arr[m]
  PROVE  /\ QTypes' /\ SameElements' /\ PiecesFit' /\ PiecesApart' /\ OrderElsewhere'
         /\ AtEnd' /\ Nested'
<1>1. QTypes'
  BY DEF SortInv, QTypes
<1>2. SameElements'
  BY DEF SortInv, SameElements
<1>3. \A k \in 0 .. Len(calls) : Nth(k)'.a = Nth(k).a /\ Nth(k)'.l = Nth(k).l
  BY DEF Nth
<1>4. \A k \in 0 .. Len(calls) : \A x : Within(Nth(k), x)' <=> Within(Nth(k), x)
  BY <1>3 DEF Within
<1>5. PiecesFit'
  BY <1>3 DEF SortInv, PiecesFit
<1>6. PiecesApart'
  BY <1>3 DEF SortInv, PiecesApart
<1>7. AtEnd'
  BY DEF AtEnd
<1>8. Nested'
  BY DEF SortInv, Nested, Length
<1>9. OrderElsewhere'
  <2>1. /\ Len(calls) \in Nat /\ Len(arr) \in Nat /\ 0 \in 0 .. Len(calls) /\ Nth(0) = sort
        /\ \A k \in 0 .. Len(calls) : Nth(k).a \in Int /\ Nth(k).l \in Int
    <3>1. sort \in Frame /\ calls \in Seq(Frame) /\ arr \in Seq(Elem)
      BY DEF SortInv, QTypes
    <3>2. Len(calls) \in Nat /\ \A k \in 1 .. Len(calls) : calls[k] \in Frame
      BY <3>1
    <3>3. \A k \in 0 .. Len(calls) : Nth(k) \in Frame
      BY <3>1, <3>2 DEF Nth
    <3>4. \A c \in Frame : c.a \in Int /\ c.l \in Int
      BY DEF Frame
    <3> QED
      BY <3>1, <3>2, <3>3, <3>4 DEF Nth
  <2> SUFFICES ASSUME NEW x \in 1 .. Len(arr), NEW y \in 1 .. Len(arr), x < y
               PROVE  \/ arr'[x].key <= arr'[y].key
                      \/ \E k \in 0 .. Len(calls) : Within(Nth(k), x) /\ Within(Nth(k), y)
    BY <1>4 DEF OrderElsewhere
  <2>2. \A p, q \in 1 .. Len(arr) : p < q =>
          \/ arr[p].key <= arr[q].key
          \/ \E k \in 0 .. Len(calls) : Within(Nth(k), p) /\ Within(Nth(k), q)
    BY DEF SortInv, OrderElsewhere
  <2>3. \A p, q \in 1 .. Len(arr) : \A k \in 0 .. Len(calls) :
          Within(sort, p) /\ ~Within(sort, q) => ~(Within(Nth(k), p) /\ Within(Nth(k), q))
    <3> SUFFICES ASSUME NEW p \in 1 .. Len(arr), NEW q \in 1 .. Len(arr), NEW k \in 0 .. Len(calls),
                        Within(sort, p), ~Within(sort, q), Within(Nth(k), p), Within(Nth(k), q)
                 PROVE  FALSE
      OBVIOUS
    <3>1. k # 0
      BY <2>1
    <3>2. sort.l <= Nth(k).a \/ Nth(k).l <= sort.a
      BY <2>1, <3>1 DEF SortInv, PiecesApart
    <3>3. sort.a \in Int /\ sort.l \in Int /\ Nth(k).a \in Int /\ Nth(k).l \in Int
      BY <2>1
    <3> QED
      <4>1. p \in Int
        BY <2>1
      <4>2. sort.a <= p /\ p < sort.l /\ Nth(k).a <= p /\ p < Nth(k).l
        BY <4>1, WithinIs
      <4>3. ~(sort.l <= Nth(k).a)
        BY <3>3, <4>1, <4>2, SMTT(30)
      <4>4. ~(Nth(k).l <= sort.a)
        BY <3>3, <4>1, <4>2, SMTT(30)
      <4> QED
        BY <3>2, <4>3, <4>4
  <2>4. CASE Within(sort, x) /\ Within(sort, y)
    BY <2>1, <2>4
  <2>5. CASE ~Within(sort, x) /\ ~Within(sort, y)
    BY <2>2, <2>5
  <2>6. CASE Within(sort, x) /\ ~Within(sort, y)
    <3>1. PICK m \in 1 .. Len(arr) : Within(sort, m) /\ arr'[x] = arr[m]
      BY <2>6
    <3>2. m < y
      <4>1. sort.a \in Int /\ sort.l \in Int /\ x \in Int /\ y \in Int /\ m \in Int
        BY <2>1
      <4>2. sort.a <= x /\ sort.a <= m /\ x < sort.l /\ m < sort.l /\ ~(sort.a <= y /\ y < sort.l)
        BY <2>6, <3>1, <4>1, WithinIs
      <4> QED
        BY <4>1, <4>2
    <3> QED
      BY <2>2, <2>3, <2>6, <3>1, <3>2
  <2>7. CASE ~Within(sort, x) /\ Within(sort, y)
    <3>1. PICK m \in 1 .. Len(arr) : Within(sort, m) /\ arr'[y] = arr[m]
      BY <2>7
    <3>2. x < m
      <4>1. sort.a \in Int /\ sort.l \in Int /\ x \in Int /\ y \in Int /\ m \in Int
        BY <2>1
      <4>2. sort.a <= y /\ sort.a <= m /\ y < sort.l /\ m < sort.l /\ ~(sort.a <= x /\ x < sort.l)
        BY <2>7, <3>1, <4>1, WithinIs
      <4> QED
        BY <4>1, <4>2
    <3> QED
      BY <2>2, <2>3, <2>7, <3>1, <3>2
  <2> QED
    BY <2>4, <2>5, <2>6, <2>7
<1> QED
  BY <1>1, <1>2, <1>5, <1>6, <1>7, <1>8, <1>9

\* Exchanges within the piece are such moves.
LEMMA ExchangeMoves ==
  ASSUME SortInv, sort.at \in {"up", "down"}, UNCHANGED <<calls, given>>, sort' \in Frame,
         sort'.a = sort.a, sort'.l = sort.l, sort'.at \in {"up", "down"},
         NEW x \in Int, NEW y \in Int, Within(sort, x), Within(sort, y), qsexc(x, y),
         Partitioned', AtI'
  PROVE  SortInv'
<1>1. x \in 1 .. Len(arr) /\ y \in 1 .. Len(arr) /\ arr \in Seq(Elem)
  BY PassFacts DEF SortInv, QTypes
<1>2. Exchange(arr, x, y, arr')
  BY DEF qsexc, Exchange
<1>3. /\ arr' \in Seq(Elem) /\ Len(arr') = Len(arr) /\ Elements(arr') = Elements(arr)
      /\ arr'[x] = arr[y] /\ arr'[y] = arr[x]
      /\ \A k \in 1 .. Len(arr) : k # x /\ k # y => arr'[k] = arr[k]
  BY <1>1, <1>2, Exchanged
<1>4. /\ \A k \in 1 .. Len(arr) : ~Within(sort, k) => arr'[k] = arr[k]
      /\ \A k \in 1 .. Len(arr) : Within(sort, k) =>
           \E m \in 1 .. Len(arr) : Within(sort, m) /\ arr'[k] = arr[m]
  BY <1>1, <1>3
<1> QED
  BY <1>3, <1>4, PieceMoves DEF SortInv

LEMMA RotateMoves ==
  ASSUME SortInv, sort.at \in {"up", "down"}, UNCHANGED <<calls, given>>, sort' \in Frame,
         sort'.a = sort.a, sort'.l = sort.l, sort'.at \in {"up", "down"},
         NEW x \in Int, NEW y \in Int, NEW z \in Int, x # y, x # z,
         Within(sort, x), Within(sort, y), Within(sort, z), qstexc(x, y, z),
         Partitioned', AtI'
  PROVE  SortInv'
<1>1. /\ x \in 1 .. Len(arr) /\ y \in 1 .. Len(arr) /\ z \in 1 .. Len(arr)
      /\ arr \in Seq(Elem)
  BY PassFacts DEF SortInv, QTypes
<1>2. Rotate(arr, x, y, z, arr')
  BY DEF qstexc, Rotate
<1>3. /\ arr' \in Seq(Elem) /\ Len(arr') = Len(arr) /\ Elements(arr') = Elements(arr)
      /\ arr'[y] = arr[x] /\ arr'[x] = arr[z] /\ (y # z => arr'[z] = arr[y])
      /\ \A k \in 1 .. Len(arr) : k \notin {x, y, z} => arr'[k] = arr[k]
  BY <1>1, <1>2, Rotated
<1>4. /\ \A k \in 1 .. Len(arr) : ~Within(sort, k) => arr'[k] = arr[k]
      /\ \A k \in 1 .. Len(arr) : Within(sort, k) =>
           \E m \in 1 .. Len(arr) : Within(sort, m) /\ arr'[k] = arr[m]
  BY <1>1, <1>3
<1> QED
  BY <1>3, <1>4, PieceMoves DEF SortInv

\* Nothing moves.
LEMMA NothingMoves ==
  ASSUME SortInv, UNCHANGED <<arr, calls, given>>, sort' \in Frame,
         sort'.a = sort.a, sort'.l = sort.l, sort'.at \in {"up", "down"},
         Partitioned', AtI'
  PROVE  SortInv'
<1>1. arr \in Seq(Elem)
  BY DEF SortInv, QTypes
<1> QED
  BY <1>1, PieceMoves DEF SortInv

\* What a pass has established once sort and arr have changed.
LEMMA PassDone ==
  ASSUME NEW i, NEW lp, NEW hp, NEW j,
         sort'.at \in {"up", "down"}, sort'.a = sort.a, sort'.l = sort.l,
         sort'.i = i, sort'.lp = lp, sort'.hp = hp, sort'.j = j,
         Parted(arr', sort.a, i, lp, hp, j, sort.l)
  PROVE  Partitioned'
  BY DEF Partitioned, Parted

LEMMA SortInvPivot ==
  ASSUME SortInv, Pivot, UNCHANGED given
  PROVE  SortInv'
<1>1. sort \in Frame /\ sort.at = "start" /\ sort.l - sort.a > 1 /\ UNCHANGED <<arr, calls>>
  BY DEF SortInv, QTypes, Pivot
<1>2. sort.a \in Int /\ sort.l \in Int
  BY <1>1 DEF Frame
<1> DEFINE n == sort.l - sort.a
           m == sort.a + n \div 2
<1>3. n \in Int /\ n > 1 /\ m \in Int /\ sort.a <= m /\ m <= sort.l - 1
  BY <1>1, <1>2
<1>4. sort' = [sort EXCEPT !.at = "up", !.i = sort.a, !.j = sort.l - 1, !.lp = m, !.hp = m]
  BY DEF Pivot
<1> HIDE DEF m, n
<1>5. /\ sort' \in Frame /\ sort'.at = "up" /\ sort'.a = sort.a /\ sort'.l = sort.l
      /\ sort'.i = sort.a /\ sort'.j = sort.l - 1 /\ sort'.lp = m /\ sort'.hp = m
  <2>1. /\ sort'.at = "up" /\ sort'.a = sort.a /\ sort'.l = sort.l
        /\ sort'.i = sort.a /\ sort'.j = sort.l - 1 /\ sort'.lp = m /\ sort'.hp = m
    BY <1>1, <1>4 DEF Frame
  <2>2. sort' = [at |-> "up", a |-> sort.a, l |-> sort.l, i |-> sort.a, j |-> sort.l - 1,
                 lp |-> m, hp |-> m]
    BY <1>1, <1>4 DEF Frame
  <2>3. sort' \in Frame
    BY <1>2, <1>3, <2>2 DEF Frame
  <2> QED
    BY <2>1, <2>3
<1>6. Parted(arr, sort.a, sort.a, m, m, sort.l - 1, sort.l)
  <2>1. \A k \in sort.a .. sort.a - 1 : FALSE
    BY <1>2
  <2>2. \A k \in m .. m : k = m
    BY <1>3
  <2>3. \A k \in sort.l - 1 + 1 .. sort.l - 1 : FALSE
    BY <1>2
  <2> QED
    BY <1>2, <1>3, <2>1, <2>2, <2>3 DEF Parted
<1>7. Partitioned'
  BY <1>1, <1>5, <1>6, PassDone
<1>8. AtI'
  BY <1>5 DEF AtI
<1> QED
  BY <1>1, <1>5, <1>7, <1>8, NothingMoves

LEMMA SortInvUp ==
  ASSUME SortInv, Up, UNCHANGED given
  PROVE  SortInv'
<1>1. sort.at = "up" /\ UNCHANGED calls /\ sort \in Frame
  BY DEF SortInv, QTypes, Up
<1> DEFINE a == sort.a  i == sort.i  lp == sort.lp  hp == sort.hp  j == sort.j  l == sort.l
<1>2. /\ a \in Int /\ l \in Int /\ i \in Int /\ j \in Int /\ lp \in Int /\ hp \in Int
      /\ Len(arr) \in Nat /\ arr \in Seq(Elem)
      /\ 1 <= a /\ l <= Len(arr) + 1
      /\ a <= i /\ i <= lp /\ lp <= hp /\ hp <= j /\ j < l
  BY <1>1, PassFacts
<1>3. /\ Parted(arr, a, i, lp, hp, j, l)
      /\ \A k \in 1 .. Len(arr) : arr[k].key \in Int
  BY <1>1, PassFacts
<1>4. CASE i < lp /\ qscmp(i, lp) = 0 /\ sort' = [sort EXCEPT !.lp = @ - 1] /\ qsexc(i, lp - 1)
  <2>1. /\ sort' \in Frame /\ sort'.at = "up" /\ sort'.a = a /\ sort'.l = l
        /\ sort'.i = i /\ sort'.j = j /\ sort'.lp = lp - 1 /\ sort'.hp = hp
    BY <1>1, <1>2, <1>4 DEF Frame
  <2>2. i \in 1 .. Len(arr) /\ lp \in 1 .. Len(arr) /\ Within(sort, i) /\ Within(sort, lp - 1)
    BY <1>2, <1>4 DEF Within
  <2>3. arr[i].key = arr[lp].key
    BY <1>3, <1>4, <2>2 DEF qscmp
  <2>4. Exchange(arr, i, lp - 1, arr') /\ i < lp /\ qsexc(i, lp - 1)
    BY <1>4 DEF qsexc, Exchange
  <2>5. Parted(arr', a, i, lp - 1, hp, j, l)
    BY <1>2, <1>3, <2>3, <2>4, PartedBelow
  <2>6. Partitioned'
    BY <2>1, <2>5, PassDone
  <2>7. AtI'
    BY <2>1 DEF AtI
  <2> QED
    BY <1>1, <1>2, <2>1, <2>2, <2>4, <2>6, <2>7, ExchangeMoves
<1>5. CASE i < lp /\ qscmp(i, lp) < 0 /\ sort' = [sort EXCEPT !.i = @ + 1] /\ UNCHANGED arr
  <2>1. /\ sort' \in Frame /\ sort'.at = "up" /\ sort'.a = a /\ sort'.l = l
        /\ sort'.i = i + 1 /\ sort'.j = j /\ sort'.lp = lp /\ sort'.hp = hp
    BY <1>1, <1>2, <1>5 DEF Frame
  <2>2. i \in 1 .. Len(arr) /\ lp \in 1 .. Len(arr) /\ i < lp /\ UNCHANGED arr
    BY <1>2, <1>5
  <2>3. arr[i].key < arr[lp].key
    BY <1>3, <1>5, <2>2 DEF qscmp
  <2>4. Parted(arr, a, i + 1, lp, hp, j, l)
    BY <1>2, <1>3, <2>2, <2>3, PartedLess
  <2>5. Partitioned'
    BY <2>1, <2>2, <2>4, PassDone
  <2>6. AtI'
    BY <2>1 DEF AtI
  <2> QED
    BY <1>1, <2>1, <2>2, <2>5, <2>6, NothingMoves
<1>6. CASE /\ ~(i < lp) \/ qscmp(i, lp) > 0
           /\ sort' = [sort EXCEPT !.at = "down"] /\ UNCHANGED arr
  <2>1. /\ sort' \in Frame /\ sort'.at = "down" /\ sort'.a = a /\ sort'.l = l
        /\ sort'.i = i /\ sort'.j = j /\ sort'.lp = lp /\ sort'.hp = hp /\ UNCHANGED arr
    BY <1>1, <1>2, <1>6 DEF Frame
  <2>2. Partitioned'
    BY <1>3, <2>1, PassDone
  <2>3. ASSUME i < lp  PROVE arr[i].key > arr[lp].key
    <3>1. i \in 1 .. Len(arr) /\ lp \in 1 .. Len(arr)
      BY <1>2
    <3> QED
      BY <1>3, <1>6, <2>3, <3>1 DEF qscmp
  <2>4. AtI'
    BY <2>1, <2>3 DEF AtI
  <2> QED
    BY <1>1, <2>1, <2>2, <2>4, NothingMoves
<1> QED
  BY <1>4, <1>5, <1>6 DEF Up

LEMMA SortInvDown ==
  ASSUME SortInv, Down, UNCHANGED given
  PROVE  SortInv'
<1>1. sort.at = "down" /\ sort.j > sort.hp /\ UNCHANGED calls /\ sort \in Frame
  BY DEF SortInv, QTypes, Down
<1> DEFINE a == sort.a  i == sort.i  lp == sort.lp  hp == sort.hp  j == sort.j  l == sort.l
<1>2. /\ a \in Int /\ l \in Int /\ i \in Int /\ j \in Int /\ lp \in Int /\ hp \in Int
      /\ Len(arr) \in Nat /\ arr \in Seq(Elem)
      /\ 1 <= a /\ l <= Len(arr) + 1
      /\ a <= i /\ i <= lp /\ lp <= hp /\ hp <= j /\ j < l
  BY <1>1, PassFacts
<1>3. /\ Parted(arr, a, i, lp, hp, j, l)
      /\ \A k \in 1 .. Len(arr) : arr[k].key \in Int
  BY <1>1, PassFacts
<1>4. hp < j /\ hp \in 1 .. Len(arr) /\ j \in 1 .. Len(arr) /\ i \in 1 .. Len(arr) /\ lp \in 1 .. Len(arr)
  BY <1>1, <1>2
<1>5. AtI
  BY DEF SortInv
<1>6. Within(sort, i) /\ Within(sort, hp + 1) /\ Within(sort, j)
  BY <1>2, <1>4 DEF Within
<1>7. CASE qscmp(hp, j) = 0 /\ sort' = [sort EXCEPT !.hp = @ + 1] /\ qsexc(hp + 1, j)
  <2>1. /\ sort' \in Frame /\ sort'.at = "down" /\ sort'.a = a /\ sort'.l = l
        /\ sort'.i = i /\ sort'.j = j /\ sort'.lp = lp /\ sort'.hp = hp + 1
    BY <1>1, <1>2, <1>7 DEF Frame
  <2>2. arr[hp].key = arr[j].key
    BY <1>3, <1>4, <1>7 DEF qscmp
  <2>3. Exchange(arr, hp + 1, j, arr') /\ qsexc(hp + 1, j)
    BY <1>7 DEF qsexc, Exchange
  <2>4. /\ Parted(arr', a, i, lp, hp + 1, j, l)
        /\ arr'[lp].key = arr[lp].key /\ (i < lp => arr'[i].key = arr[i].key)
    <3> HIDE DEF a, i, lp, hp, j, l
    <3> QED
      BY <1>2, <1>3, <1>4, <2>2, <2>3, PartedPivot
  <2>5. Partitioned'
    BY <2>1, <2>4, PassDone
  <2>6. AtI'
    BY <1>1, <1>5, <2>1, <2>4 DEF AtI
  <2> QED
    BY <1>1, <1>2, <1>6, <2>1, <2>3, <2>5, <2>6, ExchangeMoves
<1>8. CASE qscmp(hp, j) < 0 /\ sort' = [sort EXCEPT !.j = @ - 1] /\ UNCHANGED arr
  <2>1. /\ sort' \in Frame /\ sort'.at = "down" /\ sort'.a = a /\ sort'.l = l
        /\ sort'.i = i /\ sort'.j = j - 1 /\ sort'.lp = lp /\ sort'.hp = hp /\ UNCHANGED arr
    BY <1>1, <1>2, <1>8 DEF Frame
  <2>2. arr[hp].key < arr[j].key
    BY <1>3, <1>4, <1>8 DEF qscmp
  <2>3. Parted(arr, a, i, lp, hp, j - 1, l)
    BY <1>2, <1>3, <1>4, <2>2, PartedGreater
  <2>4. Partitioned'
    BY <2>1, <2>3, PassDone
  <2>5. AtI'
    BY <1>1, <1>5, <2>1 DEF AtI
  <2> QED
    BY <1>1, <2>1, <2>4, <2>5, NothingMoves
<1>9. CASE qscmp(hp, j) > 0 /\ Down1(i, j)
  <2>1. arr[hp].key > arr[j].key
    BY <1>3, <1>4, <1>9 DEF qscmp
  <2>2. CASE i = lp
    <3>1. /\ sort' = [sort EXCEPT !.hp = @ + 1, !.lp = @ + 1, !.i = @ + 1]
          /\ qstexc(i, hp + 1, j)
      BY <1>9, <2>2 DEF Down1
    <3>2. /\ sort' \in Frame /\ sort'.at = "down" /\ sort'.a = a /\ sort'.l = l
          /\ sort'.i = i + 1 /\ sort'.j = j /\ sort'.lp = lp + 1 /\ sort'.hp = hp + 1
      <4>1. sort' = [at |-> "down", a |-> a, l |-> l, i |-> i + 1, j |-> j, lp |-> lp + 1, hp |-> hp + 1]
        BY <1>1, <3>1 DEF Frame
      <4> QED
        BY <1>2, <4>1 DEF Frame
    <3>3. Rotate(arr, i, hp + 1, j, arr') /\ qstexc(i, hp + 1, j)
      BY <3>1 DEF qstexc, Rotate
    <3>4. Parted(arr', a, i + 1, lp + 1, hp + 1, j, l)
      BY <1>2, <1>3, <1>4, <2>1, <2>2, <3>3, PartedLesser
    <3>5. Partitioned'
      BY <3>2, <3>4, PassDone
    <3>6. AtI'
      BY <1>2, <2>2, <3>2 DEF AtI
    <3>7. i # hp + 1 /\ i # j
      BY <1>2, <1>4
    <3> QED
      BY <1>1, <1>2, <1>6, <3>2, <3>3, <3>5, <3>6, <3>7, RotateMoves
  <2>3. CASE i # lp
    <3>1. sort' = [sort EXCEPT !.at = "up", !.i = @ + 1, !.j = @ - 1] /\ qsexc(i, j)
      BY <1>9, <2>3 DEF Down1
    <3>2. /\ sort' \in Frame /\ sort'.at = "up" /\ sort'.a = a /\ sort'.l = l
          /\ sort'.i = i + 1 /\ sort'.j = j - 1 /\ sort'.lp = lp /\ sort'.hp = hp
      <4>1. sort' = [at |-> "up", a |-> a, l |-> l, i |-> i + 1, j |-> j - 1, lp |-> lp, hp |-> hp]
        BY <1>1, <3>1 DEF Frame
      <4> QED
        BY <1>2, <4>1 DEF Frame
    <3>3. Exchange(arr, i, j, arr') /\ qsexc(i, j)
      BY <3>1 DEF qsexc, Exchange
    <3>4. i < lp
      BY <1>2, <2>3
    <3>5. arr[i].key > arr[lp].key
      BY <1>1, <1>5, <3>4 DEF AtI
    <3>6. Parted(arr', a, i + 1, lp, hp, j - 1, l)
      BY <1>2, <1>3, <1>4, <2>1, <3>3, <3>4, <3>5, PartedBoth
    <3>7. Partitioned'
      BY <3>2, <3>6, PassDone
    <3>8. AtI'
      BY <3>2 DEF AtI
    <3> QED
      BY <1>1, <1>2, <1>6, <3>2, <3>3, <3>7, <3>8, ExchangeMoves
  <2> QED
    BY <2>2, <2>3
<1> QED
  BY <1>7, <1>8, <1>9 DEF Down

LEMMA SortInvShift ==
  ASSUME SortInv, Shift, UNCHANGED given
  PROVE  SortInv'
<1>1. sort.at = "down" /\ sort.j <= sort.hp /\ sort.i # sort.lp /\ UNCHANGED calls /\ sort \in Frame
  BY DEF SortInv, QTypes, Shift
<1> DEFINE a == sort.a  i == sort.i  lp == sort.lp  hp == sort.hp  j == sort.j  l == sort.l
<1>2. /\ a \in Int /\ l \in Int /\ i \in Int /\ j \in Int /\ lp \in Int /\ hp \in Int
      /\ Len(arr) \in Nat /\ arr \in Seq(Elem)
      /\ 1 <= a /\ l <= Len(arr) + 1
      /\ a <= i /\ i <= lp /\ lp <= hp /\ hp <= j /\ j < l
  BY <1>1, PassFacts
<1>3. /\ Parted(arr, a, i, lp, hp, j, l)
      /\ \A k \in 1 .. Len(arr) : arr[k].key \in Int
  BY <1>1, PassFacts
<1>4. j = hp /\ i < lp
  BY <1>1, <1>2
<1>5. arr[i].key > arr[lp].key
  BY <1>1, <1>4 DEF SortInv, AtI
<1>6. Within(sort, i) /\ Within(sort, lp - 1) /\ Within(sort, j) /\ j # lp - 1 /\ j # i
  BY <1>2, <1>4 DEF Within
<1>7. /\ sort' = [sort EXCEPT !.at = "up", !.lp = @ - 1, !.hp = @ - 1, !.j = hp - 1]
      /\ qstexc(j, lp - 1, i)
  BY DEF Shift
<1>8. /\ sort' \in Frame /\ sort'.at = "up" /\ sort'.a = a /\ sort'.l = l
      /\ sort'.i = i /\ sort'.j = hp - 1 /\ sort'.lp = lp - 1 /\ sort'.hp = hp - 1
  <2>1. sort' = [at |-> "up", a |-> a, l |-> l, i |-> i, j |-> hp - 1, lp |-> lp - 1, hp |-> hp - 1]
    BY <1>1, <1>7 DEF Frame
  <2> QED
    BY <1>2, <2>1 DEF Frame
<1>9. Rotate(arr, j, lp - 1, i, arr') /\ qstexc(j, lp - 1, i)
  BY <1>7 DEF qstexc, Rotate
<1>10. Parted(arr', a, i, lp - 1, hp - 1, hp - 1, l)
  BY <1>2, <1>3, <1>4, <1>5, <1>9, PartedShift
<1>11. Partitioned'
  BY <1>8, <1>10, PassDone
<1>12. AtI'
  BY <1>8 DEF AtI
<1> QED
  BY <1>1, <1>2, <1>6, <1>8, <1>9, <1>11, <1>12, RotateMoves
-----------------------------------------------------------------------------
(* Between the pieces *)

LEMMA Frames ==
  ASSUME SortInv
  PROVE  /\ Len(calls) \in Nat /\ Len(arr) \in Nat /\ Len(arr) <= MaxLen
         /\ calls \in Seq(Frame) /\ arr \in Seq(Elem) /\ sort \in Frame
         /\ \A k \in 1 .. Len(calls) : calls[k] \in Frame /\ calls[k].at = "start"
         /\ \A k \in 0 .. Len(calls) : Nth(k) \in Frame
         /\ \A c \in Frame : c.a \in Int /\ c.l \in Int
         /\ Nth(0) = sort /\ \A k \in 1 .. Len(calls) : Nth(k) = calls[k]
<1>1. /\ calls \in Seq(Frame) /\ arr \in Seq(Elem) /\ sort \in Frame
      /\ Len(arr) <= MaxLen /\ \A k \in 1 .. Len(calls) : calls[k].at = "start"
  BY DEF SortInv, QTypes
<1>2. /\ Len(calls) \in Nat /\ Len(arr) \in Nat
      /\ \A k \in 1 .. Len(calls) : calls[k] \in Frame /\ k # 0
  BY <1>1
<1>3. Nth(0) = sort /\ \A k \in 1 .. Len(calls) : Nth(k) = calls[k]
  BY <1>2 DEF Nth
<1>4. \A k \in 0 .. Len(calls) : Nth(k) \in Frame
  <2>1. \A k \in 0 .. Len(calls) : k = 0 \/ k \in 1 .. Len(calls)
    BY <1>2
  <2> QED
    BY <1>1, <1>2, <1>3, <2>1
<1>5. \A c \in Frame : c.a \in Int /\ c.l \in Int
  BY DEF Frame
<1> QED
  BY <1>1, <1>2, <1>3, <1>4, <1>5

LEMMA SortInvReturn ==
  ASSUME SortInv, Return, UNCHANGED given
  PROVE  SortInv'
<1>1. sort.at = "start" /\ sort.l - sort.a <= 1 /\ UNCHANGED arr
  BY DEF Return
<1>2. /\ Len(calls) \in Nat /\ Len(arr) \in Nat
      /\ calls \in Seq(Frame) /\ arr \in Seq(Elem) /\ sort \in Frame
      /\ \A k \in 1 .. Len(calls) : calls[k] \in Frame /\ calls[k].at = "start"
      /\ \A k \in 0 .. Len(calls) : Nth(k) \in Frame
      /\ \A c \in Frame : c.a \in Int /\ c.l \in Int
      /\ Nth(0) = sort /\ \A k \in 1 .. Len(calls) : Nth(k) = calls[k]
  BY Frames
<1>3. \A x, y \in Int : ~(Within(sort, x) /\ Within(sort, y) /\ x < y)
  <2>1. sort.a \in Int /\ sort.l \in Int
    BY <1>2
  <2> QED
    BY <1>1, <2>1 DEF Within
<1>4. CASE calls = <<>> /\ sort' = [sort EXCEPT !.at = "done"] /\ UNCHANGED calls
  <2>1. sort' \in Frame /\ sort'.at = "done" /\ sort'.a = sort.a /\ sort'.l = sort.l
    BY <1>2, <1>4 DEF Frame
  <2>2. UNCHANGED calls /\ calls = <<>> /\ Len(calls) = 0
    BY <1>4
  <2>3. \A k \in 0 .. Len(calls) : Nth(k)'.a = Nth(k).a /\ Nth(k)'.l = Nth(k).l
    BY <2>1, <2>2 DEF Nth
  <2>4. QTypes'
    BY <1>1, <2>1, <2>2 DEF SortInv, QTypes
  <2>5. SameElements'
    BY <1>1 DEF SortInv, SameElements
  <2>6. PiecesFit'
    BY <1>1, <2>2, <2>3 DEF SortInv, PiecesFit
  <2>7. PiecesApart'
    BY <2>2, <2>3 DEF SortInv, PiecesApart
  <2>8. OrderElsewhere'
    BY <1>1, <2>2, <2>3 DEF SortInv, OrderElsewhere, Within
  <2>9. Partitioned' /\ AtI'
    BY <2>1 DEF Partitioned, AtI
  <2>10. AtEnd'
    BY <1>1, <2>1, <2>2 DEF AtEnd
  <2>11. Nested'
    BY <1>1, <2>1, <2>2 DEF SortInv, Nested, Length
  <2> QED
    BY <2>4, <2>5, <2>6, <2>7, <2>8, <2>9, <2>10, <2>11 DEF SortInv
<1>5. CASE calls # <<>> /\ sort' = Head(calls) /\ calls' = Tail(calls)
  <2> DEFINE n == Len(calls)
  <2>1. /\ n \in Nat \ {0} /\ sort' = calls[1] /\ calls' \in Seq(Frame) /\ Len(calls') = n - 1
        /\ \A k \in 1 .. n - 1 : calls'[k] = calls[k + 1]
    BY <1>2, <1>5
  <2>2. \A k \in 0 .. Len(calls') : k + 1 \in 1 .. n /\ Nth(k)' = Nth(k + 1)
    <3>1. \A k \in 0 .. n - 1 : k + 1 \in 1 .. n /\ (k = 0 \/ (k # 0 /\ k \in 1 .. n - 1))
      BY <2>1
    <3>2. Nth(0)' = Nth(1)
      BY <1>2, <2>1 DEF Nth
    <3>3. \A k \in 1 .. n - 1 : k # 0 => Nth(k)' = Nth(k + 1)
      BY <1>2, <2>1, <3>1 DEF Nth
    <3> QED
      BY <2>1, <3>1, <3>2, <3>3
  <2>3. sort' \in Frame /\ sort'.at = "start"
    BY <1>2, <2>1
  <2>4. QTypes'
    <3>1. \A k \in 1 .. n - 1 : calls'[k].at = "start"
      <4>1. \A k \in 1 .. n - 1 : k + 1 \in 1 .. n
        BY <2>1
      <4> QED
        BY <1>2, <2>1, <4>1
    <3> QED
      BY <1>1, <2>1, <2>3, <3>1 DEF SortInv, QTypes
  <2>5. SameElements'
    BY <1>1 DEF SortInv, SameElements
  <2>6. \A k \in 0 .. Len(calls') : k + 1 \in 0 .. n
    BY <2>1
  <2>7. PiecesFit'
    BY <1>1, <2>2, <2>6 DEF SortInv, PiecesFit
  <2>8. PiecesApart'
    <3> SUFFICES ASSUME NEW k \in 0 .. Len(calls'), NEW m \in 0 .. Len(calls'), k # m
                 PROVE  Nth(k)'.l <= Nth(m)'.a \/ Nth(m)'.l <= Nth(k)'.a
      BY DEF PiecesApart
    <3>1. k + 1 \in 0 .. n /\ m + 1 \in 0 .. n /\ k + 1 # m + 1
      BY <2>1, <2>6
    <3> QED
      BY <2>2, <3>1 DEF SortInv, PiecesApart
  <2>9. OrderElsewhere'
    <3> SUFFICES ASSUME NEW x \in 1 .. Len(arr), NEW y \in 1 .. Len(arr), x < y,
                        ~(arr[x].key <= arr[y].key)
                 PROVE  \E k \in 0 .. Len(calls') : Within(Nth(k), x)' /\ Within(Nth(k), y)'
      BY <1>1 DEF OrderElsewhere
    <3>1. PICK k \in 0 .. n : Within(Nth(k), x) /\ Within(Nth(k), y)
      BY DEF SortInv, OrderElsewhere
    <3>2. k # 0
      BY <1>2, <1>3, <3>1
    <3>3. k - 1 \in 0 .. Len(calls') /\ k - 1 + 1 = k
      BY <2>1, <3>2
    <3>4. Nth(k - 1)' = Nth(k)
      BY <2>2, <3>3
    <3> QED
      BY <3>1, <3>3, <3>4 DEF Within
  <2>10. Partitioned' /\ AtI' /\ AtEnd'
    BY <2>3 DEF Partitioned, AtI, AtEnd
  <2>11. Nested'
    <3>1. /\ n <= MaxLen
          /\ \A k \in 1 .. n : TwoTo[n - k] * (Length(calls[k]) + 1) <= Len(arr) + 1
      BY DEF SortInv, Nested
    <3>2. \A k \in 1 .. n - 1 : k + 1 \in 1 .. n /\ n - (k + 1) = n - 1 - k
      BY <2>1
    <3>3. \A k \in 1 .. n - 1 : TwoTo[n - 1 - k] * (Length(calls'[k]) + 1) <= Len(arr) + 1
      BY <2>1, <3>1, <3>2
    <3>4. 1 \in 1 .. n /\ n - 1 <= MaxLen
      BY <2>1, <3>1, QsortAssumption
    <3>5. TwoTo[n - 1] * (Length(sort') + 1) <= Len(arr) + 1
      BY <2>1, <3>1, <3>4
    <3> QED
      BY <1>1, <2>1, <3>3, <3>4, <3>5 DEF Nested, Length
  <2> QED
    BY <2>4, <2>5, <2>7, <2>8, <2>9, <2>10, <2>11 DEF SortInv
<1> QED
  BY <1>4, <1>5 DEF Return

\* One call more, of half the length at most, halves what a piece can be.
LEMMA NestedSplit ==
  ASSUME NEW d \in Nat, NEW n \in Nat, NEW m \in Nat, NEW s \in Nat, NEW u \in Nat,
         m > d, m * (s + 1) <= n + 1, 2 * u + 1 <= s
  PROVE  2 * m * (u + 1) <= n + 1 /\ d + 1 <= n
<1>1. 2 * (u + 1) <= s + 1
  OBVIOUS
<1>2. m * (2 * (u + 1)) <= m * (s + 1)
  BY <1>1
<1>3. 2 * m * (u + 1) = m * (2 * (u + 1))
  OBVIOUS
<1>4. s + 1 >= 2 /\ m * 2 <= m * (s + 1)
  OBVIOUS
<1>5. m * 2 >= d + 2
  OBVIOUS
<1> QED
  BY <1>2, <1>3, <1>4, <1>5

LEMMA SortInvSplit ==
  ASSUME SortInv, Split, UNCHANGED given
  PROVE  SortInv'
<1>1. sort.at = "down" /\ sort.j <= sort.hp /\ sort.i = sort.lp /\ UNCHANGED arr
  BY DEF Split
<1>2. /\ Len(calls) \in Nat /\ Len(arr) \in Nat /\ Len(arr) <= MaxLen
      /\ calls \in Seq(Frame) /\ arr \in Seq(Elem) /\ sort \in Frame
      /\ \A k \in 1 .. Len(calls) : calls[k] \in Frame /\ calls[k].at = "start"
      /\ \A k \in 0 .. Len(calls) : Nth(k) \in Frame
      /\ \A c \in Frame : c.a \in Int /\ c.l \in Int
      /\ Nth(0) = sort /\ \A k \in 1 .. Len(calls) : Nth(k) = calls[k]
  BY Frames
<1> DEFINE a == sort.a  lp == sort.lp  hp == sort.hp  l == sort.l  n == Len(calls)
<1>3. /\ a \in Int /\ l \in Int /\ lp \in Int /\ hp \in Int
      /\ 1 <= a /\ l <= Len(arr) + 1 /\ a <= lp /\ lp <= hp /\ hp < l /\ sort.i = lp /\ sort.j = hp
  BY <1>1, PassFacts
<1>4. /\ Parted(arr, a, lp, lp, hp, hp, l)
      /\ \A k \in 1 .. Len(arr) : arr[k].key \in Int
      /\ \A k \in Int : Within(sort, k) => k \in 1 .. Len(arr)
  BY <1>1, <1>3, PassFacts
<1> DEFINE left  == Piece(a, lp)
           right == Piece(hp + 1, l)
<1>5. /\ left \in Frame /\ left.at = "start" /\ left.a = a /\ left.l = lp
      /\ right \in Frame /\ right.at = "start" /\ right.a = hp + 1 /\ right.l = l
  BY <1>3 DEF Piece, Frame
<1>6. PICK first, second :
        /\ (first = left /\ second = right) \/ (first = right /\ second = left)
        /\ sort' = first /\ calls' = <<second>> \o calls
        /\ first.l - first.a <= second.l - second.a
  <2>1. left # right
    BY <1>3, <1>5
  <2>2. CASE LeftFirst
    <3>1. sort' = left /\ calls' = <<right>> \o calls
      BY <2>1, <2>2 DEF Split, Above
    <3>2. left.l - left.a <= right.l - right.a
      BY <1>3, <1>5, <2>2 DEF LeftFirst
    <3> QED
      BY <3>1, <3>2
  <2>3. CASE ~LeftFirst
    <3>1. sort' = right /\ calls' = <<left>> \o calls
      BY <2>1, <2>3 DEF Split, Above
    <3>2. right.l - right.a <= left.l - left.a
      BY <1>3, <1>5, <2>3 DEF LeftFirst
    <3> QED
      BY <3>1, <3>2
  <2> QED
    BY <2>2, <2>3
<1> HIDE DEF left, right
<1>7. /\ first \in Frame /\ second \in Frame /\ first.at = "start" /\ second.at = "start"
      /\ a <= first.a /\ first.a <= first.l /\ first.l <= l
      /\ a <= second.a /\ second.a <= second.l /\ second.l <= l
      /\ first.l <= second.a \/ second.l <= first.a
      /\ first.a \in Int /\ first.l \in Int /\ second.a \in Int /\ second.l \in Int
      /\ 2 * (first.l - first.a) + 1 <= l - a /\ second.l - second.a <= l - a
  <2>1. CASE first = left /\ second = right
    <3>1. /\ first \in Frame /\ second \in Frame /\ first.at = "start" /\ second.at = "start"
          /\ first.a = a /\ first.l = lp /\ second.a = hp + 1 /\ second.l = l
      BY <1>5, <2>1
    <3>2. lp - a <= l - (hp + 1)
      BY <1>6, <3>1
    <3>3. 2 * (lp - a) + 1 <= l - a /\ l - (hp + 1) <= l - a
      BY <1>3, <3>2
    <3> QED
      BY <1>3, <3>1, <3>3, SMTT(30)
  <2>2. CASE first = right /\ second = left
    BY <1>3, <1>5, <1>6, <2>2, SMTT(30)
  <2> QED
    BY <1>6, <2>1, <2>2
<1>8. /\ calls' \in Seq(Frame) /\ Len(calls') = n + 1 /\ calls'[1] = second
      /\ \A k \in 2 .. n + 1 : calls'[k] = calls[k - 1]
  <2>1. <<second>> \in Seq(Frame) /\ Len(<<second>>) = 1 /\ <<second>>[1] = second
    BY <1>7
  <2>2. /\ calls' \in Seq(Frame) /\ Len(calls') = 1 + n
        /\ \A k \in 1 .. 1 + n : calls'[k] = IF k <= 1 THEN <<second>>[k] ELSE calls[k - 1]
    BY <1>2, <1>6, <2>1, ConcatProperties
  <2> QED
    BY <1>2, <2>1, <2>2
<1>9. /\ Nth(0)' = first /\ Nth(1)' = second
      /\ \A k \in 2 .. n + 1 : Nth(k)' = Nth(k - 1) /\ k - 1 \in 1 .. n
  <2>1. Nth(0)' = first /\ Nth(1)' = second
    BY <1>6, <1>8 DEF Nth
  <2>2. \A k \in 2 .. n + 1 : k # 0 /\ k - 1 # 0 /\ k - 1 \in 1 .. n
    BY <1>2
  <2>3. \A k \in 2 .. n + 1 : Nth(k)' = Nth(k - 1)
    BY <1>2, <1>8, <2>2 DEF Nth
  <2> QED
    BY <2>1, <2>2, <2>3
<1>10. \A k \in 0 .. n + 1 : k = 0 \/ k = 1 \/ k \in 2 .. n + 1
  BY <1>2
<1>11. QTypes'
  <2>1. \A k \in 1 .. n + 1 : calls'[k].at = "start"
    <3>1. \A k \in 1 .. n + 1 : k = 1 \/ (k \in 2 .. n + 1 /\ k - 1 \in 1 .. n)
      BY <1>2
    <3> QED
      BY <1>2, <1>7, <1>8, <3>1
  <2> QED
    BY <1>1, <1>6, <1>7, <1>8, <2>1 DEF SortInv, QTypes
<1>12. SameElements'
  BY <1>1 DEF SortInv, SameElements
<1>13. PiecesFit'
  <2>1. ASSUME NEW k \in 0 .. n + 1
        PROVE  1 <= Nth(k)'.a /\ Nth(k)'.a <= Nth(k)'.l /\ Nth(k)'.l <= Len(arr) + 1
    <3>1. CASE k = 0
      BY <1>2, <1>3, <1>7, <1>9, <3>1, SMTT(30)
    <3>2. CASE k = 1
      BY <1>2, <1>3, <1>7, <1>9, <3>2, SMTT(30)
    <3>3. CASE k \in 2 .. n + 1
      <4>1. k - 1 \in 0 .. n
        BY <1>2, <3>3
      <4> QED
        BY <1>9, <3>3, <4>1 DEF SortInv, PiecesFit
    <3> QED
      BY <1>10, <3>1, <3>2, <3>3
  <2> QED
    BY <1>1, <1>8, <2>1 DEF PiecesFit
<1>14. PiecesApart'
  <2>1. ASSUME NEW k \in 2 .. n + 1
        PROVE  Nth(k)'.l <= a \/ l <= Nth(k)'.a
    <3>1. k - 1 \in 0 .. n /\ 0 \in 0 .. n /\ k - 1 # 0
      BY <1>2
    <3>2. Nth(0).l <= Nth(k - 1).a \/ Nth(k - 1).l <= Nth(0).a
      BY <3>1 DEF SortInv, PiecesApart
    <3> QED
      BY <1>2, <1>9, <3>2
  <2>2. ASSUME NEW k \in 2 .. n + 1
        PROVE  Nth(k)'.l \in Int /\ Nth(k)'.a \in Int
    <3>1. k - 1 \in 0 .. n
      BY <1>2
    <3> QED
      BY <1>2, <1>9, <3>1
  <2>3. ASSUME NEW k \in 2 .. n + 1
        PROVE  /\ Nth(k)'.l <= first.a \/ first.l <= Nth(k)'.a
               /\ Nth(k)'.l <= second.a \/ second.l <= Nth(k)'.a
    <3>1. CASE Nth(k)'.l <= a
      BY <1>3, <1>7, <2>2, <3>1, SMTT(30)
    <3>2. CASE l <= Nth(k)'.a
      BY <1>3, <1>7, <2>2, <3>2, SMTT(30)
    <3> QED
      BY <2>1, <3>1, <3>2
  <2>4. ASSUME NEW k \in 2 .. n + 1, NEW m \in 2 .. n + 1, k # m
        PROVE  Nth(k)'.l <= Nth(m)'.a \/ Nth(m)'.l <= Nth(k)'.a
    <3>1. k - 1 \in 0 .. n /\ m - 1 \in 0 .. n /\ k - 1 # m - 1
      BY <1>2, <2>4
    <3> QED
      BY <1>9, <3>1 DEF SortInv, PiecesApart
  <2>5. ASSUME NEW k \in 0 .. n + 1, NEW m \in 0 .. n + 1, k # m
        PROVE  Nth(k)'.l <= Nth(m)'.a \/ Nth(m)'.l <= Nth(k)'.a
    BY <1>7, <1>9, <1>10, <2>3, <2>4, <2>5
  <2> QED
    BY <1>8, <2>5 DEF PiecesApart
<1>15. OrderElsewhere'
  <2> SUFFICES ASSUME NEW x \in 1 .. Len(arr), NEW y \in 1 .. Len(arr), x < y,
                      ~(arr[x].key <= arr[y].key)
               PROVE  \E k \in 0 .. n + 1 : Within(Nth(k), x)' /\ Within(Nth(k), y)'
    BY <1>1, <1>8 DEF OrderElsewhere
  <2>1. PICK k \in 0 .. n : Within(Nth(k), x) /\ Within(Nth(k), y)
    BY DEF SortInv, OrderElsewhere
  <2>2. CASE k # 0
    <3>1. k + 1 \in 2 .. n + 1 /\ k + 1 \in 0 .. n + 1 /\ k + 1 - 1 = k
      BY <1>2, <2>2
    <3>2. Nth(k + 1)' = Nth(k)
      BY <1>9, <3>1
    <3> QED
      BY <2>1, <3>1, <3>2 DEF Within
  <2>3. CASE k = 0
    <3>1. x \in Int /\ y \in Int /\ a <= x /\ x < l /\ a <= y /\ y < l
      BY <1>2, <2>1, <2>3 DEF Within
    <3>2. arr[x].key \in Int /\ arr[y].key \in Int /\ arr[x].key > arr[y].key
      BY <1>4
    <3>3. /\ x < lp => arr[x].key < arr[lp].key
          /\ (lp <= x /\ x <= hp) => arr[x].key = arr[lp].key
          /\ x > hp => arr[x].key > arr[lp].key
          /\ y < lp => arr[y].key < arr[lp].key
          /\ (lp <= y /\ y <= hp) => arr[y].key = arr[lp].key
          /\ y > hp => arr[y].key > arr[lp].key
      BY <1>3, <1>4, <3>1, SMTT(30) DEF Parted
    <3>4. arr[lp].key \in Int
      BY <1>2, <1>3, <1>4
    <3>5. (x < lp /\ y < lp) \/ (x > hp /\ y > hp)
      BY <1>3, <3>1, <3>2, <3>3, <3>4, SMTT(30)
    <3>6. \/ left.a <= x /\ x < left.l /\ left.a <= y /\ y < left.l
          \/ right.a <= x /\ x < right.l /\ right.a <= y /\ y < right.l
      BY <1>3, <1>5, <3>1, <3>5
    <3>7. \/ first.a <= x /\ x < first.l /\ first.a <= y /\ y < first.l
          \/ second.a <= x /\ x < second.l /\ second.a <= y /\ y < second.l
      BY <1>6, <3>6
    <3>8. 0 \in 0 .. n + 1 /\ 1 \in 0 .. n + 1
      BY <1>2
    <3> QED
      BY <1>9, <3>7, <3>8 DEF Within
  <2> QED
    BY <2>2, <2>3
<1>16. Partitioned' /\ AtI' /\ AtEnd'
  BY <1>6, <1>7 DEF Partitioned, AtI, AtEnd
<1>17. Nested'
  <2>1. /\ n <= MaxLen /\ TwoTo[n] * (l - a + 1) <= Len(arr) + 1
        /\ \A k \in 1 .. n : TwoTo[n - k] * (Length(calls[k]) + 1) <= Len(arr) + 1
    BY DEF SortInv, Nested, Length
  <2>2. n \in 0 .. MaxLen /\ TwoTo[n] \in Nat /\ TwoTo[n] > n
    BY <1>2, <2>1, TwoToType, QsortAssumption
  <2>3. l - a \in Nat /\ first.l - first.a \in Nat /\ second.l - second.a \in Nat
    <3>1. \A x, y \in Int : x <= y => y - x \in Nat
      OBVIOUS
    <3>2. a <= l /\ first.a <= first.l /\ second.a <= second.l
      BY <1>3, <1>7
    <3> QED
      BY <1>3, <1>7, <3>1, <3>2
  <2>4. 2 * TwoTo[n] * (first.l - first.a + 1) <= Len(arr) + 1 /\ n + 1 <= Len(arr)
    BY <1>2, <1>7, <2>1, <2>2, <2>3, NestedSplit
  <2>5. n + 1 <= MaxLen /\ n + 1 \in 1 .. MaxLen /\ n + 1 - 1 = n
    BY <1>2, <2>4, QsortAssumption
  <2>6. TwoTo[n + 1] = 2 * TwoTo[n]
    BY <2>5, TwoToIs
  <2>7. TwoTo[n] * (second.l - second.a + 1) <= Len(arr) + 1
    <3>1. TwoTo[n] * (second.l - second.a + 1) <= TwoTo[n] * (l - a + 1)
      BY <1>7, <2>2, <2>3
    <3> QED
      BY <1>2, <2>1, <2>2, <2>3, <3>1
  <2>8. ASSUME NEW k \in 1 .. n + 1
        PROVE  TwoTo[n + 1 - k] * (Length(calls'[k]) + 1) <= Len(arr) + 1
    <3>1. CASE k = 1
      BY <1>2, <1>8, <2>7, <3>1 DEF Length
    <3>2. CASE k # 1
      <4>1. k \in 2 .. n + 1 /\ k - 1 \in 1 .. n /\ n + 1 - k = n - (k - 1)
        BY <1>2, <3>2
      <4> QED
        BY <1>8, <2>1, <4>1
    <3> QED
      BY <3>1, <3>2
  <2> QED
    BY <1>1, <1>6, <1>8, <2>4, <2>5, <2>6, <2>8 DEF Nested, Length
<1> QED
  BY <1>11, <1>12, <1>13, <1>14, <1>15, <1>16, <1>17 DEF SortInv

LEMMA SortInvInit == QsortInit => SortInv
<1> SUFFICES ASSUME QsortInit PROVE SortInv
  OBVIOUS
<1>1. PICK n \in 0 .. MaxLen : \E key \in [1 .. n -> SortKeys] :
        given = [k \in 1 .. n |-> [key |-> key[k], was |-> k]]
  BY DEF QsortInit
<1>2. PICK key \in [1 .. n -> SortKeys] : given = [k \in 1 .. n |-> [key |-> key[k], was |-> k]]
  BY <1>1
<1>3. n \in Nat /\ n <= MaxLen
  BY <1>1, QsortAssumption
<1>4. \A k \in 1 .. n : [key |-> key[k], was |-> k] \in Elem
  BY <1>2, <1>3 DEF Elem
<1>5. given \in [1 .. n -> Elem]
  BY <1>2, <1>4
<1>6. given \in Seq(Elem) /\ Len(given) = n
  BY <1>3, <1>5
<1>7. arr = given /\ sort = Piece(1, n + 1) /\ calls = <<>>
  BY <1>6 DEF QsortInit
<1>8. /\ sort \in Frame /\ sort.at = "start" /\ sort.a = 1 /\ sort.l = n + 1
      /\ calls \in Seq(Frame) /\ Len(calls) = 0
  BY <1>3, <1>7 DEF Piece, Frame
<1>9. \A k \in 0 .. Len(calls) : k = 0 /\ Nth(k) = sort
  BY <1>8 DEF Nth
<1>10. 0 \in 0 .. Len(calls)
  BY <1>8
<1>11. QTypes /\ SameElements
  BY <1>3, <1>6, <1>7, <1>8 DEF QTypes, SameElements
<1>12. PiecesFit
  BY <1>3, <1>6, <1>7, <1>8, <1>9 DEF PiecesFit
<1>13. PiecesApart
  BY <1>9 DEF PiecesApart
<1>14. OrderElsewhere
  BY <1>3, <1>6, <1>7, <1>8, <1>9, <1>10 DEF OrderElsewhere, Within
<1>15. Partitioned /\ AtI /\ AtEnd
  BY <1>8 DEF Partitioned, AtI, AtEnd
<1>16. Nested
  <2>1. Len(arr) = n /\ Length(sort) = n
    BY <1>3, <1>6, <1>7, <1>8 DEF Length
  <2>2. TwoTo[Len(calls)] * (Length(sort) + 1) <= Len(arr) + 1
    BY <1>3, <1>8, <2>1, TwoToIs
  <2>3. \A k \in 1 .. Len(calls) : FALSE
    BY <1>8
  <2> QED
    BY <1>8, <2>2, <2>3, QsortAssumption DEF Nested
<1> QED
  BY <1>11, <1>12, <1>13, <1>14, <1>15, <1>16 DEF SortInv

LEMMA SortInvNext == SortInv /\ [QsortNext]_qsortVars => SortInv'
<1> SUFFICES ASSUME SortInv, [QsortNext]_qsortVars PROVE SortInv'
  OBVIOUS
<1>1. CASE QsortNext
  BY <1>1, SortInvReturn, SortInvPivot, SortInvUp, SortInvDown, SortInvShift, SortInvSplit
     DEF QsortNext
<1>2. CASE UNCHANGED qsortVars
  BY <1>2 DEF qsortVars, SortInv, QTypes, SameElements, PiecesFit, PiecesApart,
     OrderElsewhere, Partitioned, AtI, AtEnd, Nested, Nth
<1> QED
  BY <1>1, <1>2

\* The invariant implies the three properties.
LEMMA SortInvRight == SortInv => SortsRight
<1> SUFFICES ASSUME SortInv PROVE SortsRight
  OBVIOUS
<1>1. /\ Len(calls) \in Nat /\ Len(arr) \in Nat /\ arr \in Seq(Elem) /\ sort \in Frame
      /\ Nth(0) = sort
  BY Frames
<1>2. {arr[k] : k \in DOMAIN arr} = {given[k] : k \in DOMAIN given}
  BY DEF SortInv, SameElements, Elements
<1>3. ASSUME sort.at = "done", NEW k \in 1 .. Len(arr) - 1
      PROVE  arr[k].key <= arr[k + 1].key
  <2>1. k \in 1 .. Len(arr) /\ k + 1 \in 1 .. Len(arr) /\ k < k + 1
    BY <1>1
  <2>2. calls = <<>> /\ sort.l - sort.a <= 1
    BY <1>3 DEF SortInv, AtEnd
  <2>3. ASSUME NEW m \in 0 .. Len(calls), Within(Nth(m), k), Within(Nth(m), k + 1)  PROVE FALSE
    <3>1. m = 0
      BY <2>2
    <3>2. sort.a \in Int /\ sort.l \in Int /\ k \in Int
      BY <1>1, <2>1 DEF Frame
    <3>3. sort.a <= k /\ k + 1 < sort.l
      BY <1>1, <2>3, <3>1 DEF Within
    <3> QED
      BY <2>2, <3>2, <3>3
  <2> QED
    BY <2>1, <2>3 DEF SortInv, OrderElsewhere
<1>4. Rearranged
  BY <1>2, <1>3 DEF Rearranged
<1>5. Shallow
  <2>1. Len(calls) <= MaxLen /\ TwoTo[Len(calls)] * (Length(sort) + 1) <= Len(arr) + 1
    BY DEF SortInv, Nested
  <2>2. TwoTo[Len(calls)] \in Nat
    BY <1>1, <2>1, TwoToType, QsortAssumption
  <2>3. Length(sort) \in Nat
    <3>1. sort.a \in Int /\ sort.l \in Int
      BY <1>1 DEF Frame
    <3>2. sort.a <= sort.l
      BY <1>1 DEF SortInv, PiecesFit
    <3> QED
      BY <3>1, <3>2 DEF Length
  <2>4. \A m, s \in Nat : m <= m * (s + 1)
    OBVIOUS
  <2>5. TwoTo[Len(calls)] <= TwoTo[Len(calls)] * (Length(sort) + 1)
    BY <2>2, <2>3, <2>4
  <2> HIDE DEF Length
  <2> QED
    BY <1>1, <2>1, <2>2, <2>3, <2>5 DEF Shallow
<1> QED
  BY <1>4, <1>5 DEF SortsRight, SortInv

\* For arrays of any length and any keys qsort() returns with the elements it was
\* given, in order, keeps its indices within the piece it works on, and nests no deeper
\* than the length can be halved.
THEOREM SortTheorem == QsortSpec => []SortsRight
<1> QED
  BY SortInvInit, SortInvNext, SortInvRight, PTL DEF QsortSpec
=============================================================================
