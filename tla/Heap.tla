-------------------------------- MODULE Heap --------------------------------
(***************************************************************************)
(* Main memory (sys/getmem.c, freemem.c, getstk.c, h/mem.h): a list of     *)
(* free blocks in ascending order of address, heap blocks cut from the low *)
(* end of the first that fits and stacks from the high end of the last.    *)
(* Addresses and lengths are in words of four bytes; each call runs with   *)
(* interrupts disabled.                                                    *)
(***************************************************************************)
EXTENDS Integers, FiniteSets

CONSTANTS
  Memory,       \* the blocks sysinit() puts on memlist
  Sizes,        \* lengths given to getmem()
  StackSizes    \* lengths given to getstk()

\* roundmb(): up to the size of a struct mblock.  roundew() rounds to words.
roundmb(n) == IF \E k \in 0 .. n : n = 2 * k THEN n ELSE n + 1

Block(at, len) == [at |-> at, len |-> len]
End(b) == b.at + b.len

\* Two blocks have no word in common.
Apart(b, c) == End(b) <= c.at \/ End(c) <= b.at

\* create() rounds a stack to words, kill() frees it rounded to struct mblock:
\* the sizes in use are multiples of both.
ASSUME HeapAssumption ==
  /\ Memory \subseteq [at : Nat, len : Nat \ {0}]
  /\ \A b, c \in Memory : End(b) # c.at /\ (b = c \/ Apart(b, c))
  /\ Sizes \subseteq Nat \ {0} /\ StackSizes \subseteq Nat \ {0}
  /\ \A n \in StackSizes : roundmb(n) = n

VARIABLES
  memlist,   \* the free blocks
  used       \* the blocks handed out: where they begin and what was asked for

heapVars == <<memlist, used>>

HeapInit == memlist = Memory /\ used = {}

\* The header of a block of one word lies in the word behind it as well: from
\* there on the list is at the mercy of whoever owns that word.
Tight == \E b \in memlist : b.len = 1

Fitting(n) == {b \in memlist : b.len >= n}

\* b loses its first, or its last, n words.
Shrunk(b, at, n) == (memlist \ {b}) \cup (IF b.len = n THEN {} ELSE {Block(at, b.len - n)})

\* Mutant: the rest begins where the block did.
LeftBehind(b, n) == b.at
Leftover(b, n)   == b.at + n

\* getmem(n) with b as the first block that fits.
GetmemFrom(b, n) ==
  /\ b \in Fitting(roundmb(n)) /\ \A c \in Fitting(roundmb(n)) : b.at <= c.at
  /\ memlist' = Shrunk(b, Leftover(b, roundmb(n)), roundmb(n))
  /\ used' = used \cup {[at |-> b.at, len |-> n, of |-> "mem"]}
Getmem(n) == \E b \in memlist : GetmemFrom(b, n)

Getstk(n) ==
  \E b \in Fitting(n) :
    /\ \A c \in Fitting(n) : c.at <= b.at
    /\ memlist' = Shrunk(b, b.at, n)
    /\ used' = used \cup {[at |-> End(b) - n, len |-> n, of |-> "stk"]}

\* freemem() of the words from at on, size of them.  q is the last block in front
\* of at and p the first behind.
Refused(at, size) ==
  \E b \in memlist : IF b.at < at THEN End(b) > at ELSE at + size > b.at

\* Mutant: only the block in front grows.
FrontOnly(at, size) == {b \in memlist : b.at < at /\ End(b) = at}
Touching(at, size)  == {b \in memlist : End(b) = at \/ b.at = at + size}

Freed(at, size) ==
  LET t    == Touching(at, size)
      low  == {b \in t : b.at < at}
      high == t \ low
  IN  (memlist \ t) \cup
      { Block(IF low = {} THEN at ELSE (CHOOSE b \in low : TRUE).at,
              size + (IF low = {} THEN 0 ELSE (CHOOSE b \in low : TRUE).len)
                   + (IF high = {} THEN 0 ELSE (CHOOSE b \in high : TRUE).len)) }

Freemem(at, size) == memlist' = IF Refused(at, size) THEN memlist ELSE Freed(at, size)

\* freemem() and freestk() by the owner, with what it has asked for.
Release(u) ==
  /\ u \in used /\ used' = used \ {u}
  /\ Freemem(IF u.of = "stk" THEN u.at + u.len - roundmb(u.len) ELSE u.at, roundmb(u.len))

HeapNext ==
  /\ ~Tight
  /\ \/ \E n \in Sizes : Getmem(n)
     \/ \E n \in StackSizes : Getstk(n)
     \/ \E u \in used : Release(u)

HeapSpec == HeapInit /\ [][HeapNext]_heapVars
-----------------------------------------------------------------------------
(* Properties. *)

\* What an owner occupies: getmem() hands out whole struct mblocks.
Extent(u) == Block(u.at, IF u.of = "stk" THEN u.len ELSE roundmb(u.len))

\* No word is handed out twice or both free and handed out (getmem.c:26-37,
\* getstk.c:36-42, freemem.c:27-39).
NoOverlap ==
  /\ \A b, c \in memlist : b = c \/ Apart(b, c)
  /\ \A u \in used : \A b \in memlist : Apart(Extent(u), b)
  /\ \A u, v \in used : u = v \/ Apart(Extent(u), Extent(v))

\* freemem() joins a block with the free blocks on both its sides (freemem.c:32-43):
\* memory does not fall to pieces.
Joined == \A b, c \in memlist : End(b) # c.at

\* Every word is free or handed out (freemem.c:27-30 refuses none that is returned).
Words(S) == UNION {b.at .. End(b) - 1 : b \in S}
NothingLost == Words(memlist) \cup Words({Extent(u) : u \in used}) = Words(Memory)

\* Memory is neither shared nor lost and does not fall to pieces, whatever is asked
\* for and returned in whatever order.
MemoryWhole == NoOverlap /\ Joined /\ NothingLost
=============================================================================
