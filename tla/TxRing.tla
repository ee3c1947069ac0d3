------------------------------- MODULE TxRing -------------------------------
(***************************************************************************)
(* The transmit buffer in the memory of the EtherExpress card              *)
(* (mon/ethwstrt.c): blocks of a header and a frame one behind the other   *)
(* from ed_tx_start to ed_tx_end, in a ring of TxSize bytes.               *)
(***************************************************************************)
EXTENDS Integers

CONSTANTS TxSize,    \* ed_txbuf_size
          TxHeader   \* EEP_TX_HEADER

ASSUME RingAssumption == TxHeader \in Nat /\ TxSize \in Nat /\ TxHeader < TxSize

\* Mutant: what is free between the end and the start is not wrapped.
NotWrapped(start, end) == TxSize - (end - start)

\* The room left; start = end counts as an empty ring.
Avail(start, end) == LET a == TxSize - (end - start) IN IF a > TxSize THEN a - TxSize ELSE a

\* Where the next block begins: not where its header would cross the border.
NextEnd(end, len) == LET e == end + len + TxHeader
                     IN  IF e >= TxSize THEN e - TxSize ELSE end + len

\* The bytes of a block; the card wraps them.
Cells(at, len) == {IF at + i < TxSize THEN at + i ELSE at + i - TxSize : i \in 0..(len - 1)}

\* The bytes from start to end: what the ring takes as used.
Used(start, end) == IF end >= start THEN end - start ELSE end - start + TxSize
=============================================================================
