------------------------------ MODULE LineAbs ------------------------------
(***************************************************************************)
(* What the buffer of a serial line promises its writers: what is written  *)
(* goes out once and in the order in which it was accepted, a newline as   *)
(* carriage return and line feed next to each other.                       *)
(***************************************************************************)
EXTENDS Naturals, Sequences

CONSTANTS Char, Newline, Expanded,   \* a newline goes out as the sequence Expanded
          Room                       \* how many characters are held back at most

VARIABLE held    \* the characters accepted and not sent, the oldest first

Init == held = <<>>

Out(c) == IF c = Newline THEN Expanded ELSE <<c>>

Accept(c)     == held' = held \o Out(c)
Pass(c)       == held' = Tail(held \o Out(c))   \* accepted while the line is idle
Transmit      == held # <<>> /\ held' = Tail(held)

Next == Len(held') <= Room /\ (Transmit \/ \E c \in Char : Accept(c) \/ Pass(c))

Spec == Init /\ [][Next]_held
=============================================================================
