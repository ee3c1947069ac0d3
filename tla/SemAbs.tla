------------------------------- MODULE SemAbs -------------------------------
(***************************************************************************)
(* What semaphores promise: a count that is never negative, waiters in the *)
(* order of arrival, no waiter while the count is positive, and an answer  *)
(* for each waiter, which it keeps until its wait() returns.               *)
(***************************************************************************)
EXTENDS Integers, Sequences

CONSTANTS Client, Sem, Amounts   \* Amounts: how often a semaphore is signalled, what it is set to

VARIABLES
  count,     \* count[s]: how many wait() calls pass
  waiting,   \* waiting[s]: the blocked clients, the first to come first
  answer     \* what its wait() answers a client that was blocked, until it has returned

Members(s) == {waiting[s][i] : i \in 1 .. Len(waiting[s])}

Init ==
  /\ count = [s \in Sem |-> 0]
  /\ waiting = [s \in Sem |-> <<>>]
  /\ answer = [c \in Client |-> "none"]

P(c, s) ==
  IF count[s] > 0
    THEN count' = [count EXCEPT ![s] = @ - 1] /\ UNCHANGED <<waiting, answer>>
    ELSE /\ waiting' = [waiting EXCEPT ![s] = Append(@, c)]
         /\ answer' = [answer EXCEPT ![c] = "OK"]
         /\ UNCHANGED count

\* n times: the first waiter goes, or the count goes up.
V(s, n) ==
  LET k == IF n < Len(waiting[s]) THEN n ELSE Len(waiting[s]) IN
  /\ waiting' = [waiting EXCEPT ![s] = SubSeq(@, k + 1, Len(@))]
  /\ count' = [count EXCEPT ![s] = @ + (n - k)]
  /\ UNCHANGED answer

\* All waiters go, with the answer OK, and the count is n.
Set(s, n) ==
  /\ waiting' = [waiting EXCEPT ![s] = <<>>]
  /\ count' = [count EXCEPT ![s] = n]
  /\ UNCHANGED answer

\* All waiters go, with the answer DELETED.
Delete(s) ==
  /\ waiting' = [waiting EXCEPT ![s] = <<>>]
  /\ count' = [count EXCEPT ![s] = 0]
  /\ answer' = [c \in Client |-> IF c \in Members(s) THEN "DELETED" ELSE answer[c]]

\* A client is back from wait() with its answer, or gone before it got there.
Return(c) ==
  /\ answer[c] # "none" /\ \A s \in Sem : c \notin Members(s)
  /\ answer' = [answer EXCEPT ![c] = "none"]
  /\ UNCHANGED <<count, waiting>>

\* A waiter disappears.
Leave(c, s) ==
  /\ \E i \in 1 .. Len(waiting[s]) :
       /\ waiting[s][i] = c
       /\ waiting' = [waiting EXCEPT ![s] = SubSeq(@, 1, i - 1) \o SubSeq(@, i + 1, Len(@))]
  /\ answer' = [answer EXCEPT ![c] = "none"]
  /\ UNCHANGED count

Next == \E s \in Sem :
  \/ \E c \in Client : P(c, s) \/ Leave(c, s) \/ Return(c)
  \/ \E n \in Amounts \ {0} : V(s, n)
  \/ \E n \in Amounts : Set(s, n)
  \/ Delete(s)

Spec == Init /\ [][Next]_<<count, waiting, answer>>
=============================================================================
