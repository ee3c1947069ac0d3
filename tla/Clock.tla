------------------------------- MODULE Clock -------------------------------
(***************************************************************************)
(* Sleeping on the clock's delta list (sys/sleep10.c, insertd.c,           *)
(* unsleep.c, wakeup.c, clkint.S).  clockq is the list from its head; a    *)
(* key is the number of ticks after the entry before it.                   *)
(***************************************************************************)
EXTENDS Processes

CONSTANT Delays   \* the delays processes ask for, in ticks

ASSUME DelaysAssumption == Delays \subseteq Nat \ {0}

VARIABLES
  clockq,     \* the sleeping processes, [pid, key]
  slnempty,   \* the clock interrupt looks at the list
  sltop,      \* the process whose key the clock interrupt counts down
  due         \* (not in the code) ticks until each sleeper's delay is over

clockVars == <<clockq, slnempty, sltop, due>>

ClockInit ==
  /\ clockq = <<>> /\ slnempty = FALSE /\ sltop = NULLPROC
  /\ due = [p \in Procs |-> 0]

\* Mutant: the key of the entry behind is not lowered.
KeepNext(rest, key) == rest
LowerNext(rest, key) ==
  IF rest = <<>> THEN rest ELSE <<[Head(rest) EXCEPT !.key = @ - key]>> \o Tail(rest)

\* What the loop of insertd() has left of the delay when it comes to each entry.
Left(delay) ==
  LET left[i \in 1 .. Len(clockq) + 1] ==
        IF i = 1 THEN delay ELSE left[i - 1] - clockq[i - 1].key
  IN  left

\* insertd(): in front of the first entry whose key is not below what is left.
Insertd(pid, delay) ==
  LET left == Left(delay)
      i == CHOOSE i \in 1 .. Len(clockq) + 1 :
             /\ i <= Len(clockq) => clockq[i].key >= left[i]
             /\ \A j \in 1 .. i - 1 : clockq[j].key < left[j]
  IN  SubSeq(clockq, 1, i - 1) \o <<[pid |-> pid, key |-> left[i]]>>
        \o LowerNext(SubSeq(clockq, i, Len(clockq)), left[i])

\* The current process goes to sleep in the state st.
GoToSleep(delay, st) ==
  /\ clockq' = Insertd(currpid, delay)
  /\ slnempty' = TRUE /\ sltop' = clockq'[1].pid
  /\ due' = [due EXCEPT ![currpid] = delay]
  /\ Block(st)

\* sleep10(), sleep100(), sleep1000(): a delay of 0 ends the time slice.
Sleep(delay) ==
  IF delay = 0 THEN SliceEnd /\ UNCHANGED clockVars ELSE GoToSleep(delay, "PRSLEEP")

\* Mutant: the ticks of the entry that leaves are forgotten.
DropRest(rest, key) == rest
RaiseNext(rest, key) ==
  IF rest = <<>> THEN rest ELSE <<[Head(rest) EXCEPT !.key = @ + key]>> \o Tail(rest)

\* unsleep(p), for a process on the list.
Unsleep(p) ==
  LET i == CHOOSE i \in 1 .. Len(clockq) : clockq[i].pid = p IN
  /\ clockq' = SubSeq(clockq, 1, i - 1)
                 \o RaiseNext(SubSeq(clockq, i + 1, Len(clockq)), clockq[i].key)
  /\ slnempty' = (slnempty /\ clockq' # <<>>)
  /\ sltop' = IF clockq' # <<>> THEN clockq'[1].pid ELSE sltop
  /\ due' = [due EXCEPT ![p] = 0]

\* The entries at the head that are due.
Expired(L) == { i \in 1 .. Len(L) : \A j \in 1 .. i : L[j].key <= 0 }

\* The list when the key of sltop has been counted down.
Counted ==
  [i \in 1 .. Len(clockq) |->
     IF clockq[i].pid = sltop THEN [clockq[i] EXCEPT !.key = @ - 1] ELSE clockq[i]]

\* One clock interrupt while somebody sleeps; wakeup() readies those who are due.
Tick ==
  LET L == Counted
      n == Cardinality(Expired(L))
      top == \E i \in 1 .. Len(L) : L[i].pid = sltop /\ L[i].key <= 0
  IN
  /\ slnempty
  /\ due' = [p \in Procs |-> IF due[p] > 0 THEN due[p] - 1 ELSE 0]
  /\ IF top
       THEN /\ clockq' = SubSeq(L, n + 1, Len(L))
            /\ slnempty' = (clockq' # <<>>)
            /\ sltop' = IF clockq' # <<>> THEN clockq'[1].pid ELSE sltop
            /\ Ready([i \in 1 .. n |-> L[i].pid])
       ELSE clockq' = L /\ UNCHANGED <<slnempty, sltop, schedVars>>
=============================================================================
