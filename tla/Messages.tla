------------------------------ MODULE Messages ------------------------------
(***************************************************************************)
(* Messages (sys/send.c, receive.c, recvclr.c, recvtim.c): one slot in     *)
(* each process.  receive() and recvtim() block in the middle and look at  *)
(* the slot when their caller runs again; what a process has left to do in *)
(* a call is cont[p].  Messages have no contents here.                     *)
(***************************************************************************)
EXTENDS Clock

VARIABLES
  phasmsg,   \* proctab[p].phasmsg
  cont       \* [op, arg]: the call p is in, with interrupts disabled

None == [op |-> "none", arg |-> NULLPROC]
Doing(op, arg) == cont' = [cont EXCEPT ![currpid] = [op |-> op, arg |-> arg]]
Done == cont' = [cont EXCEPT ![currpid] = None]

MsgInit ==
  /\ phasmsg = [p \in Procs |-> FALSE]
  /\ cont = [p \in All |-> None]

Deliverable(p) == p \in Procs /\ Alive(p) /\ ~phasmsg[p]

\* Mutant: the receiver stays on the clock's list.
NotUnslept(p) == UNCHANGED clockVars
StopSleeping(p) == Unsleep(p)

\* Mutant: recvtim() is not awakened.
OnlyReceive == {"PRRECV"}
Receiving   == {"PRRECV", "PRTRECV"}

\* send(), which may answer SYSERR.
Deliver(p) ==
  IF ~Deliverable(p) THEN UNCHANGED <<phasmsg, clockVars, schedVars>>
  ELSE /\ phasmsg' = [phasmsg EXCEPT ![p] = TRUE]
       /\ IF pstate[p] = "PRTRECV" THEN StopSleeping(p) ELSE UNCHANGED clockVars
       /\ IF pstate[p] \in Receiving THEN Ready(<<p>>) ELSE UNCHANGED schedVars

Send(p) == Deliverable(p) /\ Deliver(p) /\ UNCHANGED cont

Receive ==
  /\ Doing("receive", NULLPROC)
  /\ IF phasmsg[currpid] THEN UNCHANGED schedVars ELSE Block("PRRECV")
  /\ UNCHANGED <<phasmsg, clockVars>>

Recvtim(delay) ==
  /\ Doing("recvtim", NULLPROC)
  /\ IF phasmsg[currpid] THEN UNCHANGED <<clockVars, schedVars>>
     ELSE GoToSleep(delay, "PRTRECV")
  /\ UNCHANGED phasmsg

\* The caller has a message or runs again: the slot is emptied.  recvtim()
\* returns TIMEOUT if it is empty.
ReceiveEnd ==
  /\ cont[currpid].op \in {"receive", "recvtim"}
  /\ Done
  /\ phasmsg' = [phasmsg EXCEPT ![currpid] = FALSE]
  /\ due' = [due EXCEPT ![currpid] = 0]
  /\ UNCHANGED <<clockq, slnempty, sltop, schedVars>>

Recvclr ==
  /\ phasmsg[currpid]
  /\ phasmsg' = [phasmsg EXCEPT ![currpid] = FALSE]
  /\ UNCHANGED <<cont, clockVars, schedVars>>
=============================================================================
