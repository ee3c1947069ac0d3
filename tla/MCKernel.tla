------------------------------ MODULE MCKernel ------------------------------
(* A small instance of the kernel. *)
EXTENDS Kernel

\* Two processes share a priority, the third outranks them.
TwoRanks == [p \in Procs |-> IF p = 3 THEN 2 ELSE 1]

\* Who makes which calls.
Roles == [sem     |-> {1, 2}, send   |-> {2}, receive |-> {1, 3},
          sleep   |-> {1},    kill   |-> {2},    setnok  |-> {3},
          suspend |-> {3},    create |-> {2},    lock    |-> {1}]
=============================================================================
