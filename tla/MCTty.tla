-------------------------------- MODULE MCTty -------------------------------
(* A small instance of a terminal line. *)
EXTENDS Tty

OneRank == [p \in Procs |-> 1]
=============================================================================
