------------------------------ MODULE MCSerial ------------------------------
(* A small instance of the serial line. *)
EXTENDS Serial

OneRank == [p \in Procs |-> 1]

\* An ordinary character, a newline, and a control character as two.
SomeEchoes == {<<"a">>, <<"nl">>, <<"a", "b">>}
=============================================================================
