------------------------------- MODULE Parts -------------------------------
(***************************************************************************)
(* The parts that work without the others: main memory and its two users,  *)
(* the sorting, printing and scanning routines of the C library, the       *)
(* configuration program and the set-up of the network card.  One of them  *)
(* runs; the others stay as they are before their first step.              *)
(***************************************************************************)
EXTENDS Pools, ItemQueue, Qsort, Formatted, Config, EthInit

VARIABLE part    \* which of them runs

partVars == <<part, heapVars, poolVars, queueVars, qsortVars, formatVars, configVars, ethInitVars>>

\* What a routine is given is of interest only if it runs.
Runs(p) == part = p

PartsInit ==
  /\ part \in {"heap", "pools", "queue", "qsort", "format", "config", "ethernet"}
  /\ HeapInit /\ PoolsInit /\ QueueInit /\ ConfigInit
  /\ IF Runs("qsort") THEN TRUE ELSE given = <<>>
  /\ QsortInit
  /\ IF Runs("format") THEN FormatInit
     ELSE /\ fmt = <<>> /\ args = <<>> /\ string = <<>> /\ out = <<>> /\ request = [fmt |-> fmt, args |-> args]
          /\ scan = <<>> /\ text = <<>> /\ pos = 0 /\ stored = <<>> /\ result = [over |-> FALSE, n |-> 0, by |-> "none"]
  /\ IF Runs("ethernet") THEN TRUE
     ELSE /\ machine = (CHOOSE m \in Machines : TRUE)
          /\ card = (CHOOSE c \in Cards : TRUE) /\ count = 0
  /\ EthInitInit

PartsNext ==
  /\ UNCHANGED part
  /\ \/ /\ \/ Runs("heap") /\ HeapNext /\ UNCHANGED <<poolVars, queueVars>>
           \/ Runs("pools") /\ PoolsNext /\ UNCHANGED queueVars
           \/ Runs("queue") /\ QueueNext /\ UNCHANGED poolVars
        /\ UNCHANGED <<qsortVars, formatVars, configVars, ethInitVars>>
     \/ /\ UNCHANGED <<heapVars, poolVars, queueVars>>
        /\ \/ Runs("qsort") /\ QsortNext /\ UNCHANGED <<formatVars, configVars, ethInitVars>>
           \/ Runs("format") /\ FormatNext /\ UNCHANGED <<qsortVars, configVars, ethInitVars>>
           \/ Runs("config") /\ ConfigNext /\ UNCHANGED <<qsortVars, formatVars, ethInitVars>>
           \/ Runs("ethernet") /\ EthInitNext /\ UNCHANGED <<qsortVars, formatVars, configVars>>

PartsSpec == PartsInit /\ [][PartsNext]_partVars
=============================================================================
