---------------------------- MODULE TurnConstants ----------------------------
(***************************************************************************)
(* The parameters of PingPong, and what it assumes of them.                *)
(***************************************************************************)
EXTENDS Naturals

CONSTANTS
  ITERATIONS,     \* turns of each process (#define ITERATIONS 5)
  FailingOpens    \* the fopen modes, of "r" and "a", that may fail at run time

ASSUME IterationsAssumption == ITERATIONS \in Nat \ {0}
ASSUME FailingOpensAssumption == FailingOpens \subseteq {"r", "a"}
=============================================================================
