------------------------------ MODULE TurnLog ------------------------------
(***************************************************************************)
(* What signal/bai2 promises: two processes append numbered lines to one   *)
(* shared file strictly in turn, A first, until each has written           *)
(* ITERATIONS lines.  No process, signal or file handle is visible here.   *)
(***************************************************************************)
EXTENDS Naturals, Sequences

CONSTANT ITERATIONS     \* turns of each process

VARIABLE lines    \* the lines written after the initial "0"

\* The writer of the n-th line (PIDs are named by the role of the process).
Writer(n) == IF n % 2 = 1 THEN "A" ELSE "B"

Line(n) == [who |-> Writer(n), counter |-> n]

Init == lines = << >>

AppendNext == /\ Len(lines) < 2 * ITERATIONS
              /\ lines' = Append(lines, Line(Len(lines) + 1))

Spec == Init /\ [][AppendNext]_lines
=============================================================================
