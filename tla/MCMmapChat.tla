----------------------------- MODULE MCMmapChat -----------------------------
(***************************************************************************)
(* TLC instances of MmapChat: the server's user types two lines, a         *)
(* client's one, so that three lines meet a room of two messages.          *)
(***************************************************************************)
EXTENDS MmapChat

MCInputs == [p \in Procs |-> IF p \in Servers THEN 2 ELSE 1]

\* Constraint of the runs whose properties say nothing of a raced room: TLC
\* does not go on from a state in which the room's contents are undefined.
Defined == \A r \in Rooms : ~raced[r]
=============================================================================
