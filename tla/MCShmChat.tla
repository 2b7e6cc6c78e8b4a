----------------------------- MODULE MCShmChat -----------------------------
(***************************************************************************)
(* TLC instance of ShmChat: one line for each user; servers, and the       *)
(* objects they create, are interchangeable.                               *)
(***************************************************************************)
EXTENDS ShmChat, TLC

MCInputs == [p \in Procs |-> 1]
Symmetric == Permutations(Servers) \cup Permutations(Rooms)

\* Constraint of the run: TLC does not go on from a state in which a room's
\* contents are undefined, of which the properties say nothing.  A client that
\* has mapped an object without a size has not touched anything yet.
Defined == \A r \in Rooms : raced[r] => object[r] = "empty"
=============================================================================
