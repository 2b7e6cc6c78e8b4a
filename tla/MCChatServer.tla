---------------------------- MODULE MCChatServer ----------------------------
(***************************************************************************)
(* TLC instances of ChatServer.  Peers of whom the same is expected are    *)
(* interchangeable.                                                        *)
(***************************************************************************)
EXTENDS ChatServer, TLC

PeerSymmetry ==
  UNION {Permutations(S) : S \in {Talkers \cap Leavers, Talkers \ Leavers,
                                  Leavers \ Talkers, Peers \ (Talkers \cup Leavers)}}

\* Constraint of the safety runs, whose properties say nothing after main has
\* copied the wrong entry or the server was killed.
InOrder == ~mixedUp /\ alive
=============================================================================
