---------------------------- MODULE MCExercises ----------------------------
(***************************************************************************)
(* TLC instances of the installer and of the small exercises.              *)
(***************************************************************************)
EXTENDS Exercises

MCUserModes == {{}, {"r"}, {"r", "x"}}
MCThreads == [sem_write |-> 3, mutex_counter |-> 2, mutex_file |-> 2]
MCRounds == [sem_write |-> 2, mutex_counter |-> 3, mutex_file |-> 3]
=============================================================================
