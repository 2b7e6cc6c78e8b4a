------------------------------- MODULE Reaper -------------------------------
(***************************************************************************)
(* signal/baitapsingal/bt3/bt3_2.c: a parent forks three children and then *)
(* pauses for good; its SIGCHLD handler collects them.  Standard signals   *)
(* do not queue, so the ends of several children may be announced by one   *)
(* SIGCHLD, and SIGCHLD is blocked while its handler runs.                 *)
(***************************************************************************)
EXTENDS Integers

CONSTANT OFFSPRING     \* 3

VARIABLES
  parent,      \* "fork", "pause" or, after a failing fork, "failed"
  kid,         \* "none", "running", "zombie" or "reaped"
  sigchld,     \* SIGCHLD is pending
  in_handler   \* the handler has interrupted main

reaperVars == <<parent, kid, sigchld, in_handler>>

Kids == 1..OFFSPRING

\* After sigaction.
Init ==
  /\ parent = "fork"
  /\ kid = [c \in Kids |-> "none"]
  /\ sigchld = FALSE
  /\ in_handler = FALSE

Fork(c) ==
  /\ parent = "fork" /\ ~in_handler
  /\ kid[c] = "none" /\ \A k \in 1..(c - 1) : kid[k] # "none"
  /\ kid' = [kid EXCEPT ![c] = "running"]
  /\ parent' = IF c = OFFSPRING THEN "pause" ELSE "fork"
  /\ UNCHANGED <<sigchld, in_handler>>

ForkFails ==
  /\ parent = "fork" /\ ~in_handler
  /\ parent' = "failed"
  /\ UNCHANGED <<kid, sigchld, in_handler>>

\* exit(i * 10); a second SIGCHLD merges with the pending one.
Exit(c) ==
  /\ kid[c] = "running"
  /\ kid' = [kid EXCEPT ![c] = "zombie"]
  /\ sigchld' = TRUE
  /\ UNCHANGED <<parent, in_handler>>

\* The signal interrupts main wherever it is, in pause or between forks.
EnterHandler ==
  /\ sigchld /\ ~in_handler /\ parent # "failed"
  /\ sigchld' = FALSE
  /\ in_handler' = TRUE
  /\ UNCHANGED <<parent, kid>>

\* Faulty variant: one waitpid per signal, without the loop.
CollectOne(c) ==
  /\ in_handler
  /\ kid[c] = "zombie"
  /\ kid' = [kid EXCEPT ![c] = "reaped"]
  /\ in_handler' = FALSE
  /\ UNCHANGED <<parent, sigchld>>

\* waitpid(-1, &status, WNOHANG) finds a child that has ended ...
Collect(c) ==
  /\ in_handler
  /\ kid[c] = "zombie"
  /\ kid' = [kid EXCEPT ![c] = "reaped"]
  /\ UNCHANGED <<parent, sigchld, in_handler>>

\* ... or none, and the handler returns.
LeaveHandler ==
  /\ in_handler
  /\ \A c \in Kids : kid[c] # "zombie"
  /\ in_handler' = FALSE
  /\ UNCHANGED <<parent, kid, sigchld>>

Main == \E c \in Kids : Fork(c)
Handler == EnterHandler \/ LeaveHandler \/ \E c \in Kids : Collect(c)

Next == Main \/ ForkFails \/ Handler \/ \E c \in Kids : Exit(c)

-----------------------------------------------------------------------------
TypeOK ==
  /\ parent \in {"fork", "pause", "failed"}
  /\ \A c \in Kids : kid[c] \in {"none", "running", "zombie", "reaped"}
  /\ sigchld \in BOOLEAN /\ in_handler \in BOOLEAN

\* "no zombie will appear" (line 54): a child that has ended is collected,
\* also when its SIGCHLD merged with another's or came inside the handler.
NoZombieStays ==
  \A c \in Kids : kid[c] = "zombie" ~> kid[c] = "reaped" \/ parent = "failed"
=============================================================================
