---------------------------- MODULE PipeChildren ----------------------------
(***************************************************************************)
(* signal/baitapsingal/bt6/pipe_multi_child.c: three children each write a *)
(* number to one pipe, the parent reads it to the end and then waits for   *)
(* them.  The end of a pipe comes when it is empty and nobody has its      *)
(* writing end open, and every fork hands both ends on.                    *)
(***************************************************************************)
EXTENDS Integers, Sequences

CONSTANT CHILDREN      \* 3

VARIABLES
  boss,      \* where the parent is
  child,     \* where each child is
  readers,   \* processes that have fd[0] open; 0 is the parent
  writers,   \* processes that have fd[1] open
  fifo,      \* values in the pipe
  received   \* values the parent printed

pipeVars == <<boss, child, readers, writers, fifo, received>>

Kids == 1..CHILDREN
Forked == {c \in Kids : child[c] # "none"}

\* After pipe().
Init ==
  /\ boss = "fork"
  /\ child = [c \in Kids |-> "none"]
  /\ readers = {0}
  /\ writers = {0}
  /\ fifo = << >>
  /\ received = << >>

Goto(c, label) == child' = [child EXCEPT ![c] = label]

Fork(c) ==
  /\ boss = "fork"
  /\ child[c] = "none" /\ \A k \in 1..(c - 1) : child[k] # "none"
  /\ Goto(c, "close0")
  /\ readers' = readers \cup {c}
  /\ writers' = writers \cup {c}
  /\ boss' = IF c = CHILDREN THEN "sleep" ELSE "fork"
  /\ UNCHANGED <<fifo, received>>

\* exit(1), which closes the parent's ends.
ForkFails ==
  /\ boss = "fork"
  /\ boss' = "failed"
  /\ readers' = readers \ {0}
  /\ writers' = writers \ {0}
  /\ UNCHANGED <<child, fifo, received>>

CloseRead(c) ==
  /\ child[c] = "close0"
  /\ readers' = readers \ {c}
  /\ Goto(c, "write")
  /\ UNCHANGED <<boss, writers, fifo, received>>

\* Without a reader SIGPIPE ends the child.
Write(c) ==
  /\ child[c] = "write"
  /\ IF readers = {}
       THEN Goto(c, "zombie") /\ writers' = writers \ {c} /\ UNCHANGED fifo
       ELSE Goto(c, "close1") /\ fifo' = Append(fifo, c * 100) /\ UNCHANGED writers
  /\ UNCHANGED <<boss, readers, received>>

\* close(fd[1]) and exit(0).
CloseWrite(c) ==
  /\ child[c] = "close1"
  /\ writers' = writers \ {c}
  /\ Goto(c, "zombie")
  /\ UNCHANGED <<boss, readers, fifo, received>>

\* Faulty variant: the parent keeps its own writing end.
SleepThenReadKeepsEnd ==
  /\ boss = "sleep"
  /\ boss' = "read"
  /\ UNCHANGED <<child, readers, writers, fifo, received>>

\* sleep(3), which promises nothing about the children, and close(fd[1]).
SleepThenRead ==
  /\ boss = "sleep"
  /\ boss' = "read"
  /\ writers' = writers \ {0}
  /\ UNCHANGED <<child, readers, fifo, received>>

\* read blocks while the pipe is empty and somebody could still write.
Read ==
  /\ boss = "read"
  /\ fifo # << >>
  /\ received' = Append(received, Head(fifo))
  /\ fifo' = Tail(fifo)
  /\ UNCHANGED <<boss, child, readers, writers>>

EndOfFile ==
  /\ boss = "read"
  /\ fifo = << >> /\ writers = {}
  /\ boss' = "wait"
  /\ readers' = readers \ {0}
  /\ UNCHANGED <<child, writers, fifo, received>>

\* wait(NULL) takes any child that has ended.
WaitChild(c) ==
  /\ boss = "wait"
  /\ child[c] = "zombie"
  /\ Goto(c, "reaped")
  /\ UNCHANGED <<boss, readers, writers, fifo, received>>

\* It fails when there is no child left, and the parent exits.
NoChildLeft ==
  /\ boss = "wait"
  /\ \A c \in Kids : child[c] \in {"none", "reaped"}
  /\ boss' = "done"
  /\ UNCHANGED <<child, readers, writers, fifo, received>>

Parent == \/ \E c \in Kids : Fork(c) \/ WaitChild(c)
          \/ SleepThenRead \/ Read \/ EndOfFile \/ NoChildLeft
Child(c) == CloseRead(c) \/ Write(c) \/ CloseWrite(c)

Next == Parent \/ ForkFails \/ \E c \in Kids : Child(c)

-----------------------------------------------------------------------------
TypeOK ==
  /\ boss \in {"fork", "sleep", "read", "wait", "done", "failed"}
  /\ \A c \in Kids : child[c] \in {"none", "close0", "write", "close1", "zombie", "reaped"}
  /\ readers \cup writers \subseteq {0} \cup Forked
  /\ Len(fifo) + Len(received) <= CHILDREN

\* However the processes are scheduled, the parent reaches the end of the
\* pipe, with every child's value, and has no child left at its exit; or a
\* fork failed and it left the children alone.
EndOfFileComes ==
  <>(\/ boss = "failed"
     \/ /\ boss = "done"
        /\ Forked = Kids /\ \A c \in Kids : child[c] = "reaped"
        /\ Len(received) = CHILDREN
        /\ {received[k] : k \in DOMAIN received} = {c * 100 : c \in Kids})
=============================================================================
