----------------------------- MODULE UnixChat ------------------------------
(***************************************************************************)
(* socket/bt1: a server and one client chat over a Unix domain socket.  In *)
(* each process main reads stdin and writes to the socket while a second   *)
(* thread reads the socket and prints; whichever comes to its end first    *)
(* ends the process.  The server accepts once: a second client connects    *)
(* and waits in the backlog.                                               *)
(*                                                                         *)
(* Lines are counted, in the order of the stream.                          *)
(***************************************************************************)
EXTENDS Integers, Sequences

CONSTANTS Clients, MaxLines     \* MaxLines: what a user types at most

VARIABLES
  state,     \* of each process; "closing" is main after its loop
  ending,    \* what ended it: "stdin", "eof", "pipe", "kill", "refused"
  path,      \* SOCK_PATH exists
  backlog,   \* clients not yet accepted
  peer,      \* the accepted client, "none" before
  sent,      \* lines each process wrote
  shown      \* lines each process read and printed

chatVars == <<state, ending, path, backlog, peer, sent, shown>>

Procs == {"server"} \cup Clients
Up(p) == state[p] \in {"chat", "closing"}
Closed(p) == state[p] \in {"closing", "ended"}

\* The process at the other end; a client's is the server from the start.
Other(p) == IF p = "server" THEN peer ELSE "server"
Paired(p) == peer \in {p, Other(p)} /\ peer # "none"

Init ==
  /\ state = [p \in Procs |-> "off"]
  /\ ending = [p \in Procs |-> "none"]
  /\ path \in BOOLEAN          \* an earlier server may have left its socket
  /\ backlog = << >>
  /\ peer = "none"
  /\ sent = [p \in Procs |-> 0]
  /\ shown = [p \in Procs |-> 0]

Goto(p, s) == state' = [state EXCEPT ![p] = s]
End(p, why) == Goto(p, "ended") /\ ending' = [ending EXCEPT ![p] = why]

\* unlink, so that bind does not find a socket of its name.
Unlink ==
  /\ state["server"] = "off"
  /\ path' = FALSE
  /\ Goto("server", "bind")
  /\ UNCHANGED <<ending, backlog, peer, sent, shown>>

\* bind and listen: from the latter on clients find the server.
BindAndListen ==
  /\ state["server"] = "bind"
  /\ path' = TRUE
  /\ Goto("server", "accept")
  /\ UNCHANGED <<ending, backlog, peer, sent, shown>>

Accept ==
  /\ state["server"] = "accept"
  /\ backlog # << >>
  /\ peer' = Head(backlog)
  /\ backlog' = Tail(backlog)
  /\ Goto("server", "chat")
  /\ UNCHANGED <<ending, path, sent, shown>>

\* connect: refused when nobody listens, otherwise it succeeds at once.
Connect(c) ==
  /\ state[c] = "off"
  /\ IF path /\ state["server"] \in {"accept", "chat"}
       THEN /\ Goto(c, "chat")
            /\ backlog' = Append(backlog, c)
            /\ UNCHANGED ending
       ELSE End(c, "refused") /\ UNCHANGED backlog
  /\ UNCHANGED <<path, peer, sent, shown>>

\* A line is typed: written, or the end of the process by SIGPIPE when the
\* other end is closed.  A main that has called close does not close the
\* connection as long as its recv_thread is still in read.
Type(p) ==
  /\ state[p] = "chat"
  /\ sent[p] < MaxLines
  /\ \/ /\ Closed(Other(p))
        /\ End(p, "pipe") /\ UNCHANGED sent
     \/ /\ state[Other(p)] # "ended"
        /\ sent' = [sent EXCEPT ![p] = @ + 1]
        /\ UNCHANGED <<state, ending>>
  /\ UNCHANGED <<path, backlog, peer, shown>>

\* fgets meets the end of stdin: main closes the socket.
EndOfInput(p) ==
  /\ state[p] = "chat"
  /\ Goto(p, "closing")
  /\ UNCHANGED <<ending, path, backlog, peer, sent, shown>>

\* main returns, the server after its unlink.
Return(p) ==
  /\ state[p] = "closing"
  /\ End(p, "stdin")
  /\ path' = (path /\ p # "server")
  /\ UNCHANGED <<backlog, peer, sent, shown>>

\* recv_thread reads and prints a line.
Receive(p) ==
  /\ Up(p) /\ Paired(p)
  /\ shown[p] < sent[Other(p)]
  /\ shown' = [shown EXCEPT ![p] = @ + 1]
  /\ UNCHANGED <<state, ending, path, backlog, peer, sent>>

\* Faulty variant: the loop goes on after a read of 0.
AtEndErrorOnly(p) == state[p] = "closing"

\* read returns 0 after the last line when the other end is closed, an
\* error when main has closed the descriptor under it or the server ended
\* without accepting.
AtEnd(p) ==
  \/ state[p] = "closing"
  \/ Closed(Other(p)) /\ (Paired(p) => shown[p] = sent[Other(p)])

\* Then exit(0) ends the process, main included; the path stays.
HangUp(p) ==
  /\ Up(p) /\ AtEnd(p)
  /\ End(p, IF state[p] = "closing" THEN "stdin" ELSE "eof")
  /\ UNCHANGED <<path, backlog, peer, sent, shown>>

\* Ctrl+C ("Ctrl+C de thoat").
Interrupt(p) ==
  /\ state[p] \notin {"off", "ended"}
  /\ End(p, "kill")
  /\ UNCHANGED <<path, backlog, peer, sent, shown>>

ServerStart == Unlink \/ BindAndListen \/ Accept
Thread(p) == Receive(p) \/ HangUp(p)

Next == \/ ServerStart
        \/ \E c \in Clients : Connect(c)
        \/ \E p \in Procs : Thread(p) \/ Return(p) \/ Type(p) \/ EndOfInput(p) \/ Interrupt(p)

-----------------------------------------------------------------------------
TypeOK ==
  /\ \A p \in Procs : /\ state[p] \in {"off", "bind", "accept", "chat", "closing", "ended"}
                      /\ sent[p] \in 0..MaxLines /\ shown[p] \in 0..MaxLines
                      /\ (ending[p] = "none") = (state[p] # "ended")
  /\ peer \in Clients \cup {"none"}
  /\ \A k \in DOMAIN backlog : backlog[k] \in Clients

\* Whoever was connected does not outlive the other end, though nobody may
\* ever type again: a process ends once its partner has, and if it is the end
\* of the stream that ends it, it has printed all the partner wrote.
PartnersEnd ==
  \A p \in Procs :
    Up(p) /\ Closed(Other(p)) ~>
      /\ state[p] = "ended"
      /\ ending[p] = "eof" /\ Paired(p) => shown[p] = sent[Other(p)]
=============================================================================
