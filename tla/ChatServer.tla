----------------------------- MODULE ChatServer -----------------------------
(***************************************************************************)
(* socket/bt2/server.c: the TCP chat server.  The main thread accepts      *)
(* connections and enters them in the array clients; one thread for each   *)
(* connection reads lines and writes every line to all other clients.      *)
(* clients and num_clients are one sequence here; clients_lock protects    *)
(* it, except where main reads the entry it has just made (line 124).      *)
(*                                                                         *)
(* A peer is a client program (socket/bt2/client.c), which connects at     *)
(* most once.  Its connection is a descriptor of the server; the lowest    *)
(* free number is used, so a number comes back after close.  A message is  *)
(* a line with its author; splitting and joining of lines by TCP is left   *)
(* out, as is a write that blocks on a full socket.                        *)
(***************************************************************************)
EXTENDS Naturals, Sequences, FiniteSets, SequencesExt

CONSTANTS
  Peers, None,
  MAX_CLIENTS,    \* 16 in the program
  MaxLines,       \* bound: lines a peer types
  Talkers,        \* bound: the peers that type
  Leavers         \* bound: the peers that may leave

ASSUME PeersAssumption ==
  IsFiniteSet(Peers) /\ None \notin Peers \cup {"main"} /\ "main" \notin Peers
ASSUME CapacityAssumption == MAX_CLIENTS \in Nat \ {0} /\ MaxLines \in Nat

Fds == 1..Cardinality(Peers)

VARIABLES
  \* the peers and the network
  peer,       \* "idle", "open" or "closed" at the peer's end
  backlog,    \* connected and not yet accepted
  lines,      \* number of lines typed so far
  toServer,   \* lines on their way to the server, per peer
  inbox,      \* what the peer has received, oldest first
  reset,      \* the server has written to the peer after the peer closed
  \* the server
  alive,      \* FALSE once SIGPIPE has killed it
  conn,       \* the peer behind each descriptor, None when it is closed
  clients,    \* clients[0 .. num_clients - 1]
  lock,       \* clients_lock: None, "main" or the thread that holds it
  mainPc,
  accepted,   \* the entry main has made for the connection it accepted
  \* the thread started for each peer's connection
  pc, me,     \* its place and its copy c of an entry
  msg, idx,   \* the message being broadcast, and the loop variable
  mixedUp     \* history: main has copied another client's entry

netVars == <<peer, backlog, lines, toServer, inbox, reset>>
mainVars == <<mainPc, accepted, mixedUp>>
threadVars == <<pc, me, msg, idx>>
vars == <<netVars, alive, conn, clients, lock, mainVars, threadVars>>

Entry == [fd : Fds, peer : Peers]
NoEntry == [fd |-> 0, peer |-> None]

\* "joined", "left" and the lines of a peer, which are numbered.
Note(p, n) == [from |-> p, what |-> n]
Joined == 0
Left == MaxLines + 1
Full == Note(None, 0)

Init ==
  /\ peer = [p \in Peers |-> "idle"]
  /\ backlog = {}
  /\ lines = [p \in Peers |-> 0]
  /\ toServer = [p \in Peers |-> << >>]
  /\ inbox = [p \in Peers |-> << >>]
  /\ reset = [p \in Peers |-> FALSE]
  /\ alive = TRUE
  /\ conn = [f \in Fds |-> None]
  /\ clients = << >>
  /\ lock = None
  /\ mainPc = "accept"
  /\ accepted = NoEntry
  /\ pc = [p \in Peers |-> "none"]
  /\ me = [p \in Peers |-> NoEntry]
  /\ msg = [p \in Peers |-> Full]
  /\ idx = [p \in Peers |-> 0]
  /\ mixedUp = FALSE

-----------------------------------------------------------------------------
\* The peers.

Connect(p) ==
  /\ peer[p] = "idle"
  /\ alive
  /\ peer' = [peer EXCEPT ![p] = "open"]
  /\ backlog' = backlog \cup {p}
  /\ UNCHANGED <<lines, toServer, inbox, reset, alive, conn, clients, lock, mainVars, threadVars>>

TypeLine(p) ==
  /\ p \in Talkers
  /\ peer[p] = "open"
  /\ lines[p] < MaxLines
  /\ lines' = [lines EXCEPT ![p] = @ + 1]
  /\ toServer' = [toServer EXCEPT ![p] = Append(@, lines[p] + 1)]
  /\ UNCHANGED <<peer, backlog, inbox, reset, alive, conn, clients, lock, mainVars, threadVars>>

\* Ctrl+C, the end of the input, or recv_thread's exit when the server is gone
\* or has turned the client away.  Closing with unread data resets the
\* connection, which drops the lines the server has not read.
Quit(p) ==
  /\ p \in Leavers
  /\ peer[p] = "open"
  /\ peer' = [peer EXCEPT ![p] = "closed"]
  /\ toServer' \in {toServer, [toServer EXCEPT ![p] = << >>]}
  /\ UNCHANGED <<backlog, lines, inbox, reset, alive, conn, clients, lock, mainVars, threadVars>>

\* write(fd, m): lost on a closed descriptor; a second write to a peer that
\* has closed may meet its reset and raise SIGPIPE, which nobody handles.
Write(f, m) ==
  LET q == conn[f] IN
  \/ /\ q = None
     /\ UNCHANGED <<inbox, reset, alive>>
  \/ /\ q # None /\ peer[q] = "open"
     /\ inbox' = [inbox EXCEPT ![q] = Append(@, m)]
     /\ UNCHANGED <<reset, alive>>
  \/ /\ q # None /\ peer[q] = "closed"
     /\ reset' = [reset EXCEPT ![q] = TRUE]
     /\ alive' \in {TRUE, ~reset[q]}
     /\ UNCHANGED inbox

-----------------------------------------------------------------------------
\* main()

LowestFree == CHOOSE f \in Fds : conn[f] = None /\ \A g \in Fds : conn[g] = None => f <= g

Accept ==
  /\ mainPc = "accept" /\ alive
  /\ \E p \in backlog :
       /\ backlog' = backlog \ {p}
       /\ conn' = [conn EXCEPT ![LowestFree] = p]
       /\ accepted' = [fd |-> LowestFree, peer |-> p]
  /\ mainPc' = "lock"
  /\ UNCHANGED <<peer, lines, toServer, inbox, reset, alive, clients, lock, mixedUp, threadVars>>

AcceptLock ==
  /\ mainPc = "lock" /\ alive
  /\ lock = None
  /\ lock' = "main"
  /\ mainPc' = "enter"
  /\ UNCHANGED <<netVars, alive, conn, clients, accepted, mixedUp, threadVars>>

\* The array is full.
Refuse ==
  /\ mainPc = "enter" /\ alive
  /\ Len(clients) >= MAX_CLIENTS
  /\ lock' = None
  /\ mainPc' = "turnAway"
  /\ UNCHANGED <<netVars, alive, conn, clients, accepted, mixedUp, threadVars>>

TurnAway ==
  /\ mainPc = "turnAway" /\ alive
  /\ Write(accepted.fd, Full)
  /\ conn' = [conn EXCEPT ![accepted.fd] = None]
  /\ mainPc' = "accept"
  /\ UNCHANGED <<peer, backlog, lines, toServer, clients, lock, accepted, mixedUp, threadVars>>

\* Faulty variant: one client too many gets in.
EnterOffByOne ==
  /\ mainPc = "enter" /\ alive
  /\ Len(clients) <= MAX_CLIENTS
  /\ clients' = Append(clients, accepted)
  /\ lock' = None
  /\ mainPc' = "copy"
  /\ UNCHANGED <<netVars, alive, conn, accepted, mixedUp, threadVars>>

Enter ==
  /\ mainPc = "enter" /\ alive
  /\ Len(clients) < MAX_CLIENTS
  /\ clients' = Append(clients, accepted)
  /\ lock' = None
  /\ mainPc' = "copy"
  /\ UNCHANGED <<netVars, alive, conn, accepted, mixedUp, threadVars>>

\* What clients[num_clients - 1] may be when it is read without the lock: the
\* last entry, or, while a thread moves that entry into the place of the one
\* before it, the entry that is being removed, or a mixture of both.  Below the
\* array, which only a mix-up before can lead to, lies no client.
LastEntries ==
  LET n == Len(clients)
      moving == {i \in 1..n : /\ i = n - 1 /\ lock = None
                              /\ \E t \in Peers : pc[t] = "remove" /\ me[t].fd = clients[i].fd}
      seen == {clients[i] : i \in moving \cup {n}}
  IN  IF n = 0 THEN {NoEntry} ELSE [fd : {e.fd : e \in seen}, peer : {e.peer : e \in seen}]

\* *cp = clients[num_clients - 1] and the start of the thread, which without a
\* client has nothing to serve.
CopyAndSpawn ==
  /\ mainPc = "copy" /\ alive
  /\ \E entry \in LastEntries :
       /\ me' = [me EXCEPT ![accepted.peer] = entry]
       /\ pc' = [pc EXCEPT ![accepted.peer] = IF entry = NoEntry THEN "done" ELSE "join"]
       /\ msg' = [msg EXCEPT ![accepted.peer] = Note(entry.peer, Joined)]
       /\ mixedUp' = (mixedUp \/ entry # accepted)
  /\ mainPc' = "accept"
  /\ UNCHANGED <<netVars, alive, conn, clients, lock, accepted, idx>>

Main ==
  Accept \/ AcceptLock \/ Refuse \/ TurnAway \/ Enter \/ CopyAndSpawn

-----------------------------------------------------------------------------
\* handle_client(): broadcasts of "joined", of each line and of "left".

Goto(t, label) == pc' = [pc EXCEPT ![t] = label]

\* Faulty variant: the array is walked without the lock.
BroadcastNoLock(t) ==
  /\ alive
  /\ pc[t] \in {"join", "say", "leave"} /\ idx[t] = 0
  /\ idx' = [idx EXCEPT ![t] = 1]
  /\ UNCHANGED <<netVars, alive, conn, clients, lock, mainVars, pc, me, msg>>

BroadcastLock(t) ==
  /\ alive
  /\ pc[t] \in {"join", "say", "leave"} /\ idx[t] = 0
  /\ lock = None
  /\ lock' = t
  /\ idx' = [idx EXCEPT ![t] = 1]
  /\ UNCHANGED <<netVars, alive, conn, clients, mainVars, pc, me, msg>>

BroadcastWrite(t) ==
  /\ alive
  /\ idx[t] \in 1..Len(clients)
  /\ IF clients[idx[t]].fd # me[t].fd
     THEN Write(clients[idx[t]].fd, msg[t])
     ELSE UNCHANGED <<inbox, reset, alive>>
  /\ idx' = [idx EXCEPT ![t] = @ + 1]
  /\ UNCHANGED <<peer, backlog, lines, toServer, conn, clients, lock, mainVars, pc, me, msg>>

\* Faulty variant: the lock is kept after a broadcast.
BroadcastKeepsLock(t) ==
  /\ alive
  /\ idx[t] > Len(clients)
  /\ idx' = [idx EXCEPT ![t] = 0]
  /\ Goto(t, IF pc[t] = "leave" THEN "remove" ELSE "read")
  /\ UNCHANGED <<netVars, alive, conn, clients, lock, mainVars, me, msg>>

BroadcastUnlock(t) ==
  /\ alive
  /\ idx[t] > Len(clients)
  /\ idx' = [idx EXCEPT ![t] = 0]
  /\ lock' = None
  /\ Goto(t, IF pc[t] = "leave" THEN "remove" ELSE "read")
  /\ UNCHANGED <<netVars, alive, conn, clients, mainVars, me, msg>>

\* read() returns a line ...
ReadLine(t) ==
  LET q == conn[me[t].fd] IN
  /\ alive /\ pc[t] = "read"
  /\ q # None /\ toServer[q] # << >>
  /\ toServer' = [toServer EXCEPT ![q] = Tail(@)]
  /\ msg' = [msg EXCEPT ![t] = Note(me[t].peer, Head(toServer[q]))]
  /\ Goto(t, "say")
  /\ UNCHANGED <<peer, backlog, lines, inbox, reset, alive, conn, clients, lock, mainVars, me, idx>>

\* ... or 0 at the end of the stream, or -1 on a closed descriptor.
ReadEnd(t) ==
  LET q == conn[me[t].fd] IN
  /\ alive /\ pc[t] = "read"
  /\ q # None => toServer[q] = << >> /\ peer[q] = "closed"
  /\ msg' = [msg EXCEPT ![t] = Note(me[t].peer, Left)]
  /\ Goto(t, "leave")
  /\ UNCHANGED <<netVars, alive, conn, clients, lock, mainVars, me, idx>>

\* Faulty variant: num_clients goes down, the last entry is not moved.
WithoutFdDropsLast(f) == Front(clients)

\* clients with the last entry moved to where the first one of fd f was.
WithoutFd(f) ==
  LET i == SelectInSeq(clients, LAMBDA e : e.fd = f)
  IN  IF i = 0 THEN clients ELSE Front([clients EXCEPT ![i] = Last(clients)])

\* Faulty variant: the array is changed without the lock.
RemoveNoLock(t) ==
  /\ alive /\ pc[t] = "remove"
  /\ clients' = WithoutFd(me[t].fd)
  /\ Goto(t, "close")
  /\ UNCHANGED <<netVars, alive, conn, lock, mainVars, me, msg, idx>>

\* remove_client(): the whole locked section.
RemoveClient(t) ==
  /\ alive /\ pc[t] = "remove"
  /\ lock = None
  /\ clients' = WithoutFd(me[t].fd)
  /\ Goto(t, "close")
  /\ UNCHANGED <<netVars, alive, conn, lock, mainVars, me, msg, idx>>

Close(t) ==
  /\ alive /\ pc[t] = "close"
  /\ conn' = [conn EXCEPT ![me[t].fd] = None]
  /\ Goto(t, "done")
  /\ UNCHANGED <<netVars, alive, clients, lock, mainVars, me, msg, idx>>

Thread(t) ==
  \/ BroadcastLock(t) \/ BroadcastWrite(t) \/ BroadcastUnlock(t)
  \/ ReadLine(t) \/ ReadEnd(t) \/ RemoveClient(t) \/ Close(t)

-----------------------------------------------------------------------------

Next ==
  \/ Main
  \/ \E p \in Peers : Thread(p) \/ Connect(p) \/ TypeLine(p) \/ Quit(p)

\* The server's threads keep running; peers may do nothing.  Weak fairness is
\* enough for a thread that waits for the lock, since the others run out of
\* lines to broadcast.
Fairness == WF_vars(Main) /\ \A p \in Peers : WF_vars(Thread(p))

Spec == Init /\ [][Next]_vars /\ Fairness

-----------------------------------------------------------------------------

Notes == [from : Peers, what : 0..Left] \cup {Full}

TypeOK ==
  /\ peer \in [Peers -> {"idle", "open", "closed"}]
  /\ backlog \subseteq Peers
  /\ lines \in [Peers -> 0..MaxLines]
  /\ toServer \in [Peers -> Seq(1..MaxLines)] /\ inbox \in [Peers -> Seq(Notes)]
  /\ reset \in [Peers -> BOOLEAN] /\ alive \in BOOLEAN /\ mixedUp \in BOOLEAN
  /\ conn \in [Fds -> Peers \cup {None}]
  /\ clients \in Seq(Entry) /\ Len(clients) <= MAX_CLIENTS
  /\ lock \in Peers \cup {None, "main"}
  /\ mainPc \in {"accept", "lock", "enter", "turnAway", "copy"}
  /\ accepted \in Entry \cup {NoEntry}
  /\ pc \in [Peers -> {"none", "join", "read", "say", "leave", "remove", "close", "done"}]
  /\ me \in [Peers -> Entry \cup {NoEntry}]
  /\ msg \in [Peers -> Notes]
  /\ idx \in [Peers -> 0..(MAX_CLIENTS + 1)]

\* Every entry of the array stands for an open connection that no other entry
\* stands for, and one thread serves it or is about to be started for it: no
\* broadcast goes to a descriptor that was closed or given to someone else.
ListedAreServed ==
  ~mixedUp =>
    \A i \in 1..Len(clients) :
      LET e == clients[i] IN
      /\ conn[e.fd] = e.peer
      /\ \A j \in 1..Len(clients) : clients[j].fd = e.fd => i = j
      /\ \/ me[e.peer] = e /\ pc[e.peer] \in {"join", "read", "say", "leave", "remove"}
         \/ mainPc = "copy" /\ accepted = e

\* The place of a message in what p has received, 0 when it is not there.
Place(p, m) == SelectInSeq(inbox[p], LAMBDA n : n = m)

\* Any two peers see the messages they both receive in the same order.
SameOrder ==
  \A p, q \in Peers :
    \A i, j \in 1..Len(inbox[p]) :
      i < j /\ ~mixedUp =>
        LET a == Place(q, inbox[p][i])
            b == Place(q, inbox[p][j])
        IN  a # 0 /\ b # 0 /\ inbox[p][i] # Full /\ inbox[p][j] # Full => a < b

\* A broadcast reaches everyone: when its loop is over, each other client in
\* the array whose connection is open has the message, whoever came or left
\* since the loop began.
BroadcastIsComplete ==
  ~mixedUp =>
    \A t \in Peers :
      idx[t] > Len(clients) =>
        \A i \in 1..Len(clients) :
          LET p == clients[i].peer IN
          p # me[t].peer /\ peer[p] = "open" => Place(p, msg[t]) # 0

Registered(p) == \E i \in 1..Len(clients) : clients[i].peer = p

\* The lines of a client that has been taken in are read.
LinesAreRead ==
  \A p \in Peers :
    Registered(p) /\ toServer[p] # << >>
      ~> toServer[p] = << >> \/ mixedUp \/ ~alive \/ peer[p] = "closed"

\* What the head of server.c says (line 6): many clients are served at once
\* and every message goes to all.  For that each client in the array needs a
\* thread that reads its lines, or is about to get one.
EveryClientServed ==
  \A i \in 1..Len(clients) :
    \/ \E t \in Peers : me[t] = clients[i] /\ pc[t] \notin {"none", "done"}
    \/ mainPc = "copy" /\ accepted = clients[i]
=============================================================================
