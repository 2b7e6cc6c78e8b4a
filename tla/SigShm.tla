------------------------------- MODULE SigShm -------------------------------
(***************************************************************************)
(* shared_memory/ex3_signal_shm: a server publishes its pid and one record *)
(* in a shared-memory object and sleeps in pause(); a client overwrites    *)
(* the record and wakes the server with SIGUSR1.  SIGINT asks the server   *)
(* to leave.                                                               *)
(*                                                                         *)
(* Nothing but the signals orders the accesses.  Signals are pending at    *)
(* most once each and their handlers run between any two steps of main(),  *)
(* so one may come between a test and the pause() behind it.  The record   *)
(* is copied field by field, in either order, on both sides.               *)
(***************************************************************************)
EXTENDS Naturals, Sequences

CONSTANTS
  Servers,      \* server processes, each with an object of its own
  Clients,
  NoObject,     \* SHM_NAME names nothing, a client has mapped nothing
  MaxRecords,   \* bound: records a client's user enters
  LogMayFail    \* fopen(LOG_FILE, "a") may fail

Procs == Servers \cup Clients

ASSUME ProcsAssumption == Servers \cap Clients = {} /\ NoObject \notin Servers
ASSUME BoundAssumption == MaxRecords \in Nat /\ LogMayFail \in BOOLEAN

VARIABLES
  name,          \* the object that SHM_NAME names
  \* per object, that is per server
  object,        \* "none", "empty" or "sized"
  pidWritten,    \* server_pid is the server's, no longer 0
  data,          \* user_data
  \* per server
  pending,       \* signals sent and not yet handled
  sigReceived, keepRunning,
  got,           \* the local name and age
  \* per process
  pc,
  todo,          \* fields of the record the running copy has still to do
  \* per client
  to,            \* the object it has mapped
  entered,       \* records its user has entered
  log            \* LOG_FILE, shared by all servers

serverVars == <<pending, sigReceived, keepRunning, got>>
objectVars == <<object, pidWritten, data>>
clientVars == <<to, entered>>
vars == <<name, objectVars, serverVars, pc, todo, clientVars, log>>

Fields == {"name", "age"}
Signals == {"USR1", "INT"}

\* The fields of a record are told apart by the client and record they are of.
Zero == << >>
Values == {Zero} \cup (Clients \X (0..MaxRecords))
ZeroRecord == [f \in Fields |-> Zero]

Init ==
  /\ name = NoObject
  /\ object = [s \in Servers |-> "none"]
  /\ pidWritten = [s \in Servers |-> FALSE]
  /\ data = [s \in Servers |-> ZeroRecord]
  /\ pending = [s \in Servers |-> {}]
  /\ sigReceived = [s \in Servers |-> FALSE]
  /\ keepRunning = [s \in Servers |-> TRUE]
  /\ got = [s \in Servers |-> ZeroRecord]
  /\ pc = [p \in Procs |-> "off"]
  /\ todo = [p \in Procs |-> {}]
  /\ to = [c \in Clients |-> NoObject]
  /\ entered = [c \in Clients |-> 0]
  /\ log = << >>

Goto(p, from, next) == pc[p] = from /\ pc' = [pc EXCEPT ![p] = next]

-----------------------------------------------------------------------------
\* The server's start.

\* shm_unlink: whatever has the name loses it.
Start(s) ==
  /\ Goto(s, "off", "create")
  /\ name' = NoObject
  /\ UNCHANGED <<objectVars, serverVars, todo, clientVars, log>>

\* shm_open with O_CREAT | O_EXCL.
Create(s) ==
  /\ Goto(s, "create", IF name = NoObject THEN "truncate" ELSE "failed")
  /\ IF name = NoObject
     THEN name' = s /\ object' = [object EXCEPT ![s] = "empty"]
     ELSE UNCHANGED <<name, object>>
  /\ UNCHANGED <<pidWritten, data, serverVars, todo, clientVars, log>>

Truncate(s) ==
  /\ Goto(s, "truncate", "map")
  /\ object' = [object EXCEPT ![s] = "sized"]
  /\ UNCHANGED <<name, pidWritten, data, serverVars, todo, clientVars, log>>

Map(s) ==
  /\ Goto(s, "map", "pid")
  /\ UNCHANGED <<name, objectVars, serverVars, todo, clientVars, log>>

WritePid(s) ==
  /\ Goto(s, "pid", "zero")
  /\ pidWritten' = [pidWritten EXCEPT ![s] = TRUE]
  /\ todo' = [todo EXCEPT ![s] = Fields]
  /\ UNCHANGED <<name, object, data, serverVars, clientVars, log>>

\* memset of user_data, one field.
ZeroField(s) ==
  /\ pc[s] = "zero"
  /\ \E f \in todo[s] :
       /\ data' = [data EXCEPT ![s][f] = Zero]
       /\ todo' = [todo EXCEPT ![s] = @ \ {f}]
  /\ UNCHANGED <<name, object, pidWritten, serverVars, pc, clientVars, log>>

ZeroDone(s) ==
  /\ todo[s] = {}
  /\ Goto(s, "zero", "sigusr1")
  /\ UNCHANGED <<name, objectVars, serverVars, todo, clientVars, log>>

\* The two calls of sigaction.
InstallUsr1(s) ==
  /\ Goto(s, "sigusr1", "sigint")
  /\ UNCHANGED <<name, objectVars, serverVars, todo, clientVars, log>>

InstallInt(s) ==
  /\ Goto(s, "sigint", "loop")
  /\ UNCHANGED <<name, objectVars, serverVars, todo, clientVars, log>>

\* Faulty variant: the error path leaves the object behind.
FailsKeepsName(s) ==
  /\ pc[s] \in {"truncate", "map", "sigusr1", "sigint"}
  /\ pc' = [pc EXCEPT ![s] = "failed"]
  /\ UNCHANGED <<name, objectVars, serverVars, todo, clientVars, log>>

\* ftruncate, mmap or sigaction fails: unlink and exit.
Fails(s) ==
  /\ pc[s] \in {"truncate", "map", "sigusr1", "sigint"}
  /\ pc' = [pc EXCEPT ![s] = "failed"]
  /\ name' = NoObject
  /\ UNCHANGED <<objectVars, serverVars, todo, clientVars, log>>

StartUp(s) ==
  \/ Create(s) \/ Truncate(s) \/ Map(s) \/ WritePid(s) \/ ZeroField(s)
  \/ ZeroDone(s) \/ InstallUsr1(s) \/ InstallInt(s) \/ Fails(s)

-----------------------------------------------------------------------------
\* The server's loop.

\* while (keep_running)
TestRunning(s) ==
  /\ Goto(s, "loop", IF keepRunning[s] THEN "announce" ELSE "cleanup")
  /\ UNCHANGED <<name, objectVars, serverVars, todo, clientVars, log>>

\* "Going to sleep...", then pause().
Pause(s) ==
  /\ Goto(s, "announce", "pause")
  /\ UNCHANGED <<name, objectVars, serverVars, todo, clientVars, log>>

\* Faulty variant: handle_sigusr1 is installed for both signals.
HandleOnlyUsr1(s) ==
  /\ pending[s] # {}
  /\ sigReceived' = [sigReceived EXCEPT ![s] = TRUE]
  /\ pending' = [pending EXCEPT ![s] = {}]
  /\ pc' = [pc EXCEPT ![s] = IF @ = "pause" THEN "woke" ELSE @]
  /\ UNCHANGED <<name, objectVars, keepRunning, got, todo, clientVars, log>>

\* The handlers of all pending signals run before main() goes on; pause()
\* returns if it was running.
Handle(s) ==
  /\ pending[s] # {}
  /\ sigReceived' = [sigReceived EXCEPT ![s] = @ \/ "USR1" \in pending[s]]
  /\ keepRunning' = [keepRunning EXCEPT ![s] = @ /\ "INT" \notin pending[s]]
  /\ pending' = [pending EXCEPT ![s] = {}]
  /\ pc' = [pc EXCEPT ![s] = IF @ = "pause" THEN "woke" ELSE @]
  /\ UNCHANGED <<name, objectVars, got, todo, clientVars, log>>

\* pause() has returned to be told to leave.
Break(s) ==
  /\ ~keepRunning[s]
  /\ Goto(s, "woke", "cleanup")
  /\ UNCHANGED <<name, objectVars, serverVars, todo, clientVars, log>>

\* Faulty variant: one field of the record is not copied.
BeginReadNameOnly(s) ==
  /\ keepRunning[s] /\ sigReceived[s]
  /\ Goto(s, "woke", "read")
  /\ sigReceived' = [sigReceived EXCEPT ![s] = FALSE]
  /\ todo' = [todo EXCEPT ![s] = {"name"}]
  /\ UNCHANGED <<name, objectVars, pending, keepRunning, got, clientVars, log>>

\* ... or there is a record: the flag is reset before the copy.  (pause() only
\* returns after a handler, so one of the two flags is set.)
BeginRead(s) ==
  /\ keepRunning[s] /\ sigReceived[s]
  /\ Goto(s, "woke", "read")
  /\ sigReceived' = [sigReceived EXCEPT ![s] = FALSE]
  /\ todo' = [todo EXCEPT ![s] = Fields]
  /\ UNCHANGED <<name, objectVars, pending, keepRunning, got, clientVars, log>>

ReadField(s) ==
  /\ pc[s] = "read"
  /\ \E f \in todo[s] :
       /\ got' = [got EXCEPT ![s][f] = data[s][f]]
       /\ todo' = [todo EXCEPT ![s] = @ \ {f}]
  /\ UNCHANGED <<name, objectVars, pending, sigReceived, keepRunning, pc, clientVars, log>>

\* Faulty variant: the flag is reset once the record is logged.
WriteLogResets(s) ==
  /\ todo[s] = {}
  /\ Goto(s, "read", "loop")
  /\ sigReceived' = [sigReceived EXCEPT ![s] = FALSE]
  /\ log' \in {Append(log, got[s])} \cup (IF LogMayFail THEN {log} ELSE {})
  /\ UNCHANGED <<name, objectVars, pending, keepRunning, got, todo, clientVars>>

\* The record is appended to the log if that opens.
WriteLog(s) ==
  /\ todo[s] = {}
  /\ Goto(s, "read", "loop")
  /\ log' \in {Append(log, got[s])} \cup (IF LogMayFail THEN {log} ELSE {})
  /\ UNCHANGED <<name, objectVars, serverVars, todo, clientVars>>

\* Unmap and unlink, whoever's object has the name by now.
Cleanup(s) ==
  /\ Goto(s, "cleanup", "done")
  /\ name' = NoObject
  /\ UNCHANGED <<objectVars, serverVars, todo, clientVars, log>>

Loop(s) ==
  \/ TestRunning(s) \/ Pause(s) \/ Break(s) \/ BeginRead(s)
  \/ ReadField(s) \/ WriteLog(s) \/ Cleanup(s)

-----------------------------------------------------------------------------
\* Signals.

Starting == {"create", "truncate", "map", "pid", "zero", "sigusr1"}
Looping == {"loop", "announce", "pause", "woke", "read", "cleanup"}
Running(s) == pc[s] \in Starting \cup {"sigint"} \cup Looping
Handled(s, sig) ==
  pc[s] \in Looping \/ (sig = "USR1" /\ pc[s] = "sigint")

\* A signal without a handler ends the server.
Signal(s, sig, pcs) ==
  IF Handled(s, sig)
  THEN pending' = [pending EXCEPT ![s] = @ \cup {sig}] /\ pc' = pcs
  ELSE pc' = [pcs EXCEPT ![s] = "killed"] /\ UNCHANGED pending

\* Ctrl+C in the server's terminal.
Interrupt(s) ==
  /\ Running(s)
  /\ Signal(s, "INT", pc)
  /\ UNCHANGED <<name, objectVars, sigReceived, keepRunning, got, todo, clientVars, log>>

-----------------------------------------------------------------------------
\* The client.

\* Faulty variant: the result of shm_open is not checked.
OpenUnchecked(c) ==
  /\ Goto(c, "off", "show")
  /\ to' = [to EXCEPT ![c] = name]
  /\ UNCHANGED <<name, objectVars, serverVars, todo, entered, log>>

\* shm_open; without an object the client exits.
Open(c) ==
  /\ name # NoObject
  /\ Goto(c, "off", "show")
  /\ to' = [to EXCEPT ![c] = name]
  /\ UNCHANGED <<name, objectVars, serverVars, todo, entered, log>>

\* Printing server_pid reads the object: without a size, that is a SIGBUS.
ShowPid(c) ==
  /\ Goto(c, "show", IF object[to[c]] = "sized" THEN "enter" ELSE "killed")
  /\ UNCHANGED <<name, objectVars, serverVars, todo, clientVars, log>>

\* The user enters a name and an age.
Enter(c) ==
  /\ entered[c] < MaxRecords
  /\ Goto(c, "enter", "write")
  /\ entered' = [entered EXCEPT ![c] = @ + 1]
  /\ todo' = [todo EXCEPT ![c] = Fields]
  /\ UNCHANGED <<name, objectVars, serverVars, to, log>>

\* shm_ptr->user_data = input_data, one field.
WriteField(c) ==
  /\ pc[c] = "write"
  /\ \E f \in todo[c] :
       /\ data' = [data EXCEPT ![to[c]][f] = <<c, entered[c]>>]
       /\ todo' = [todo EXCEPT ![c] = @ \ {f}]
  /\ UNCHANGED <<name, object, pidWritten, serverVars, pc, clientVars, log>>

\* kill(server_pid, SIGUSR1).  Pid 0 is the client's own process group, where
\* the signal has no handler; a server that is gone gives an error message.
Wake(c) ==
  LET s == to[c] IN
  /\ pc[c] = "write" /\ todo[c] = {}
  /\ IF ~pidWritten[s] THEN pc' = [pc EXCEPT ![c] = "killed"] /\ UNCHANGED pending
     ELSE IF Running(s) THEN Signal(s, "USR1", [pc EXCEPT ![c] = "again"])
     ELSE pc' = [pc EXCEPT ![c] = "again"] /\ UNCHANGED pending
  /\ UNCHANGED <<name, objectVars, sigReceived, keepRunning, got, todo, clientVars, log>>

\* "Do you want to enter another record?"
Again(c) ==
  /\ Goto(c, "again", "enter")
  /\ UNCHANGED <<name, objectVars, serverVars, todo, clientVars, log>>

\* The answer is no, or the input ends.
Leave(c) ==
  /\ pc[c] \in {"enter", "again"}
  /\ pc' = [pc EXCEPT ![c] = "left"]
  /\ UNCHANGED <<name, objectVars, serverVars, todo, clientVars, log>>

-----------------------------------------------------------------------------

ServerSteps(s) == StartUp(s) \/ Loop(s)
ClientSteps(c) == ShowPid(c) \/ WriteField(c) \/ Wake(c)
Users ==
  \/ \E s \in Servers : Start(s) \/ Interrupt(s)
  \/ \E c \in Clients : Open(c) \/ Enter(c) \/ Again(c) \/ Leave(c)

Next ==
  \/ \E s \in Servers : ServerSteps(s) \/ Handle(s)
  \/ \E c \in Clients : ClientSteps(c)
  \/ Users

\* Running processes keep running and pending signals are delivered; users
\* need not do anything.
Fairness ==
  /\ \A s \in Servers : WF_vars(ServerSteps(s)) /\ WF_vars(Handle(s))
  /\ \A c \in Clients : WF_vars(ClientSteps(c))

Spec == Init /\ [][Next]_vars /\ Fairness

-----------------------------------------------------------------------------

Places ==
  {"off", "done", "failed", "killed", "sigint", "show", "enter", "write", "again", "left"}
    \cup Starting \cup Looping

TypeOK ==
  /\ name \in Servers \cup {NoObject}
  /\ object \in [Servers -> {"none", "empty", "sized"}]
  /\ pidWritten \in [Servers -> BOOLEAN]
  /\ data \in [Servers -> [Fields -> Values]]
  /\ pending \in [Servers -> SUBSET Signals]
  /\ sigReceived \in [Servers -> BOOLEAN]
  /\ keepRunning \in [Servers -> BOOLEAN]
  /\ got \in [Servers -> [Fields -> Values]]
  /\ pc \in [Procs -> Places]
  /\ todo \in [Procs -> SUBSET Fields]
  /\ to \in [Clients -> Servers \cup {NoObject}]
  /\ \A c \in Clients : pc[c] # "off" => to[c] \in Servers
  /\ entered \in [Clients -> 0..MaxRecords]
  /\ log \in Seq([Fields -> Values])

\* A record is on its way to the server: a client is between its write and its
\* signal, or the signal waits for its handler.
Coming(s) ==
  \/ \E c \in Clients : to[c] = s /\ pc[c] = "write"
  \/ "USR1" \in pending[s]

\* Nothing is on its way, and no handler has left its flag for main() either.
Quiet(s) == ~Coming(s) /\ ~sigReceived[s]

\* Between the copies of the loop, a record that the server has not read, or
\* has read torn, is not forgotten: sig_received says so, unless it is still
\* coming.  So the next wakeup reads it, however signals merge and handlers
\* interleave with the copy.  (Until then the server may sleep: pause() does
\* not look at the flag, see RecordReadBeforeSleep.)
UnreadIsFlagged ==
  \A s \in Servers :
    pc[s] \in {"loop", "announce", "pause", "woke"} /\ got[s] # data[s] =>
      Coming(s) \/ sigReceived[s]

\* The server goes back to sleep when it has read the record it was woken for
\* (README of the exercises, line 75): a server inside pause() with nothing on
\* its way has read what the object holds.
RecordReadBeforeSleep ==
  \A s \in Servers : pc[s] = "pause" /\ ~Coming(s) => got[s] = data[s]

\* SIGUSR1 at a server that sleeps is always answered: what a client has put
\* into the object by then is read whole, unless it is overwritten meanwhile or
\* the server has to stop.
WakeupReads ==
  \A s \in Servers, c \in Clients, n \in 1..MaxRecords :
    LET record == [f \in Fields |-> <<c, n>>]
    IN  pc[s] = "pause" /\ "USR1" \in pending[s] /\ data[s] = record
          ~> got[s] = record \/ data[s] # record \/ ~keepRunning[s]

\* The name is never left behind: it names the object of a server that still
\* runs, has created it, or that a signal ended before its handlers were in
\* place.
NoOrphanObject ==
  \A s \in Servers : name = s => (Running(s) /\ pc[s] # "create") \/ pc[s] = "killed"

\* The inductive invariant behind UnreadIsFlagged: the fields that main() has no
\* copy of ahead are those it has last read.
Unpublished == {"off", "create", "truncate", "map", "pid"}
Awake == {"sigusr1", "sigint", "loop", "announce", "pause", "woke"}

CopyInv ==
  \A s \in Servers :
    /\ pc[s] \in Unpublished \cup {"zero"} => got[s] = ZeroRecord
    /\ pc[s] \in Awake \cup {"zero", "read"} => pidWritten[s]
    /\ pc[s] \in Awake => todo[s] = {}
    /\ pc[s] \in Awake \cup {"zero", "read"} /\ Quiet(s) =>
         \A f \in Fields \ todo[s] : got[s][f] = data[s][f]

UnreadInv == TypeOK /\ CopyInv

\* A server that is inside pause() when SIGINT comes, or that has missed the
\* SIGINT and gets any other signal, cleans up and exits.
SleeperStops ==
  \A s \in Servers :
    pc[s] = "pause" /\ ("INT" \in pending[s] \/ (~keepRunning[s] /\ pending[s] # {}))
      ~> pc[s] = "done"

\* The server cleans up when it gets SIGINT (README of the exercises, line 76).
InterruptCleansUp ==
  \A s \in Servers : "INT" \in pending[s] ~> pc[s] = "done"
=============================================================================
