------------------------------ MODULE ShmChat ------------------------------
(***************************************************************************)
(* shared_memory/ex2_shm_chat: the chat room is a POSIX shared memory      *)
(* object.  A server unlinks the name, creates a new object under it and   *)
(* unlinks the name again when it ends.  A process that mapped an object   *)
(* keeps it after the name has gone or leads to another one, so there may  *)
(* be several rooms, of which the name leads to at most one.               *)
(***************************************************************************)
EXTENDS ChatRoom

VARIABLES
  name,      \* the room that SHM_NAME leads to, NoRoom when there is none
  object,    \* each room: "absent" (not yet created), "empty" or "sized"
  opened     \* the room a server has created, until it ends

vars == <<chatVars, name, object, opened>>
shmVars == <<name, object, opened>>

Init ==
  /\ ChatInit
  /\ name = NoRoom
  /\ object = [r \in Rooms |-> "absent"]
  /\ opened = [p \in Procs |-> NoRoom]

\* shm_unlink(SHM_NAME): whoever created the object the name leads to.
ShmUnlink == name' = NoRoom

Close(p) == opened' = [opened EXCEPT ![p] = NoRoom]

ServerBegin(p) ==
  /\ p \in Servers
  /\ starts[p] < MaxStarts
  /\ Main(p, "off", "open")
  /\ starts' = [starts EXCEPT ![p] = @ + 1]
  /\ ShmUnlink
  /\ UNCHANGED <<roomVars, at, rxPc, cancelled, readVars, inputs, spurious, object, opened>>

\* Faulty variant: without O_EXCL the object of another server is taken.
ServerOpenShares(p) ==
  /\ Main(p, "open", "truncate")
  /\ \E r \in Rooms :
       /\ IF name = NoRoom THEN object[r] = "absent" ELSE r = name
       /\ name' = r
       /\ opened' = [opened EXCEPT ![p] = r]
       /\ object' = [object EXCEPT ![r] = IF @ = "absent" THEN "empty" ELSE @]
  /\ UNCHANGED <<roomVars, at, rxPc, cancelled, readVars, boundVars>>

\* shm_open with O_CREAT | O_EXCL makes a new, empty object ...
ServerOpen(p) ==
  /\ Main(p, "open", "truncate")
  /\ name = NoRoom
  /\ \E r \in Rooms :
       /\ object[r] = "absent"
       /\ name' = r
       /\ opened' = [opened EXCEPT ![p] = r]
       /\ object' = [object EXCEPT ![r] = "empty"]
  /\ UNCHANGED <<roomVars, at, rxPc, cancelled, readVars, boundVars>>

\* ... and fails when another server has put its own under the name.
ServerOpenFails(p) ==
  /\ mainPc[p] = "open"
  /\ name # NoRoom
  /\ Off(p)
  /\ UNCHANGED <<roomVars, shmVars>>

ServerTruncate(p) ==
  /\ Main(p, "truncate", "map")
  /\ object' = [object EXCEPT ![opened[p]] = "sized"]
  /\ UNCHANGED <<roomVars, at, rxPc, cancelled, readVars, boundVars, name, opened>>

InitialisedByOther(p, r) ==
  \E q \in Procs \ {p} : opened[q] = r /\ mainPc[q] \in Initialising

ServerMap(p) ==
  /\ Main(p, "map", "initMutex")
  /\ Attach(p, opened[p], InitialisedByOther(p, opened[p]))
  /\ UNCHANGED <<mutex, count, slots, rxPc, cancelled, readVars, boundVars, shmVars>>

\* Faulty variant: a server that cannot go on leaves the name behind.
ServerFailsKeepsName(p) ==
  /\ p \in Servers
  /\ mainPc[p] \in {"truncate", "map", "create"}
  /\ Off(p) /\ Close(p)
  /\ UNCHANGED <<roomVars, name, object>>

\* ftruncate, mmap or pthread_create fails: the name is removed.
ServerFails(p) ==
  /\ p \in Servers
  /\ mainPc[p] \in {"truncate", "map", "create"}
  /\ Off(p) /\ Close(p)
  /\ ShmUnlink
  /\ UNCHANGED <<roomVars, object>>

ServerInitMutex(p) ==
  /\ Main(p, "initMutex", "initCond")
  /\ Unlock(at[p])
  /\ Touch(p)
  /\ UNCHANGED <<count, slots, at, rxPc, cancelled, readVars, boundVars, shmVars>>

ServerInitCond(p) ==
  /\ Main(p, "initCond", "reset")
  /\ Touch(p)
  /\ UNCHANGED <<mutex, count, slots, at, rxPc, cancelled, readVars, boundVars, shmVars>>

\* room->msg_count = 0; a server prints no history.
ServerReset(p) ==
  /\ Main(p, "reset", "create")
  /\ count' = [count EXCEPT ![at[p]] = 0]
  /\ Touch(p)
  /\ UNCHANGED <<mutex, slots, at, rxPc, cancelled, readVars, boundVars, shmVars>>

ServerStart(p) ==
  \/ ServerOpen(p) \/ ServerOpenFails(p) \/ ServerTruncate(p) \/ ServerMap(p)
  \/ ServerFails(p) \/ ServerInitMutex(p) \/ ServerInitCond(p) \/ ServerReset(p)
  \/ p \in Servers /\ CreateReceiver(p) /\ UNCHANGED shmVars

\* A client maps whatever the name leads to, sized or not.
ClientOpen(p) ==
  /\ p \in Clients
  /\ name # NoRoom
  /\ starts[p] < MaxStarts
  /\ Main(p, "off", "lockHistory")
  /\ starts' = [starts EXCEPT ![p] = @ + 1]
  /\ Attach(p, name, InitialisedByOther(p, name))
  /\ UNCHANGED <<mutex, count, slots, rxPc, cancelled, readVars, inputs, spurious, shmVars>>

\* Touching an object that has no size yet: SIGBUS ends the client.
ClientBusError(p) ==
  /\ mainPc[p] = "lockHistory"
  /\ object[at[p]] = "empty"
  /\ Off(p)
  /\ UNCHANGED <<roomVars, shmVars>>

\* The old messages, then the receiver.
ClientHistory(p) ==
  /\ p \in Clients
  /\ \/ mainPc[p] = "lockHistory" /\ object[at[p]] = "sized" /\ HistoryLock(p)
     \/ HistoryPrint(p)
     \/ CreateReceiver(p)
     \/ mainPc[p] = "create" /\ Off(p) /\ UNCHANGED roomVars    \* pthread_create fails
  /\ UNCHANGED shmVars

ServerReceiver(p) == p \in Servers /\ Receiver(p) /\ UNCHANGED shmVars
ClientReceiver(p) == p \in Clients /\ Receiver(p) /\ UNCHANGED shmVars

ServerSend(p) == p \in Servers /\ Send(p) /\ UNCHANGED shmVars
ClientSend(p) == p \in Clients /\ Send(p) /\ UNCHANGED shmVars

\* After the join: munmap, then shm_unlink and the end.
ServerJoin(p) ==
  /\ p \in Servers
  /\ rxPc[p] = "dead"
  /\ Main(p, "join", "unlink")
  /\ at' = [at EXCEPT ![p] = NoRoom]
  /\ UNCHANGED <<roomVars, rxPc, cancelled, readVars, boundVars, shmVars>>

ServerEnd(p) ==
  /\ mainPc[p] = "unlink"
  /\ Off(p) /\ Close(p)
  /\ ShmUnlink
  /\ UNCHANGED <<roomVars, object>>

ServerExit(p) == ServerJoin(p) \/ ServerEnd(p)

\* Faulty variant: the client, too, removes the name.
ClientExitUnlinks(p) ==
  p \in Clients /\ Join(p) /\ ShmUnlink /\ UNCHANGED <<object, opened>>

ClientExit(p) == p \in Clients /\ Join(p) /\ UNCHANGED shmVars

MainSteps(p) ==
  \/ ServerStart(p) \/ ServerSend(p) \/ ServerExit(p)
  \/ ClientBusError(p) \/ ClientHistory(p) \/ ClientSend(p) \/ ClientExit(p)
RxSteps(p) == ServerReceiver(p) \/ ClientReceiver(p)

User(p) ==
  \/ ServerBegin(p) \/ ClientOpen(p)
  \/ (Type(p) \/ Exit(p) \/ RxSpurious(p)) /\ UNCHANGED shmVars

Next == \E p \in Procs : MainSteps(p) \/ RxSteps(p) \/ User(p)

\* Threads keep running; users and the environment may do nothing.
Fairness == \A p \in Procs : WF_vars(MainSteps(p)) /\ WF_vars(RxSteps(p))

Spec == Init /\ [][Next]_vars /\ Fairness

-----------------------------------------------------------------------------

TypeOK ==
  /\ ChatTypeOK
  /\ name \in Rooms \cup {NoRoom}
  /\ object \in [Rooms -> {"absent", "empty", "sized"}]
  /\ opened \in [Procs -> Rooms \cup {NoRoom}]

\* The name never outlives the servers: whenever it leads to an object, the
\* server that created that object is still running, so nothing is left in
\* /dev/shm after the servers, whichever of their steps failed and however
\* several servers got in each other's way.
NoOrphanName ==
  name # NoRoom => \E p \in Servers : opened[p] = name /\ mainPc[p] # "off"

\* A server that nobody displaced can be found: as long as no other server was
\* ever started, the name leads to its room from the moment the room exists to
\* the server's end, whatever clients do.
ServerReachable ==
  \A p \in Servers :
    opened[p] # NoRoom /\ (\A q \in Servers \ {p} : starts[q] = 0) =>
      name = opened[p]
=============================================================================
