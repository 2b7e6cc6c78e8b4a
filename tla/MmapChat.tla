------------------------------ MODULE MmapChat ------------------------------
(***************************************************************************)
(* shared_memory/ex1_mmap_chat: the chat room lives in the mapped file     *)
(* chat_history.dat, which outlives the processes.  A server creates and   *)
(* sizes the file if it has to and initialises mutex and condition         *)
(* variable at every start, outside any lock; a client only maps a file    *)
(* that has its full size.                                                 *)
(***************************************************************************)
EXTENDS ChatRoom

CONSTANT File    \* the room in chat_history.dat

ASSUME FileAssumption == Rooms = {File}

VARIABLES
  object,    \* the file: "absent", "empty" or "sized"
  exists     \* the local variable exists of a starting server, else FALSE

vars == <<chatVars, object, exists>>

Init ==
  /\ ChatInit
  /\ object = "absent"
  /\ exists = [p \in Procs |-> FALSE]

InitialisedByOther(p) == \E q \in Procs \ {p} : mainPc[q] \in Initialising

\* open with O_CREAT, then fstat.
ServerOpen(p) ==
  /\ p \in Servers
  /\ starts[p] < MaxStarts
  /\ Main(p, "off", IF object = "sized" THEN "map" ELSE "truncate")
  /\ starts' = [starts EXCEPT ![p] = @ + 1]
  /\ exists' = [exists EXCEPT ![p] = object = "sized"]
  /\ object' = IF object = "absent" THEN "empty" ELSE object
  /\ UNCHANGED <<roomVars, at, rxPc, cancelled, readVars, inputs, spurious>>

\* The file gets its size; its new bytes are zero.
ServerTruncate(p) ==
  /\ Main(p, "truncate", "map")
  /\ object' = "sized"
  /\ UNCHANGED <<roomVars, at, rxPc, cancelled, readVars, boundVars, exists>>

ServerMap(p) ==
  /\ Main(p, "map", "initMutex")
  /\ Attach(p, File, InitialisedByOther(p))
  /\ UNCHANGED <<mutex, count, slots, rxPc, cancelled, readVars, boundVars, object, exists>>

\* ftruncate or mmap fails.
ServerStartFails(p) ==
  /\ mainPc[p] \in {"truncate", "map"}
  /\ Off(p)
  /\ exists' = [exists EXCEPT ![p] = FALSE]
  /\ UNCHANGED <<roomVars, object>>

ServerInitMutex(p) ==
  /\ Main(p, "initMutex", "initCond")
  /\ Unlock(at[p])
  /\ Touch(p)
  /\ UNCHANGED <<count, slots, at, rxPc, cancelled, readVars, boundVars, object, exists>>

ServerInitCond(p) ==
  /\ Main(p, "initCond", "reset")
  /\ Touch(p)
  /\ UNCHANGED <<mutex, count, slots, at, rxPc, cancelled, readVars, boundVars, object, exists>>

\* Faulty variant: the old history is thrown away at every start.
ServerResetAlways(p) ==
  /\ Main(p, "reset", "lockHistory")
  /\ count' = [count EXCEPT ![at[p]] = 0]
  /\ Touch(p)
  /\ exists' = [exists EXCEPT ![p] = FALSE]
  /\ UNCHANGED <<mutex, slots, at, rxPc, cancelled, readVars, boundVars, object>>

\* if (!exists) room->msg_count = 0
ServerReset(p) ==
  /\ Main(p, "reset", "lockHistory")
  /\ IF exists[p] THEN UNCHANGED <<count, raced>>
     ELSE count' = [count EXCEPT ![at[p]] = 0] /\ Touch(p)
  /\ exists' = [exists EXCEPT ![p] = FALSE]
  /\ UNCHANGED <<mutex, slots, at, rxPc, cancelled, readVars, boundVars, object>>

ServerStart(p) ==
  \/ ServerTruncate(p) \/ ServerMap(p) \/ ServerStartFails(p)
  \/ ServerInitMutex(p) \/ ServerInitCond(p) \/ ServerReset(p)

\* A client that finds no file of full size exits at once.
ClientOpen(p) ==
  /\ p \in Clients
  /\ object = "sized"
  /\ starts[p] < MaxStarts
  /\ Main(p, "off", "lockHistory")
  /\ starts' = [starts EXCEPT ![p] = @ + 1]
  /\ Attach(p, File, InitialisedByOther(p))
  /\ UNCHANGED <<mutex, count, slots, rxPc, cancelled, readVars, inputs, spurious, object, exists>>

\* pthread_create fails: unmap and exit.
CreateFails(p) ==
  /\ mainPc[p] = "create"
  /\ Off(p)
  /\ UNCHANGED roomVars

\* The two programs, from the history to the exit.

ServerHistory(p) ==
  p \in Servers /\ (History(p) \/ CreateReceiver(p) \/ CreateFails(p))
ClientHistory(p) ==
  p \in Clients /\ (History(p) \/ CreateReceiver(p) \/ CreateFails(p))

ServerReceiver(p) == p \in Servers /\ Receiver(p)
ClientReceiver(p) == p \in Clients /\ Receiver(p)

ServerSend(p) == p \in Servers /\ Send(p)
ClientSend(p) == p \in Clients /\ Send(p)

ServerExit(p) == p \in Servers /\ Join(p)
ClientExit(p) == p \in Clients /\ Join(p)

\* What a process does by itself, and what its user and environment do to it.
Own(p) ==
  \/ ServerStart(p)
  \/ /\ \/ ServerHistory(p) \/ ServerReceiver(p) \/ ServerSend(p) \/ ServerExit(p)
        \/ ClientHistory(p) \/ ClientReceiver(p) \/ ClientSend(p) \/ ClientExit(p)
     /\ UNCHANGED <<object, exists>>

User(p) ==
  \/ ServerOpen(p) \/ ClientOpen(p)
  \/ (Type(p) \/ Exit(p) \/ RxSpurious(p)) /\ UNCHANGED <<object, exists>>

Next == \E p \in Procs : Own(p) \/ User(p)

\* Each thread keeps running; nobody has to type, to leave or to start, and
\* no spurious wakeup has to come.
MainSteps(p) ==
  \/ ServerStart(p)
  \/ (ServerHistory(p) \/ ClientHistory(p) \/ ServerSend(p) \/ ClientSend(p)
        \/ ServerExit(p) \/ ClientExit(p)) /\ UNCHANGED <<object, exists>>
RxSteps(p) ==
  (ServerReceiver(p) \/ ClientReceiver(p)) /\ UNCHANGED <<object, exists>>

Fairness == \A p \in Procs : WF_vars(MainSteps(p)) /\ WF_vars(RxSteps(p))

Spec == Init /\ [][Next]_vars /\ Fairness

-----------------------------------------------------------------------------

TypeOK ==
  /\ ChatTypeOK
  /\ object \in {"absent", "empty", "sized"}
  /\ exists \in [Procs -> BOOLEAN]

\* A message that was stored in the file stays there: no process, and no
\* restart, takes one back (README of the exercises, lines 31 and 34).
HistoryKept == [][count'[File] >= count[File]]_vars

\* "/exit" ends the program (README of the exercises, line 35).
ExitCompletes == \A p \in Procs : mainPc[p] = "join" ~> mainPc[p] = "off"
=============================================================================
