--------------------------- MODULE ShmChatProofs ---------------------------
(***************************************************************************)
(* Theorems about the chat room in POSIX shared memory, for any number of  *)
(* servers, clients and rooms.                                             *)
(***************************************************************************)
EXTENDS ShmChat, ChatRoomProofs

\* The places that only a server reaches.
ServerOnly ==
  {"open", "truncate", "map", "initMutex", "initCond", "reset", "unlink"}

\* What a starting server has opened, and that a name has its server.
OpenOK ==
  /\ name \in Rooms \cup {NoRoom}
  /\ opened \in [Procs -> Rooms \cup {NoRoom}]
  /\ \A p \in Procs :
       /\ mainPc[p] \in {"truncate", "map"} => opened[p] \in Rooms
       /\ mainPc[p] \in {"off", "open"} => opened[p] = NoRoom
       /\ mainPc[p] \in ServerOnly => p \in Servers
       /\ mainPc[p] = "lockHistory" => p \in Clients
       /\ opened[p] # NoRoom => p \in Servers
  /\ NoOrphanName

ShmInv == LockShape /\ OpenOK

LEMMA ShmInit == Init => ShmInv
  BY ChatInitLock, MarksAssumption
  DEF Init, ChatInit, ShmInv, OpenOK, NoOrphanName, ServerOnly

\* The lock of each room.
LEMMA ShmLock == ShmInv /\ [Next]_vars => LockShape'
<1> SUFFICES ASSUME ShmInv, [Next]_vars PROVE LockShape'
  OBVIOUS
<1> USE DEF ShmInv
<1>1. CASE UNCHANGED vars
  BY <1>1 DEF vars, chatVars, roomVars, LockShape, ShapeOK, Placed,
              MutualExclusion, MainWorks, RxWorks
<1>2. ASSUME NEW p \in Procs, MainSteps(p) \/ RxSteps(p) \/ User(p)
      PROVE  LockShape'
  <2> USE DEF MainPlaces, Mapped, roomVars
  <2>1. CASE ServerOpen(p)
    BY <2>1, StartLock DEF ServerOpen
  <2>2. CASE ServerOpenFails(p) \/ ServerFails(p) \/ ClientBusError(p)
    BY <2>2, OffLock DEF ServerOpenFails, ServerFails, ClientBusError
  <2>3. CASE ServerTruncate(p)
    BY <2>3, StartLock DEF ServerTruncate
  <2>4. CASE ServerMap(p)
    <3>1. opened[p] \in Rooms
      BY <2>4 DEF ServerMap, Main, OpenOK
    <3> QED BY <2>4, <3>1, AttachLock DEF ServerMap, InitialisedByOther
  <2>5. CASE ServerInitMutex(p)
    BY <2>5, InitMutexLock DEF ServerInitMutex
  <2>6. CASE ServerInitCond(p) \/ ServerReset(p)
    BY <2>6, StartLock DEF ServerInitCond, ServerReset
  <2>7. CASE ClientHistory(p)
    BY <2>7, MainLock, OffLock DEF ClientHistory, History
  <2>8. CASE ServerJoin(p)
    BY <2>8, MarksAssumption
    DEF ServerJoin, Main, LockShape, ShapeOK, Placed, MutualExclusion,
        MainWorks, RxWorks
  <2>9. CASE ServerEnd(p)
    BY <2>9, OffLock DEF ServerEnd
  <2>10. CASE ServerBegin(p)
    BY <2>10, StartLock DEF ServerBegin
  <2>11. CASE ClientOpen(p)
    BY <2>11, AttachLock DEF ClientOpen, InitialisedByOther, OpenOK
  <2> QED
    BY <1>2, <2>1, <2>2, <2>3, <2>4, <2>5, <2>6, <2>7, <2>8, <2>9, <2>10, <2>11,
       ReceiverLock, MainLock, JoinLock, SpuriousLock
    DEF MainSteps, RxSteps, User, ServerStart, ServerReceiver, ClientReceiver,
        ServerSend, ClientSend, ServerExit, ClientExit
<1> QED
  BY <1>1, <1>2 DEF Next

\* The name and the servers: each step that ends a server removes the name,
\* and a name is given only to a room its server keeps open.
LEMMA ShmName == ShmInv /\ [Next]_vars => OpenOK'
<1> SUFFICES ASSUME ShmInv, [Next]_vars PROVE OpenOK'
  OBVIOUS
<1> USE MarksAssumption
    DEF ShmInv, OpenOK, NoOrphanName, LockShape, ShapeOK, MainPlaces, Main,
        ServerOnly, ShmUnlink, Close, shmVars
<1>1. CASE UNCHANGED vars
  BY <1>1 DEF vars, chatVars
<1>2. ASSUME NEW p \in Procs,
             \/ Receiver(p) \/ History(p) \/ CreateReceiver(p) \/ Send(p)
             \/ Type(p) \/ Exit(p) \/ RxSpurious(p),
             UNCHANGED shmVars
      PROVE  OpenOK'
  <2>1. \A q \in Procs :
          /\ mainPc'[q] \in ServerOnly \cup {"off", "lockHistory"} =>
               mainPc[q] = mainPc'[q]
          /\ mainPc'[q] = "off" => mainPc[q] = "off"
    BY <1>2
    DEF Receiver, RxLock, RxWait, RxRelock, RxBegin, RxPrint, RxAdvance,
        RxDieWaiting, RxDiePrinting, History, HistoryLock, HistoryPrint,
        CreateReceiver, Send, SendLock, SendWrite, SendRefused, SendBump,
        SendUnlock, Type, Exit, RxSpurious
  <2> QED BY <1>2, <2>1, ProcsAssumption DEF Procs
<1>3. ASSUME NEW p \in Procs, MainSteps(p) \/ RxSteps(p) \/ User(p)
      PROVE  OpenOK'
  <2>1. CASE ServerBegin(p)
    BY <2>1 DEF ServerBegin
  <2>2. CASE ServerOpen(p)
    BY <2>2 DEF ServerOpen
  <2>3. CASE ServerOpenFails(p)
    BY <2>3 DEF ServerOpenFails, Off
  <2>4. CASE ServerTruncate(p)
    BY <2>4 DEF ServerTruncate
  <2>5. CASE ServerMap(p)
    BY <2>5 DEF ServerMap
  <2>6. CASE ServerFails(p)
    BY <2>6 DEF ServerFails, Off
  <2>7. CASE ServerInitMutex(p) \/ ServerInitCond(p) \/ ServerReset(p)
    <3>1. CASE ServerInitMutex(p)
      BY <3>1 DEF ServerInitMutex
    <3>2. CASE ServerInitCond(p)
      BY <3>2 DEF ServerInitCond
    <3>3. CASE ServerReset(p)
      BY <3>3 DEF ServerReset
    <3> QED BY <2>7, <3>1, <3>2, <3>3
  <2>8. CASE ServerJoin(p)
    BY <2>8 DEF ServerJoin
  <2>9. CASE ServerEnd(p)
    BY <2>9 DEF ServerEnd, Off
  <2>10. CASE ClientOpen(p)
    BY <2>10 DEF ClientOpen
  <2>11. CASE p \in Clients /\ Off(p) /\ UNCHANGED shmVars
    <3>1. \A q \in Servers : q # p /\ q \in Procs
      BY <2>11, ProcsAssumption DEF Procs
    <3>2. \A q \in Servers : mainPc'[q] = mainPc[q]
      BY <2>11, <3>1 DEF Off
    <3>3. NoOrphanName'
      BY <2>11, <3>2
    <3>4. opened[p] = NoRoom
      BY <2>11, <3>1
    <3> QED BY <2>11, <3>3, <3>4 DEF Off
  <2>12. CASE ClientBusError(p)
    BY <2>11, <2>12 DEF ClientBusError
  <2> QED
    BY <1>2, <1>3, <2>1, <2>2, <2>3, <2>4, <2>5, <2>6, <2>7, <2>8, <2>9, <2>10,
       <2>11, <2>12
    DEF MainSteps, RxSteps, User, ServerStart, ServerReceiver, ClientReceiver,
        ServerSend, ClientSend, ServerExit, ClientExit, ClientHistory, History,
        Join
<1> QED
  BY <1>1, <1>3 DEF Next

LEMMA ShmInvariance == Spec => []ShmInv
<1>1. ShmInv /\ [Next]_vars => ShmInv'
  BY ShmLock, ShmName DEF ShmInv
<1> QED BY ShmInit, <1>1, PTL DEF Spec

\* No two threads work on one room at the same time, as long as no server
\* initialised it under a user.
THEOREM ShmMutualExclusion == Spec => []MutualExclusion
  BY ShmInvariance, PTL DEF ShmInv, LockShape

\* SHM_NAME never leads to an object whose server has ended, however many
\* servers start, fail and end at once.
THEOREM ShmNoOrphanName == Spec => []NoOrphanName
  BY ShmInvariance, PTL DEF ShmInv, OpenOK

-----------------------------------------------------------------------------
\* The start of a server empties its room.  That drops no message, because the
\* object is new: nobody can have used it before it had a name, and a client
\* that finds the name before the server is done makes the room raced.

UnusedOK ==
  /\ object \in [Rooms -> {"absent", "empty", "sized"}]
  /\ \A r \in Rooms :
       object[r] = "absent" =>
         /\ count[r] = 0 /\ name # r
         /\ \A p \in Procs : at[p] # r /\ opened[p] # r
  /\ \A p, q \in Procs : opened[p] = opened[q] /\ opened[p] # NoRoom => p = q
  /\ \A p \in Procs :
       /\ mainPc[p] \in {"initMutex", "initCond", "reset"} => at[p] = opened[p]
       /\ mainPc[p] \in Initialising => opened[p] \in Rooms
       /\ mainPc[p] \in Initialising /\ ~raced[opened[p]] =>
            /\ count[opened[p]] = 0
            /\ \A q \in Procs \ {p} : at[q] # opened[p]

\* A server that runs has been started.
StartedOK == \A p \in Servers : starts[p] = 0 => mainPc[p] = "off"

\* A process that has not come to the history has shown nothing.
BlankOK ==
  \A p \in Procs :
    mainPc[p] \in Initialising \cup {"off", "open"} =>
      base[p] = 0 /\ readIndex[p] = 0 /\ shown[p] = << >>

ShmAll ==
  /\ ShmInv /\ ViewInv /\ UnusedOK /\ StartedOK /\ BlankOK
  /\ ServerReachable

\* A room keeps its messages.
RoomKept(r) ==
  /\ count'[r] >= count[r]
  /\ \A n \in Indices : n < count[r] => slots'[r][n] = slots[r][n]

LEMMA ShmAllInit == Init => ShmAll
<1> SUFFICES ASSUME Init PROVE ShmAll
  OBVIOUS
<1>1. ShmInv /\ ViewInv
  BY ShmInit, ChatInitView DEF Init
<1>2. UnusedOK
  BY MarksAssumption DEF Init, ChatInit, UnusedOK, Initialising
<1>3. StartedOK /\ BlankOK /\ ServerReachable
  BY DEF Init, ChatInit, StartedOK, BlankOK, ServerReachable, Procs
<1> QED BY <1>1, <1>2, <1>3 DEF ShmAll

\* The steps that both exercises have in common.
LEMMA ShmShared ==
  ASSUME NEW p \in Procs, ShmAll, UNCHANGED shmVars,
         \/ Receiver(p) \/ History(p) \/ CreateReceiver(p) \/ Send(p)
         \/ Type(p) \/ Exit(p) \/ RxSpurious(p) \/ Join(p)
  PROVE  /\ ViewInv' /\ UnusedOK' /\ StartedOK' /\ BlankOK'
         /\ ServerReachable'
         /\ \A r \in Rooms : RoomKept(r)
<1> USE DEF ShmAll
<1>1. ViewInv'
  BY ChatView
<1>2. DataOK' /\ Kept /\ (count' = count \/ mainPc[p] = "bump")
  BY ChatKept DEF ViewInv
<1>3. /\ \A q \in Procs : at'[q] = at[q] \/ at'[q] = NoRoom
      /\ \A q \in Procs :
           mainPc'[q] \in Initialising => mainPc[q] = mainPc'[q]
      /\ mainPc[p] = "off" => mainPc' = mainPc
      /\ \A q \in Procs \ {p} : mainPc'[q] = mainPc[q] /\ at'[q] = at[q]
      /\ mainPc[p] \in Initialising => at' = at /\ mainPc' = mainPc
      /\ raced' = raced /\ starts' = starts
  BY MarksAssumption
  DEF ShmInv, LockShape, ShapeOK, Receiver, RxLock, RxWait, RxRelock,
      RxBegin, RxPrint, RxAdvance, RxDieWaiting, RxDiePrinting, History,
      HistoryLock, HistoryPrint, CreateReceiver, Send, SendLock, SendWrite,
      SendRefused, SendBump, SendUnlock, Type, Exit, RxSpurious, Join, Off,
      Main, Rx, Initialising, roomVars, boundVars
<1>4. \A r \in Rooms : count'[r] = count[r] \/ (mainPc[p] = "bump" /\ at[p] = r)
  <2>1. CASE count' = count
    BY <2>1
  <2>2. CASE mainPc[p] = "bump"
    <3>1. count' = [count EXCEPT ![at[p]] = @ + 1] \/ count' = count
      BY <2>2
      DEF Receiver, RxLock, RxWait, RxRelock, RxBegin, RxPrint, RxAdvance,
          RxDieWaiting, RxDiePrinting, History, HistoryLock, HistoryPrint,
          CreateReceiver, Send, SendLock, SendWrite, SendRefused, SendBump,
          SendUnlock, Type, Exit, RxSpurious, Join, Off, roomVars
    <3> QED BY <2>2, <3>1 DEF ViewInv, DataOK
  <2> QED BY <1>2, <2>1, <2>2
<1>5. UnusedOK'
  <2> USE DEF UnusedOK, shmVars
  <2>1. \A r \in Rooms :
          object'[r] = "absent" =>
            /\ count'[r] = 0 /\ name' # r
            /\ \A q \in Procs : at'[q] # r /\ opened'[q] # r
    BY <1>3, <1>4, MarksAssumption
  <2>2. ASSUME NEW q \in Procs, mainPc'[q] \in Initialising
        PROVE  /\ mainPc'[q] \in {"initMutex", "initCond", "reset"} =>
                    at'[q] = opened'[q]
               /\ opened'[q] \in Rooms
               /\ ~raced'[opened'[q]] =>
                    /\ count'[opened'[q]] = 0
                    /\ \A k \in Procs \ {q} : at'[k] # opened'[q]
    <3>1. mainPc[q] = mainPc'[q] /\ mainPc[q] \in Initialising /\ at'[q] = at[q]
      BY <1>3, <2>2
    <3>2. opened[q] \in Rooms
      BY <3>1
    <3>3. ASSUME ~raced[opened[q]] PROVE count'[opened[q]] = 0
      <4>1. count[opened[q]] = 0 /\ \A k \in Procs \ {q} : at[k] # opened[q]
        BY <3>1, <3>3
      <4>2. mainPc[p] = "bump" => p # q
        BY <3>1 DEF Initialising
      <4> QED BY <1>4, <3>2, <4>1, <4>2
    <3> QED BY <1>3, <3>1, <3>2, <3>3, MarksAssumption
  <2>3. object' \in [Rooms -> {"absent", "empty", "sized"}]
    OBVIOUS
  <2>4. \A k, q \in Procs : opened'[k] = opened'[q] /\ opened'[k] # NoRoom => k = q
    OBVIOUS
  <2>5. \A q \in {"initMutex", "initCond", "reset"} : q \in Initialising
    BY DEF Initialising
  <2> QED BY <2>1, <2>2, <2>3, <2>4, <2>5
<1>6. StartedOK'
  <2>1. \A q \in Servers : q \in Procs
    BY DEF Procs
  <2> QED BY <1>3, <2>1 DEF StartedOK
<1>7. ServerReachable'
  BY <1>3 DEF ServerReachable, shmVars
<1>8. \A r \in Rooms : RoomKept(r)
  BY <1>2 DEF Kept, RoomKept
<1>9. BlankOK'
  <2> USE DEF BlankOK, ShmInv, LockShape, ShapeOK, ViewInv, ReadOK, Main, Rx,
              Initialising
  <2>1. CASE RxPrint(p) \/ RxAdvance(p) \/ RxDiePrinting(p)
    <3>1. mainPc[p] \notin Initialising \cup {"off", "open"} /\ mainPc' = mainPc
      BY <2>1 DEF RxPrint, RxAdvance, RxDiePrinting, Placed
    <3>2. \A q \in Procs \ {p} : /\ base'[q] = base[q] /\ shown'[q] = shown[q]
                                /\ readIndex'[q] = readIndex[q]
      BY <2>1 DEF RxPrint, RxAdvance, RxDiePrinting
    <3> QED BY <3>1, <3>2
  <2>2. CASE HistoryPrint(p)
    BY <2>2 DEF HistoryPrint
  <2>3. CASE Join(p)
    BY <2>3 DEF Join, Off
  <2>4. CASE ~(RxPrint(p) \/ RxAdvance(p) \/ RxDiePrinting(p)
                 \/ HistoryPrint(p) \/ Join(p))
    <3>1. /\ base' = base /\ readIndex' = readIndex /\ shown' = shown
          /\ \A q \in Procs :
               mainPc'[q] \in Initialising \cup {"off", "open"} =>
                 mainPc[q] = mainPc'[q]
      BY <2>4
      DEF Receiver, RxLock, RxWait, RxRelock, RxBegin, RxDieWaiting, History,
          HistoryLock, CreateReceiver, Send, SendLock, SendWrite, SendRefused,
          SendBump, SendUnlock, Type, Exit, RxSpurious, readVars
    <3> QED BY <3>1
  <2> QED BY <2>1, <2>2, <2>3, <2>4
<1> QED BY <1>1, <1>5, <1>6, <1>7, <1>8, <1>9

\* The start and the end of a process.
StartOrEnd(p) ==
  \/ ServerBegin(p) \/ ServerOpen(p) \/ ServerOpenFails(p)
  \/ ServerTruncate(p) \/ ServerMap(p) \/ ServerFails(p)
  \/ ServerInitMutex(p) \/ ServerInitCond(p) \/ ServerReset(p)
  \/ ServerJoin(p) \/ ServerEnd(p) \/ ClientOpen(p)
  \/ p \in Clients /\ Off(p) /\ UNCHANGED <<roomVars, shmVars>>

\* The steps of it in which the process is gone at once.
LEMMA ShmGone ==
  ASSUME NEW p \in Procs,
         \/ ServerOpenFails(p) \/ ServerFails(p) \/ ServerEnd(p)
         \/ p \in Clients /\ Off(p) /\ UNCHANGED <<roomVars, shmVars>>
  PROVE  Off(p) /\ UNCHANGED <<roomVars, object>>
  BY DEF ServerOpenFails, ServerFails, ServerEnd, shmVars

\* A step at the start or the end touches only its own process, and a room
\* that is raced stays so.
LEMMA ShmOnly ==
  ASSUME NEW p \in Procs, ShmAll, StartOrEnd(p)
  PROVE  /\ ReadOK' /\ CancelOK'
         /\ \A r \in Rooms : raced[r] => raced'[r]
         /\ \A q \in Procs \ {p} :
              /\ mainPc'[q] = mainPc[q] /\ at'[q] = at[q]
              /\ base'[q] = base[q] /\ shown'[q] = shown[q]
              /\ cursor'[q] = cursor[q] /\ readIndex'[q] = readIndex[q]
              /\ rxPc'[q] = rxPc[q]
         /\ mainPc'[p] \notin Chatting \/ ServerReset(p)
         /\ BlankOK'
<1> USE BoundsAssumption
    DEF ShmAll, ViewInv, LockShape, ShapeOK, Main, Chatting, Initialising,
        roomVars, readVars, boundVars
<1>1. CASE Off(p) /\ UNCHANGED <<roomVars, object>>
  <2>1. ReadOK'
    BY <1>1, OffRead
  <2>2. CancelOK' /\ BlankOK'
    BY <1>1 DEF Off, CancelOK, BlankOK, ReadOK
  <2> QED BY <1>1, <2>1, <2>2 DEF Off, ReadOK
<1>2. CASE ServerBegin(p)
  BY <1>2 DEF ServerBegin, CancelOK, ReadOK, BlankOK
<1>3. CASE ServerOpen(p)
  BY <1>3 DEF ServerOpen, CancelOK, ReadOK, BlankOK
<1>4. CASE ServerTruncate(p)
  BY <1>4 DEF ServerTruncate, CancelOK, ReadOK, BlankOK
<1>5. CASE ServerMap(p)
  BY <1>5 DEF ServerMap, Attach, CancelOK, ReadOK, BlankOK
<1>6. CASE ServerInitMutex(p)
  BY <1>6 DEF ServerInitMutex, Touch, CancelOK, ReadOK, BlankOK
<1>7. CASE ServerInitCond(p)
  BY <1>7 DEF ServerInitCond, Touch, CancelOK, ReadOK, BlankOK
<1>8. CASE ServerReset(p)
  BY <1>8 DEF ServerReset, Touch, CancelOK, ReadOK, BlankOK
<1>9. CASE ServerJoin(p)
  BY <1>9 DEF ServerJoin, CancelOK, ReadOK, BlankOK
<1>10. CASE ClientOpen(p)
  BY <1>10 DEF ClientOpen, Attach, CancelOK, ReadOK, BlankOK
<1> QED
  BY <1>1, <1>2, <1>3, <1>4, <1>5, <1>6, <1>7, <1>8, <1>9, <1>10, ShmGone
  DEF StartOrEnd

\* The count is only touched by the reset, which empties a room that is empty
\* already or raced.
LEMMA ShmKept ==
  ASSUME NEW p \in Procs, ShmAll, StartOrEnd(p)
  PROVE  /\ DataOK'
         /\ \A r \in Rooms : raced'[r] \/ RoomKept(r)
         /\ slots' = slots
         /\ count' = count \/ (ServerReset(p) /\ count' = [count EXCEPT ![at[p]] = 0])
         /\ ServerReset(p) => at[p] = opened[p] /\ at[p] \in Rooms
<1>1. CASE UNCHANGED <<count, slots, inputs>>
  <2>1. DataOK' /\ Kept
    BY <1>1, QuietKept DEF ShmAll, ViewInv
  <2>2. ServerReset(p) => at[p] = opened[p] /\ at[p] \in Rooms
    BY DEF ServerReset, Main, ShmAll, UnusedOK, Initialising
  <2> QED BY <1>1, <2>1, <2>2 DEF Kept, RoomKept
<1>2. CASE ServerReset(p)
  <2>1. /\ at[p] = opened[p] /\ at[p] \in Rooms
        /\ count' = [count EXCEPT ![at[p]] = 0] /\ slots' = slots
        /\ inputs' = inputs
    BY <1>2 DEF ServerReset, Main, ShmAll, UnusedOK, Initialising, boundVars
  <2>2. DataOK'
    BY <2>1 DEF ShmAll, ViewInv, DataOK
  <2>3. raced[at[p]] \/ count[at[p]] = 0
    BY <1>2, <2>1 DEF ServerReset, Main, ShmAll, UnusedOK, Initialising
  <2>4. raced[at[p]] => raced'[at[p]]
    BY <2>1, ShmOnly
  <2>5. ASSUME NEW r \in Rooms PROVE raced'[r] \/ RoomKept(r)
    <3>1. CASE r # at[p]
      BY <2>1, <3>1 DEF RoomKept, ShmAll, ViewInv, DataOK
    <3>2. CASE r = at[p]
      BY <2>1, <2>3, <2>4, <3>2 DEF RoomKept, ShmAll, ViewInv, DataOK, Indices
    <3> QED BY <3>1, <3>2
  <2> QED BY <1>2, <2>1, <2>2, <2>5
<1>3. ServerReset(p) \/ UNCHANGED <<count, slots, inputs>>
  BY ShmGone
  DEF StartOrEnd, ServerBegin, ServerOpen, ServerTruncate, ServerMap,
      ServerInitMutex, ServerInitCond, ServerJoin, ClientOpen, Off, roomVars,
      boundVars
<1> QED BY <1>1, <1>2, <1>3

\* A server comes to the chat with nothing shown, into an empty room.
LEMMA ShmResetView ==
  ASSUME NEW p \in Procs, ShmAll, ServerReset(p) PROVE View(p)'
<1>1. at[p] \in Rooms /\ at' = at /\ count'[at[p]] = 0 /\ rxPc' = rxPc
  BY DEF ServerReset, Main, ShmAll, UnusedOK, Initialising, ViewInv, DataOK
<1>2. /\ base'[p] = 0 /\ readIndex'[p] = 0 /\ shown'[p] = << >>
      /\ rxPc[p] = "none"
  BY DEF ServerReset, Main, ShmAll, BlankOK, Initialising, readVars, ViewInv,
         LockShape, Placed
<1>3. Reached(p)' = 0
  BY <1>1, <1>2 DEF Reached
<1>4. \A r : Slice(r, 0, 0)' = << >>
  <2>1. 1..(0 - 0) = {}
    OBVIOUS
  <2> QED BY <2>1 DEF Slice
<1>5. << >> \o << >> = << >>
  OBVIOUS
<1>6. shown'[p] = Slice(at[p], 0, base[p])'
                   \o ForeignIn(p, Slice(at[p], base[p], Reached(p)))'
  BY <1>1, <1>2, <1>3, <1>4, <1>5, ForeignInEmpty
<1>7. (base[p] <= Reached(p))' /\ (Reached(p) <= count[at[p]])'
  BY <1>1, <1>2, <1>3
<1> QED BY <1>6, <1>7 DEF View

\* The objects and those who use them.
LEMMA ShmUnused ==
  ASSUME NEW p \in Procs, ShmAll, StartOrEnd(p) PROVE UnusedOK'
<1> USE MarksAssumption
    DEF ShmAll, UnusedOK, ViewInv, LockShape, ShapeOK, Main, Initialising,
        roomVars, shmVars
<1>1. ASSUME ServerOpenFails(p) \/ ServerFails(p) \/ ServerEnd(p)
               \/ (p \in Clients /\ Off(p) /\ UNCHANGED <<roomVars, shmVars>>)
      PROVE  UnusedOK'
  <2>1. /\ Off(p) /\ UNCHANGED <<roomVars, object>>
        /\ name' = name \/ name' = NoRoom
        /\ opened' = opened \/ opened' = [opened EXCEPT ![p] = NoRoom]
    BY <1>1 DEF ServerOpenFails, ServerFails, ServerEnd, ShmUnlink, Close
  <2>2. opened \in [Procs -> Rooms \cup {NoRoom}]
    BY DEF ShmInv, OpenOK
  <2>3. /\ UNCHANGED <<count, raced, object>>
        /\ mainPc'[p] = "off" /\ at'[p] = NoRoom
        /\ opened'[p] = opened[p] \/ opened'[p] = NoRoom
        /\ \A q \in Procs \ {p} :
             mainPc'[q] = mainPc[q] /\ at'[q] = at[q] /\ opened'[q] = opened[q]
    BY <2>1, <2>2 DEF Off
  <2> QED BY <2>1, <2>3
<1>2. CASE ServerBegin(p)
  <2>1. opened[p] = NoRoom
    BY <1>2 DEF ServerBegin, ShmInv, OpenOK
  <2> QED BY <1>2, <2>1 DEF ServerBegin, ShmUnlink
<1>3. CASE ServerOpen(p)
  <2>1. PICK r \in Rooms :
          /\ object[r] = "absent" /\ name' = r
          /\ opened' = [opened EXCEPT ![p] = r]
          /\ object' = [object EXCEPT ![r] = "empty"]
    BY <1>3 DEF ServerOpen
  <2>2. opened \in [Procs -> Rooms \cup {NoRoom}] /\ opened[p] = NoRoom
    BY <1>3 DEF ServerOpen, ShmInv, OpenOK
  <2>3. \A q \in Procs : opened'[q] = IF q = p THEN r ELSE opened[q]
    BY <2>1, <2>2
  <2> QED BY <1>3, <2>1, <2>2, <2>3 DEF ServerOpen
<1>4. CASE ServerTruncate(p)
  <2>1. opened[p] \in Rooms
    BY <1>4 DEF ServerTruncate
  <2> QED BY <1>4, <2>1 DEF ServerTruncate
<1>5. CASE ServerMap(p)
  <2>1. opened[p] \in Rooms
    BY <1>5 DEF ServerMap
  <2> QED BY <1>5, <2>1 DEF ServerMap, Attach, InitialisedByOther
<1>6. CASE ServerInitMutex(p)
  BY <1>6 DEF ServerInitMutex, Touch
<1>7. CASE ServerInitCond(p)
  BY <1>7 DEF ServerInitCond, Touch
<1>8. CASE ServerReset(p)
  <2>1. at[p] = opened[p] /\ at[p] \in Rooms
    BY <1>8, ShmKept
  <2>2. \A r \in Rooms : count[r] = 0 => count'[r] = 0
    BY <1>8, <2>1 DEF ServerReset, DataOK
  <2> QED BY <1>8, <2>1, <2>2 DEF ServerReset, Touch
<1>9. CASE ServerJoin(p)
  BY <1>9 DEF ServerJoin
<1>10. CASE ClientOpen(p)
  <2>1. name \in Rooms /\ opened[p] = NoRoom
    BY <1>10 DEF ClientOpen, ShmInv, OpenOK
  <2>2. object[name] # "absent"
    BY <2>1
  <2> QED BY <1>10, <2>1, <2>2 DEF ClientOpen, Attach, InitialisedByOther
<1> QED
  BY <1>1, <1>2, <1>3, <1>4, <1>5, <1>6, <1>7, <1>8, <1>9, <1>10
  DEF StartOrEnd

\* Only a server that was started changes the name.
LEMMA ShmReach ==
  ASSUME NEW p \in Procs, ShmAll, StartOrEnd(p)
  PROVE  StartedOK' /\ ServerReachable'
<1> USE DEF ShmAll, StartedOK, ViewInv, ReadOK, LockShape, ShapeOK
<1>1. /\ \A q \in Procs : starts[q] \in Nat
      /\ starts' = starts \/ starts' = [starts EXCEPT ![p] = starts[p] + 1]
      /\ mainPc[p] = "off" =>
           mainPc'[p] = "off" \/ starts' = [starts EXCEPT ![p] = starts[p] + 1]
  <2>1. \A q \in Procs : starts[q] \in Nat
    BY BoundsAssumption
  <2> QED BY <2>1, ShmGone
    DEF StartOrEnd, ServerBegin, ServerOpen, ServerTruncate, ServerMap,
        ServerInitMutex, ServerInitCond, ServerReset, ServerJoin, ClientOpen,
        Off, Main, boundVars
<1>2. \A q \in Procs \ {p} : mainPc'[q] = mainPc[q]
  BY ShmOnly
<1>3. \A q \in Servers : q \in Procs
  BY DEF Procs
<1>4. StartedOK'
  BY <1>1, <1>2, <1>3
<1>5. \A q \in Servers : starts'[q] = 0 => starts[q] = 0
  BY <1>1, <1>3
<1>6. /\ \A q \in Procs \ {p} : opened'[q] = opened[q]
      /\ opened'[p] = NoRoom \/ opened'[p] = opened[p] \/ opened'[p] = name'
      /\ opened'[p] = opened[p] /\ opened[p] # NoRoom => name' = name
      /\ name' # name => p \in Servers /\ starts'[p] # 0
  <2>1. p \in Servers /\ mainPc[p] # "off" => starts[p] # 0
    OBVIOUS
  <2>2. p \in Procs /\ opened \in [Procs -> Rooms \cup {NoRoom}]
    BY DEF ShmInv, OpenOK
  <2>3. CASE ServerBegin(p)
    BY <1>1, <2>2, <2>3
    DEF ServerBegin, Main, ShmInv, OpenOK
  <2>4. CASE ServerOpen(p)
    <3>1. p \in Servers /\ mainPc[p] # "off" /\ starts' = starts
      BY <2>4 DEF ServerOpen, Main, ShmInv, OpenOK, ServerOnly, boundVars
    <3> QED BY <2>1, <2>2, <2>4, <3>1 DEF ServerOpen, ShmInv, OpenOK, Main
  <2>5. CASE ServerFails(p) \/ ServerEnd(p)
    <3>1. p \in Servers /\ mainPc[p] # "off" /\ starts' = starts
      BY <2>5
      DEF ServerFails, ServerEnd, Off, ShmInv, OpenOK, ServerOnly, boundVars
    <3> QED BY <2>1, <2>2, <2>5, <3>1 DEF ServerFails, ServerEnd, Close
  <2>6. CASE UNCHANGED <<name, opened>>
    BY <2>6
  <2> QED
    BY <2>3, <2>4, <2>5, <2>6
    DEF StartOrEnd, ServerOpenFails, ServerTruncate, ServerMap,
        ServerInitMutex, ServerInitCond, ServerReset, ServerJoin, ClientOpen,
        shmVars
<1>7. ServerReachable'
  <2> SUFFICES ASSUME NEW s \in Servers, opened'[s] # NoRoom,
                      \A q \in Servers \ {s} : starts'[q] = 0
               PROVE  name' = opened'[s]
    BY DEF ServerReachable
  <2>1. \A q \in Servers \ {s} : starts[q] = 0
    BY <1>5
  <2>2. CASE s = p
    BY <1>6, <2>1, <2>2 DEF ServerReachable
  <2>3. CASE s # p
    BY <1>3, <1>6, <2>1, <2>3 DEF ServerReachable
  <2> QED BY <2>2, <2>3
<1> QED BY <1>4, <1>7

LEMMA ShmAllStep ==
  ShmAll /\ [Next]_vars =>
    ShmAll' /\ \A r \in Rooms : raced'[r] \/ RoomKept(r)
<1> SUFFICES ASSUME ShmAll, [Next]_vars
             PROVE  /\ ViewInv' /\ UnusedOK' /\ StartedOK' /\ BlankOK'
                    /\ ServerReachable'
                    /\ \A r \in Rooms : raced'[r] \/ RoomKept(r)
  BY ShmLock, ShmName DEF ShmAll, ShmInv
<1>1. LockShape'
  BY ShmLock DEF ShmAll
<1>2. CASE UNCHANGED vars
  <2> USE <1>2 DEF vars, chatVars, roomVars, readVars, boundVars, ShmAll, ViewInv
  <2>1. DataOK' /\ \A r \in Rooms : RoomKept(r)
    BY QuietKept DEF Kept, RoomKept
  <2>2. ReadOK' /\ CancelOK'
    BY DEF ReadOK, CancelOK
  <2>3. ViewOK'
    BY DEF ViewOK, View, Reached, Slice, Slot
  <2>4. UnusedOK' /\ StartedOK' /\ BlankOK' /\ ServerReachable'
    BY DEF UnusedOK, StartedOK, BlankOK, ServerReachable
  <2> QED BY <1>1, <2>1, <2>2, <2>3, <2>4
<1>3. ASSUME NEW p \in Procs, UNCHANGED shmVars,
             \/ Receiver(p) \/ History(p) \/ CreateReceiver(p) \/ Send(p)
             \/ Type(p) \/ Exit(p) \/ RxSpurious(p) \/ Join(p)
      PROVE  /\ ViewInv' /\ UnusedOK' /\ StartedOK' /\ BlankOK'
             /\ ServerReachable'
             /\ \A r \in Rooms : raced'[r] \/ RoomKept(r)
  BY <1>3, ShmShared
<1>4. ASSUME NEW p \in Procs, StartOrEnd(p)
      PROVE  /\ ViewInv' /\ UnusedOK' /\ StartedOK' /\ BlankOK'
             /\ ServerReachable'
             /\ \A r \in Rooms : raced'[r] \/ RoomKept(r)
  <2>1. /\ ReadOK' /\ CancelOK' /\ BlankOK'
        /\ \A r \in Rooms : raced[r] => raced'[r]
        /\ \A q \in Procs \ {p} :
             /\ mainPc'[q] = mainPc[q] /\ at'[q] = at[q]
             /\ base'[q] = base[q] /\ shown'[q] = shown[q]
             /\ cursor'[q] = cursor[q] /\ readIndex'[q] = readIndex[q]
             /\ rxPc'[q] = rxPc[q]
        /\ mainPc'[p] \notin Chatting \/ ServerReset(p)
    BY <1>4, ShmOnly
  <2>2. DataOK' /\ \A r \in Rooms : raced'[r] \/ RoomKept(r)
    BY <1>4, ShmKept
  <2>3. mainPc'[p] \notin Chatting \/ View(p)'
    BY <2>1, ShmResetView
  <2>4. ASSUME NEW q \in Procs \ {p}, mainPc[q] \in Chatting, ~raced'[at[q]]
        PROVE  /\ ~raced[at[q]]
               /\ count'[at[q]] >= count[at[q]]
               /\ \A n \in Indices : n < count[at[q]] =>
                    slots'[at[q]][n] = slots[at[q]][n]
    <3>1. at[q] \in Rooms
      BY <2>4, WorksMapped DEF ShmAll, ViewInv, Chatting, Mapped
    <3> QED BY <2>1, <2>2, <2>4, <3>1 DEF RoomKept
  <2>5. ViewOK'
    BY <2>1, <2>2, <2>3, <2>4, OutsideView DEF ShmAll
  <2>6. ViewInv'
    BY <1>1, <2>1, <2>2, <2>5 DEF ViewInv
  <2> QED BY <1>4, <2>1, <2>2, <2>6, ShmUnused, ShmReach
<1>5. ASSUME NEW p \in Procs, MainSteps(p) \/ RxSteps(p) \/ User(p)
      PROVE  /\ ViewInv' /\ UnusedOK' /\ StartedOK' /\ BlankOK'
             /\ ServerReachable'
             /\ \A r \in Rooms : raced'[r] \/ RoomKept(r)
  <2>1. ClientBusError(p) => StartOrEnd(p)
    BY DEF ClientBusError, StartOrEnd, ShmAll, ShmInv, OpenOK
  <2>2. \/ StartOrEnd(p)
        \/ /\ UNCHANGED shmVars
           /\ \/ Receiver(p) \/ History(p) \/ CreateReceiver(p) \/ Send(p)
              \/ Type(p) \/ Exit(p) \/ RxSpurious(p) \/ Join(p)
    BY <1>5, <2>1
    DEF MainSteps, RxSteps, User, ServerStart, ServerReceiver, ClientReceiver,
        ServerSend, ClientSend, ServerExit, ClientExit, ClientHistory, History,
        StartOrEnd
  <2> QED BY <1>3, <1>4, <2>2
<1> QED BY <1>2, <1>5 DEF Next

LEMMA ShmAllInvariance == Spec => []ShmAll
  BY ShmAllInit, ShmAllStep, PTL DEF Spec

\* Every reachable state of the shared memory chat is well typed.
THEOREM ShmTypeCorrect == Spec => []TypeOK
<1>1. ShmAll => TypeOK
  BY ChatTyped DEF ShmAll, ShmInv, OpenOK, UnusedOK, LockShape, ViewInv, TypeOK
<1> QED BY <1>1, ShmAllInvariance, PTL

\* A server that no other server displaced can be found under SHM_NAME from
\* its shm_open to its shm_unlink (server.c, lines 39 and 124).
THEOREM ShmServerReachable == Spec => []ServerReachable
  BY ShmAllInvariance, PTL DEF ShmAll

\* Every process shows the history it found and then the others' messages,
\* each once and in the order of its room, for any number of rooms.
THEOREM ShmShowsRoom == Spec => []ShownIsRoom
<1>1. ShmAll => ShownIsRoom
  BY ViewShown DEF ShmAll
<1> QED BY <1>1, ShmAllInvariance, PTL

\* The history of every room is append-only, although a server empties its
\* room without the lock and without a look at what is there: O_EXCL makes
\* sure that the room is its own and new.
THEOREM ShmHistoryStable == Spec => HistoryStable
<1>1. ShmAll /\ [Next]_vars =>
        [\A r \in Rooms :
           ~raced'[r] =>
             /\ count'[r] >= count[r]
             /\ \A n \in Indices : n < count[r] => slots'[r][n] = slots[r][n]]_chatVars
  BY ShmAllStep DEF RoomKept
<1> QED BY <1>1, ShmAllInvariance, PTL DEF Spec, HistoryStable

\* Nobody writes past the end of messages[], in any room, however many processes
\* come to the test of the count together and however many servers start.
THEOREM ShmNotOverrun == Spec => []RoomNotOverrun
<1>1. Init => RoomNotOverrun
  BY ChatInitBound DEF Init
<1>2. ShmAll /\ RoomNotOverrun /\ [Next]_vars => RoomNotOverrun'
  <2> SUFFICES ASSUME ShmAll, RoomNotOverrun, [Next]_vars PROVE RoomNotOverrun'
    OBVIOUS
  <2>1. CASE UNCHANGED vars
    BY <2>1 DEF vars, chatVars, roomVars, RoomNotOverrun
  <2>2. ASSUME NEW p \in Procs,
               \/ Receiver(p) \/ History(p) \/ CreateReceiver(p) \/ Send(p)
               \/ Type(p) \/ Exit(p) \/ RxSpurious(p) \/ Join(p)
        PROVE  RoomNotOverrun'
    BY <2>2, ChatBound DEF ShmAll, ViewInv
  <2>3. ASSUME NEW p \in Procs, StartOrEnd(p) PROVE RoomNotOverrun'
    <3>1. /\ \A r \in Rooms : raced[r] => raced'[r]
          /\ \A q \in Procs \ {p} : mainPc'[q] = mainPc[q] /\ at'[q] = at[q]
          /\ mainPc'[p] \notin Chatting \/ ServerReset(p)
      BY <2>3, ShmOnly
    <3>2. mainPc'[p] # "bump"
      BY <3>1 DEF Chatting, ServerReset, Main, ShmAll, ViewInv, LockShape, ShapeOK
    <3>3. \A q \in Procs :
            mainPc'[q] = "bump" => mainPc[q] = "bump" /\ at'[q] = at[q]
      BY <3>1, <3>2
    <3>4. \A r \in Rooms : count'[r] = count[r] \/ count'[r] = 0
      BY <2>3, ShmKept DEF ShmAll, ViewInv, DataOK
    <3> QED BY <3>1, <3>3, <3>4, BoundStays DEF ShmAll, ViewInv
  <2>4. ASSUME NEW p \in Procs, MainSteps(p) \/ RxSteps(p) \/ User(p)
        PROVE  RoomNotOverrun'
    <3>1. ClientBusError(p) => StartOrEnd(p)
      BY DEF ClientBusError, StartOrEnd, ShmAll, ShmInv, OpenOK
    <3>2. \/ StartOrEnd(p)
          \/ \/ Receiver(p) \/ History(p) \/ CreateReceiver(p) \/ Send(p)
             \/ Type(p) \/ Exit(p) \/ RxSpurious(p) \/ Join(p)
      BY <2>4, <3>1
      DEF MainSteps, RxSteps, User, ServerStart, ServerReceiver, ClientReceiver,
          ServerSend, ClientSend, ServerExit, ClientExit, ClientHistory, History,
          StartOrEnd
    <3> QED BY <2>2, <2>3, <3>2
  <2> QED BY <2>1, <2>4 DEF Next
<1> QED BY <1>1, <1>2, ShmAllInvariance, PTL DEF Spec
=============================================================================
