--------------------------- MODULE MmapChatProofs ---------------------------
(***************************************************************************)
(* Theorems about the chat room in a mapped file, for any number of        *)
(* servers and clients, any capacity and any number of restarts.           *)
(***************************************************************************)
EXTENDS MmapChat, ChatRoomProofs

LEMMA MmapInit == Init => LockShape
  BY ChatInitLock DEF Init

LEMMA MmapStep == LockShape /\ [Next]_vars => LockShape'
<1> SUFFICES ASSUME LockShape, [Next]_vars PROVE LockShape'
  OBVIOUS
<1>1. CASE UNCHANGED vars
  BY <1>1 DEF vars, chatVars, roomVars, LockShape, ShapeOK, Placed,
              MutualExclusion, MainWorks, RxWorks
<1>2. ASSUME NEW p \in Procs, Own(p) PROVE LockShape'
  <2> USE FileAssumption DEF MainPlaces, Mapped, roomVars
  <2>1. CASE ServerTruncate(p)
    BY <2>1, StartLock DEF ServerTruncate
  <2>2. CASE ServerMap(p)
    BY <2>2, AttachLock DEF ServerMap, InitialisedByOther
  <2>3. CASE ServerStartFails(p)
    BY <2>3, OffLock DEF ServerStartFails
  <2>4. CASE ServerInitMutex(p)
    BY <2>4, InitMutexLock DEF ServerInitMutex
  <2>5. CASE ServerInitCond(p)
    BY <2>5, StartLock DEF ServerInitCond
  <2>6. CASE ServerReset(p)
    BY <2>6, StartLock DEF ServerReset
  <2>7. CASE CreateFails(p)
    BY <2>7, OffLock DEF CreateFails
  <2> QED
    BY <1>2, <2>1, <2>2, <2>3, <2>4, <2>5, <2>6, <2>7,
       ReceiverLock, MainLock, JoinLock
    DEF Own, ServerStart, ServerHistory, ClientHistory, ServerReceiver,
        ClientReceiver, ServerSend, ClientSend, ServerExit, ClientExit
<1>3. ASSUME NEW p \in Procs, User(p) PROVE LockShape'
  <2> USE FileAssumption DEF MainPlaces, Mapped, roomVars
  <2>1. CASE ServerOpen(p)
    BY <2>1, StartLock DEF ServerOpen
  <2>2. CASE ClientOpen(p)
    BY <2>2, AttachLock DEF ClientOpen, InitialisedByOther
  <2> QED
    BY <1>3, <2>1, <2>2, MainLock, SpuriousLock DEF User
<1> QED
  BY <1>1, <1>2, <1>3 DEF Next

LEMMA MmapInvariance == Spec => []LockShape
  BY MmapInit, MmapStep, PTL DEF Spec

\* No two threads work on the room of chat_history.dat at the same time, as
\* long as no server initialised it under a user, across cancellations,
\* spurious wakeups and restarts.
THEOREM MmapMutualExclusion == Spec => []MutualExclusion
  BY MmapInvariance, PTL DEF LockShape

-----------------------------------------------------------------------------
\* Why the reset of msg_count by a starting server drops nothing: the server
\* has found the file without its size, so nobody can have used the room, and
\* whoever maps it before the reset makes it raced.

FreshOK ==
  /\ object # "sized" =>
       /\ count[File] = 0
       /\ \A q \in Procs : at[q] \notin Rooms /\ mainPc[q] # "map"
  /\ \A p \in Procs :
       mainPc[p] \in Initialising /\ ~exists[p] /\ ~raced[File] =>
         /\ count[File] = 0
         /\ \A q \in Procs \ {p} : at[q] \notin Rooms

HistoryInv ==
  /\ LockShape /\ DataOK /\ FreshOK
  /\ exists \in [Procs -> BOOLEAN]

LEMMA HistoryInit == Init => HistoryInv
  BY MmapInit, ChatInitData, FileAssumption, MarksAssumption
  DEF Init, ChatInit, HistoryInv, FreshOK, Initialising

\* The steps that the two exercises share leave file and exists alone, move no
\* process into its initialisation and count messages only of a process that
\* has the room mapped.
LEMMA SharedHistory ==
  ASSUME NEW p \in Procs, HistoryInv,
         \/ Receiver(p) \/ History(p) \/ CreateReceiver(p) \/ Send(p)
         \/ Type(p) \/ Exit(p) \/ RxSpurious(p) \/ Join(p),
         UNCHANGED <<object, exists>>
  PROVE  DataOK' /\ FreshOK' /\ Kept
<1>1. DataOK' /\ Kept /\ (count' = count \/ mainPc[p] = "bump")
  BY ChatKept DEF HistoryInv
<1>2. /\ \A q \in Procs : at'[q] \in Rooms => at[q] \in Rooms
      /\ \A q \in Procs : mainPc'[q] \in Initialising => mainPc[q] = mainPc'[q]
      /\ raced' = raced
  BY MarksAssumption
  DEF HistoryInv, LockShape, ShapeOK, Receiver, RxLock, RxWait, RxRelock,
      RxBegin, RxPrint, RxAdvance, RxDieWaiting, RxDiePrinting, History,
      HistoryLock, HistoryPrint, CreateReceiver, Send, SendLock, SendWrite,
      SendRefused, SendBump, SendUnlock, Type, Exit, RxSpurious, Join, Off,
      Main, Initialising, roomVars
<1>3. mainPc[p] = "bump" =>
        at[p] \in Rooms /\ mainPc[p] \notin Initialising
  BY DEF HistoryInv, LockShape, Placed, Mapped, Initialising
<1>4. FreshOK'
  <2>1. CASE count' = count
    BY <1>2, <2>1 DEF HistoryInv, FreshOK, Initialising
  <2>2. CASE mainPc[p] = "bump"
    BY <1>2, <1>3, <2>2 DEF HistoryInv, FreshOK, Initialising
  <2> QED BY <1>1, <2>1, <2>2
<1> QED BY <1>1, <1>4

\* A server's start, and a client's.
LEMMA StartHistory ==
  ASSUME NEW p \in Procs, HistoryInv,
         ServerStart(p) \/ ServerOpen(p) \/ ClientOpen(p)
  PROVE  /\ DataOK' /\ FreshOK' /\ exists' \in [Procs -> BOOLEAN]
         /\ raced'[File] \/ Kept
<1> USE FileAssumption, MarksAssumption
<1> USE DEF HistoryInv, LockShape, ShapeOK, FreshOK, Main, roomVars, boundVars
<1>1. CASE ServerOpen(p)
  <2>1. DataOK' /\ Kept
    BY <1>1, QuietKept DEF ServerOpen
  <2>2. FreshOK'
    BY <1>1, ZenonT(60) DEF ServerOpen, Initialising, Placed, Mapped
  <2> QED BY <1>1, <2>1, <2>2 DEF ServerOpen
<1>2. CASE ServerTruncate(p)
  <2>1. DataOK' /\ Kept
    BY <1>2, QuietKept DEF ServerTruncate
  <2>2. FreshOK'
    BY <1>2 DEF ServerTruncate, Initialising
  <2> QED BY <1>2, <2>1, <2>2 DEF ServerTruncate
<1>3. CASE ServerMap(p)
  <2>1. DataOK' /\ Kept
    BY <1>3, QuietKept DEF ServerMap
  <2>2. object = "sized"
    BY <1>3 DEF ServerMap
  <2>3. FreshOK'
    BY <1>3, <2>2 DEF ServerMap, Attach, InitialisedByOther, Initialising
  <2> QED BY <1>3, <2>1, <2>3 DEF ServerMap
<1>4. CASE ServerStartFails(p)
  <2>1. DataOK' /\ Kept
    BY <1>4, QuietKept DEF ServerStartFails, Off
  <2>2. FreshOK'
    BY <1>4 DEF ServerStartFails, Off, Initialising
  <2> QED BY <1>4, <2>1, <2>2 DEF ServerStartFails
<1>5. CASE ServerInitMutex(p)
  <2>1. DataOK' /\ Kept
    BY <1>5, QuietKept DEF ServerInitMutex
  <2>2. at[p] = File
    BY <1>5 DEF ServerInitMutex, Placed, Mapped
  <2>3. FreshOK'
    BY <1>5, <2>2 DEF ServerInitMutex, Touch, Initialising
  <2> QED BY <1>5, <2>1, <2>3 DEF ServerInitMutex
<1>6. CASE ServerInitCond(p)
  <2>1. DataOK' /\ Kept
    BY <1>6, QuietKept DEF ServerInitCond
  <2>2. at[p] = File
    BY <1>6 DEF ServerInitCond, Placed, Mapped
  <2>3. FreshOK'
    BY <1>6, <2>2 DEF ServerInitCond, Touch, Initialising
  <2> QED BY <1>6, <2>1, <2>3 DEF ServerInitCond
<1>7. CASE ServerReset(p)
  <2>1. at[p] = File /\ object = "sized"
    BY <1>7 DEF ServerReset, Placed, Mapped
  <2>2. CASE exists[p]
    <3>1. DataOK' /\ Kept
      BY <1>7, <2>2, QuietKept DEF ServerReset
    <3>2. FreshOK'
      BY <1>7, <2>1, <2>2 DEF ServerReset, Initialising
    <3> QED BY <1>7, <3>1, <3>2 DEF ServerReset
  <2>3. CASE ~exists[p]
    <3>1. /\ count' = [count EXCEPT ![File] = 0]
          /\ slots' = slots /\ inputs' = inputs
          /\ Touch(p)
      BY <1>7, <2>1, <2>3 DEF ServerReset
    <3>2. DataOK'
      BY <3>1 DEF DataOK
    <3>3. raced[File] \/ count[File] = 0
      BY <1>7, <2>3 DEF ServerReset, Initialising
    <3>4. raced[File] => raced'[File]
      BY <2>1, <3>1 DEF Touch
    <3>5. count[File] = 0 => Kept
      BY <3>1 DEF Kept, DataOK, Indices
    <3>6. FreshOK'
      BY <1>7, <2>1, <3>1, <3>4 DEF ServerReset, Touch, Initialising, DataOK
    <3> QED BY <1>7, <3>2, <3>3, <3>4, <3>5, <3>6 DEF ServerReset
  <2> QED BY <2>2, <2>3
<1>8. CASE ClientOpen(p)
  <2>1. DataOK' /\ Kept
    BY <1>8, QuietKept DEF ClientOpen
  <2>2. FreshOK'
    BY <1>8, ZenonT(60) DEF ClientOpen, Attach, InitialisedByOther, Initialising
  <2> QED BY <1>8, <2>1, <2>2 DEF ClientOpen
<1> QED
  BY <1>1, <1>2, <1>3, <1>4, <1>5, <1>6, <1>7, <1>8 DEF ServerStart

LEMMA HistoryStep ==
  HistoryInv /\ [Next]_vars => HistoryInv' /\ (raced'[File] \/ Kept)
<1> SUFFICES ASSUME HistoryInv, [Next]_vars
             PROVE  /\ DataOK' /\ FreshOK' /\ exists' \in [Procs -> BOOLEAN]
                    /\ raced'[File] \/ Kept
  BY MmapStep DEF HistoryInv
<1>1. CASE UNCHANGED vars
  BY <1>1, QuietKept
  DEF vars, chatVars, roomVars, boundVars, HistoryInv, FreshOK, Initialising
<1>2. ASSUME NEW p \in Procs, Own(p) \/ User(p)
      PROVE  /\ DataOK' /\ FreshOK' /\ exists' \in [Procs -> BOOLEAN]
             /\ raced'[File] \/ Kept
  <2>1. CASE CreateFails(p) /\ UNCHANGED <<object, exists>>
    <3>1. DataOK' /\ Kept
      BY <2>1, QuietKept DEF CreateFails, Off, roomVars, boundVars, HistoryInv
    <3>2. FreshOK'
      BY <2>1, MarksAssumption
      DEF CreateFails, Off, roomVars, HistoryInv, FreshOK, LockShape, ShapeOK,
          Initialising
    <3> QED BY <2>1, <3>1, <3>2 DEF HistoryInv
  <2>2. CASE ServerStart(p) \/ ServerOpen(p) \/ ClientOpen(p)
    BY <2>2, StartHistory
  <2>3. CASE /\ \/ Receiver(p) \/ History(p) \/ CreateReceiver(p) \/ Send(p)
                \/ Type(p) \/ Exit(p) \/ RxSpurious(p) \/ Join(p)
             /\ UNCHANGED <<object, exists>>
    BY <2>3, SharedHistory DEF HistoryInv
  <2> QED
    BY <1>2, <2>1, <2>2, <2>3
    DEF Own, User, ServerHistory, ClientHistory, ServerReceiver, ClientReceiver,
        ServerSend, ClientSend, ServerExit, ClientExit
<1> QED BY <1>1, <1>2 DEF Next

LEMMA HistoryInvariance == Spec => []HistoryInv
  BY HistoryInit, HistoryStep, PTL DEF Spec

\* The file's history is append-only, over any number of restarts of any
\* number of servers, unless somebody used the room during an initialisation.
THEOREM MmapHistoryStable == Spec => HistoryStable
<1>1. Spec => []HistoryInv
  BY HistoryInvariance
<1>2. (raced'[File] \/ Kept) =>
        \A r \in Rooms :
          ~raced'[r] =>
            /\ count'[r] >= count[r]
            /\ \A n \in Indices : n < count[r] => slots'[r][n] = slots[r][n]
  BY FileAssumption DEF Kept
<1>3. HistoryInv /\ [Next]_vars =>
        [\A r \in Rooms :
           ~raced'[r] =>
             /\ count'[r] >= count[r]
             /\ \A n \in Indices : n < count[r] => slots'[r][n] = slots[r][n]]_chatVars
  BY <1>2, HistoryStep
<1> QED BY <1>1, <1>3, PTL DEF Spec, HistoryStable

-----------------------------------------------------------------------------
\* What the processes show, and the types of everything.

MmapInv ==
  /\ HistoryInv /\ ViewInv
  /\ object \in {"absent", "empty", "sized"}

LEMMA MmapInvInit == Init => MmapInv
  BY HistoryInit, ChatInitView DEF Init, MmapInv

\* The start and the end of a process, step by step: who is told apart by
\* them, and that a room that is raced stays raced.
LEMMA StartQuiet ==
  ASSUME NEW p \in Procs, LockShape, ReadOK, CancelOK,
         ServerStart(p) \/ ServerOpen(p) \/ ClientOpen(p) \/ CreateFails(p)
  PROVE  /\ ReadOK' /\ CancelOK' /\ mainPc'[p] \notin Chatting
         /\ raced[File] => raced'[File]
         /\ \A q \in Procs \ {p} :
              /\ mainPc'[q] = mainPc[q] /\ at'[q] = at[q]
              /\ base'[q] = base[q] /\ shown'[q] = shown[q]
              /\ cursor'[q] = cursor[q] /\ readIndex'[q] = readIndex[q]
              /\ rxPc'[q] = rxPc[q]
<1> USE FileAssumption, BoundsAssumption
    DEF LockShape, ShapeOK, Main, Chatting, roomVars, readVars, boundVars
<1>1. CASE ServerStartFails(p) \/ CreateFails(p)
  <2>1. ReadOK'
    BY <1>1, OffRead DEF ServerStartFails, CreateFails
  <2>2. Off(p) /\ UNCHANGED roomVars
    BY <1>1 DEF ServerStartFails, CreateFails
  <2>3. CancelOK'
    BY <2>2 DEF Off, CancelOK, ReadOK
  <2> QED BY <2>1, <2>2, <2>3 DEF Off, ReadOK
<1>2. CASE ServerOpen(p)
  BY <1>2 DEF ServerOpen, CancelOK, ReadOK
<1>3. CASE ServerTruncate(p)
  BY <1>3 DEF ServerTruncate, CancelOK, ReadOK
<1>4. CASE ServerMap(p)
  BY <1>4 DEF ServerMap, Attach, CancelOK, ReadOK
<1>5. CASE ServerInitMutex(p)
  BY <1>5 DEF ServerInitMutex, Touch, CancelOK, ReadOK
<1>6. CASE ServerInitCond(p)
  BY <1>6 DEF ServerInitCond, Touch, CancelOK, ReadOK
<1>7. CASE ServerReset(p)
  BY <1>7 DEF ServerReset, Touch, CancelOK, ReadOK
<1>8. CASE ClientOpen(p)
  BY <1>8 DEF ClientOpen, Attach, CancelOK, ReadOK
<1> QED
  BY <1>1, <1>2, <1>3, <1>4, <1>5, <1>6, <1>7, <1>8 DEF ServerStart

LEMMA MmapInvStep == MmapInv /\ [Next]_vars => MmapInv'
<1> SUFFICES ASSUME MmapInv, [Next]_vars PROVE MmapInv'
  OBVIOUS
<1>1. HistoryInv' /\ (raced'[File] \/ Kept)
  BY HistoryStep DEF MmapInv
<1>2. object' \in {"absent", "empty", "sized"}
  BY DEF MmapInv, Next, Own, User, ServerStart, ServerTruncate, ServerMap,
         ServerStartFails, ServerInitMutex, ServerInitCond, ServerReset,
         ServerOpen, ClientOpen, vars
<1>3. ViewInv'
  <2>1. CASE UNCHANGED vars
    <3>1. ReadOK' /\ CancelOK'
      BY <2>1
      DEF MmapInv, ViewInv, ReadOK, CancelOK, vars, chatVars, readVars, boundVars
    <3>2. ViewOK'
      BY <2>1
      DEF MmapInv, ViewInv, ViewOK, View, Reached, Slice, Slot, vars, chatVars,
          roomVars, readVars
    <3> QED BY <1>1, <3>1, <3>2 DEF ViewInv, HistoryInv
  <2>2. ASSUME NEW p \in Procs,
               \/ Receiver(p) \/ History(p) \/ CreateReceiver(p) \/ Send(p)
               \/ Type(p) \/ Exit(p) \/ RxSpurious(p) \/ Join(p)
        PROVE  ViewInv'
    BY <2>2, ChatView DEF MmapInv
  <2>3. ASSUME NEW p \in Procs,
               ServerStart(p) \/ ServerOpen(p) \/ ClientOpen(p) \/ CreateFails(p)
        PROVE  ViewInv'
    <3>1. /\ ReadOK' /\ CancelOK' /\ mainPc'[p] \notin Chatting
          /\ raced[File] => raced'[File]
          /\ \A q \in Procs \ {p} :
               /\ mainPc'[q] = mainPc[q] /\ at'[q] = at[q]
               /\ base'[q] = base[q] /\ shown'[q] = shown[q]
               /\ cursor'[q] = cursor[q] /\ readIndex'[q] = readIndex[q]
               /\ rxPc'[q] = rxPc[q]
      BY <2>3, StartQuiet DEF MmapInv, ViewInv
    <3>2. ASSUME NEW q \in Procs \ {p}, mainPc[q] \in Chatting, ~raced'[at[q]]
          PROVE  /\ ~raced[at[q]]
                 /\ count'[at[q]] >= count[at[q]]
                 /\ \A n \in Indices : n < count[at[q]] =>
                      slots'[at[q]][n] = slots[at[q]][n]
      <4>1. at[q] = File /\ File \in Rooms
        BY <3>2, FileAssumption, WorksMapped DEF MmapInv, ViewInv, Chatting, Mapped
      <4> QED BY <1>1, <3>1, <3>2, <4>1 DEF Kept
    <3>3. ViewOK'
      BY <1>1, <3>1, <3>2, OutsideView DEF MmapInv, HistoryInv
    <3> QED BY <1>1, <3>1, <3>3 DEF ViewInv, HistoryInv
  <2> QED
    BY <2>1, <2>2, <2>3
    DEF Next, Own, User, ServerHistory, ClientHistory, ServerReceiver,
        ClientReceiver, ServerSend, ClientSend, ServerExit, ClientExit
<1> QED BY <1>1, <1>2, <1>3 DEF MmapInv

LEMMA MmapInvariant == Spec => []MmapInv
  BY MmapInvInit, MmapInvStep, PTL DEF Spec

\* Every reachable state of the mapped chat is well typed.
THEOREM MmapTypeCorrect == Spec => []TypeOK
<1>1. MmapInv => TypeOK
  BY ChatTyped DEF MmapInv, HistoryInv, LockShape, ViewInv, TypeOK
<1> QED BY <1>1, MmapInvariant, PTL

\* Every process shows the history it found and then the others' messages,
\* each once and in the order of the room (the receiver loop and the history
\* loop of server.c and client.c), for any number of processes, any capacity
\* and any number of restarts.
THEOREM MmapShowsRoom == Spec => []ShownIsRoom
<1>1. MmapInv => ShownIsRoom
  BY ViewShown DEF MmapInv
<1> QED BY <1>1, MmapInvariant, PTL

\* Nobody writes past the end of messages[] in chat_history.dat, however many
\* senders come to the test in server.c:120 and client.c:94 together and however
\* often servers restart on a full file.
THEOREM MmapNotOverrun == Spec => []RoomNotOverrun
<1>1. Init => RoomNotOverrun
  BY ChatInitBound DEF Init
<1>2. MmapInv /\ RoomNotOverrun /\ [Next]_vars => RoomNotOverrun'
  <2> SUFFICES ASSUME MmapInv, RoomNotOverrun, [Next]_vars PROVE RoomNotOverrun'
    OBVIOUS
  <2>1. CASE UNCHANGED vars
    BY <2>1 DEF vars, chatVars, roomVars, RoomNotOverrun
  <2>2. ASSUME NEW p \in Procs,
               \/ Receiver(p) \/ History(p) \/ CreateReceiver(p) \/ Send(p)
               \/ Type(p) \/ Exit(p) \/ RxSpurious(p) \/ Join(p)
        PROVE  RoomNotOverrun'
    BY <2>2, ChatBound DEF MmapInv, HistoryInv
  <2>3. ASSUME NEW p \in Procs,
               ServerStart(p) \/ ServerOpen(p) \/ ClientOpen(p) \/ CreateFails(p)
        PROVE  RoomNotOverrun'
    <3> USE FileAssumption DEF MmapInv, HistoryInv, LockShape
    <3>1. /\ mainPc'[p] \notin Chatting
          /\ raced[File] => raced'[File]
          /\ \A q \in Procs \ {p} : mainPc'[q] = mainPc[q] /\ at'[q] = at[q]
      BY <2>3, StartQuiet DEF ViewInv
    <3>2. \A q \in Procs :
            mainPc'[q] = "bump" => mainPc[q] = "bump" /\ at'[q] = at[q]
      BY <3>1 DEF Chatting
    <3>3. count'[File] = count[File] \/ count'[File] = 0
      <4>1. CASE ServerReset(p)
        <5>1. at[p] = File
          BY <4>1 DEF ServerReset, Main, Placed, Mapped
        <5> QED BY <4>1, <5>1 DEF ServerReset, DataOK
      <4>2. CASE ~ServerReset(p)
        BY <2>3, <4>2
        DEF ServerStart, ServerOpen, ServerTruncate, ServerMap,
            ServerStartFails, ServerInitMutex, ServerInitCond, ClientOpen,
            CreateFails, Off, roomVars
      <4> QED BY <4>1, <4>2
    <3> QED BY <3>1, <3>2, <3>3, BoundStays
  <2> QED
    BY <2>1, <2>2, <2>3
    DEF Next, Own, User, ServerHistory, ClientHistory, ServerReceiver,
        ClientReceiver, ServerSend, ClientSend, ServerExit, ClientExit
<1> QED BY <1>1, <1>2, MmapInvariant, PTL DEF Spec
=============================================================================
