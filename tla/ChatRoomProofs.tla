--------------------------- MODULE ChatRoomProofs ---------------------------
(***************************************************************************)
(* What every step of a chat process does to the lock of its room, whoever *)
(* created the room: the part of the mutual exclusion proof that MmapChat  *)
(* and ShmChat share.                                                      *)
(***************************************************************************)
EXTENDS ChatRoom, SequenceTheorems, WellFoundedInduction, TLAPS

\* Threads are told apart by their process and their role.
LEMMA ThreadFacts ==
  ASSUME NEW p \in Procs
  PROVE  /\ MainThread(p) \in Threads /\ RxThread(p) \in Threads
         /\ MainThread(p) # Free /\ RxThread(p) # Free
         /\ \A q \in Procs : MainThread(p) # RxThread(q)
         /\ \A q \in Procs : MainThread(p) = MainThread(q) => p = q
         /\ \A q \in Procs : RxThread(p) = RxThread(q) => p = q
  BY MarksAssumption DEF MainThread, RxThread, Threads

\* The shape of the state the lock argument needs.
ShapeOK ==
  /\ mutex \in [Rooms -> Threads \cup {Free, Abandoned}]
  /\ raced \in [Rooms -> BOOLEAN]
  /\ at \in [Procs -> Rooms \cup {NoRoom}]
  /\ mainPc \in [Procs -> MainPlaces]
  /\ rxPc \in [Procs -> RxPlaces]

LockShape == ShapeOK /\ Placed /\ MutualExclusion

LEMMA ChatInitLock == ChatInit => LockShape
  BY MarksAssumption
  DEF ChatInit, LockShape, ShapeOK, Placed, Mapped, MutualExclusion,
      MainWorks, RxWorks, MainPlaces, RxPlaces

\* The receiver's steps.
LEMMA ReceiverLock ==
  ASSUME NEW p \in Procs, LockShape, Receiver(p) PROVE LockShape'
<1> USE MarksAssumption, ThreadFacts
    DEF LockShape, ShapeOK, Placed, Mapped, MutualExclusion, MainWorks, RxWorks, MainPlaces, RxPlaces,
        Rx, Lock, Unlock, roomVars, readVars, boundVars
<1>1. CASE RxLock(p)
  BY <1>1 DEF RxLock
<1>2. CASE RxWait(p)
  BY <1>2 DEF RxWait
<1>3. CASE RxRelock(p)
  BY <1>3 DEF RxRelock
<1>4. CASE RxBegin(p)
  BY <1>4 DEF RxBegin
<1>5. CASE RxPrint(p)
  BY <1>5 DEF RxPrint
<1>6. CASE RxAdvance(p)
  BY <1>6 DEF RxAdvance
<1>7. CASE RxDieWaiting(p)
  BY <1>7 DEF RxDieWaiting
<1>8. CASE RxDiePrinting(p)
  BY <1>8 DEF RxDiePrinting
<1> QED
  BY <1>1, <1>2, <1>3, <1>4, <1>5, <1>6, <1>7, <1>8 DEF Receiver

\* The steps of the main thread once its room is initialised.
LEMMA MainLock ==
  ASSUME NEW p \in Procs, LockShape,
         History(p) \/ CreateReceiver(p) \/ Send(p) \/ Type(p) \/ Exit(p)
  PROVE  LockShape'
<1> USE MarksAssumption, ThreadFacts
    DEF LockShape, ShapeOK, Placed, Mapped, MutualExclusion, MainWorks, RxWorks,
        MainPlaces, RxPlaces, Main, Lock, Unlock, roomVars, readVars, boundVars
<1>1. CASE HistoryLock(p)
  BY <1>1 DEF HistoryLock
<1>2. CASE HistoryPrint(p)
  BY <1>2 DEF HistoryPrint
<1>3. CASE CreateReceiver(p)
  BY <1>3 DEF CreateReceiver
<1>4. CASE SendLock(p)
  BY <1>4 DEF SendLock
<1>5. CASE SendWrite(p)
  BY <1>5 DEF SendWrite
<1>6. CASE SendRefused(p)
  BY <1>6 DEF SendRefused
<1>7. CASE SendBump(p)
  <2>1. PICK W \in SUBSET Sleepers(at[p]) :
          rxPc' = [q \in Procs |-> IF q \in W THEN "woken" ELSE rxPc[q]]
    BY <1>7 DEF SendBump, Broadcast
  <2>2. \A q \in Procs : rxPc'[q] # rxPc[q] => rxPc[q] = "asleep" /\ rxPc'[q] = "woken"
    BY <2>1 DEF Sleepers
  <2>3. rxPc' \in [Procs -> RxPlaces]
    BY <2>1
  <2> QED BY <1>7, <2>2, <2>3 DEF SendBump
<1>8. CASE SendUnlock(p)
  BY <1>8 DEF SendUnlock
<1>9. CASE Type(p)
  BY <1>9 DEF Type
<1>10. CASE Exit(p)
  BY <1>10 DEF Exit
<1> QED
  BY <1>1, <1>2, <1>3, <1>4, <1>5, <1>6, <1>7, <1>8, <1>9, <1>10
  DEF History, Send

\* Spurious wakeups do not touch the lock.
LEMMA SpuriousLock ==
  ASSUME NEW p \in Procs, LockShape, RxSpurious(p) PROVE LockShape'
  BY DEF RxSpurious, LockShape, ShapeOK, Placed, Mapped, MutualExclusion,
         MainWorks, RxWorks, MainPlaces, RxPlaces, Rx, roomVars

\* A process may end where it does not hold the lock.
LEMMA OffLock ==
  ASSUME NEW p \in Procs, LockShape, Off(p), UNCHANGED roomVars
  PROVE  LockShape'
  BY MarksAssumption
  DEF Off, LockShape, ShapeOK, Placed, Mapped, MutualExclusion,
      MainWorks, RxWorks, MainPlaces, RxPlaces, roomVars

LEMMA JoinLock ==
  ASSUME NEW p \in Procs, LockShape, Join(p) PROVE LockShape'
  BY OffLock DEF Join

\* A process maps a room.
LEMMA AttachLock ==
  ASSUME NEW p \in Procs, LockShape, NEW r \in Rooms, NEW b \in BOOLEAN,
         NEW from \in MainPlaces \ Mapped, from # "unlink",
         NEW to \in {"initMutex", "lockHistory"},
         Main(p, from, to), Attach(p, r, b), UNCHANGED <<mutex, rxPc>>
  PROVE  LockShape'
  BY MarksAssumption
  DEF LockShape, ShapeOK, Placed, Mapped, MutualExclusion,
      MainWorks, RxWorks, MainPlaces, RxPlaces, Main, Attach

\* A server initialises the mutex: whoever else uses the room sees it raced.
LEMMA InitMutexLock ==
  ASSUME NEW p \in Procs, LockShape, Main(p, "initMutex", "initCond"),
         Unlock(at[p]), Touch(p), UNCHANGED <<at, rxPc>>
  PROVE  LockShape'
  BY MarksAssumption, ThreadFacts
  DEF LockShape, ShapeOK, Placed, Mapped, MutualExclusion,
      MainWorks, RxWorks, MainPlaces, RxPlaces, Main, Unlock, Touch

\* The other steps of a starting server leave the lock alone.
LEMMA StartLock ==
  ASSUME NEW p \in Procs, LockShape,
         NEW from \in MainPlaces, NEW to \in MainPlaces,
         from \in Mapped <=> to \in Mapped,
         from \notin {"type", "lockSend", "write", "bump", "unlock", "join", "unlink"},
         to \notin {"history", "write", "bump", "unlock", "unlink"},
         Main(p, from, to), UNCHANGED <<mutex, at, rxPc>>,
         raced' = raced \/ Touch(p)
  PROVE  LockShape'
  BY MarksAssumption
  DEF LockShape, ShapeOK, Placed, Mapped, MutualExclusion,
      MainWorks, RxWorks, MainPlaces, RxPlaces, Main, Touch

-----------------------------------------------------------------------------
\* The history of a room.

DataOK ==
  /\ count \in [Rooms -> Nat]
  /\ slots \in [Rooms -> [Indices -> Messages \cup {Zeroed}]]
  /\ inputs \in [Procs -> Nat]

\* No counted message is changed or dropped.
Kept ==
  \A r \in Rooms :
    /\ count'[r] >= count[r]
    /\ \A n \in Indices : n < count[r] => slots'[r][n] = slots[r][n]

LEMMA ChatInitData == ChatInit => DataOK
  BY BoundsAssumption DEF ChatInit, DataOK

\* A step that leaves the messages alone keeps them.
LEMMA QuietKept ==
  ASSUME DataOK, UNCHANGED <<count, slots, inputs>> PROVE DataOK' /\ Kept
  BY DEF DataOK, Kept

\* A message goes into the first slot that is not counted.
LEMMA WriteKept ==
  ASSUME NEW p \in Procs, DataOK, SendWrite(p) PROVE DataOK' /\ Kept
<1> DEFINE c == count[at[p]]
           m == Message(p, inputs[p])
<1>1. m \in Messages
  BY DEF DataOK, Message, Messages, Name
<1>2. /\ slots' = [slots EXCEPT ![at[p]] = [slots[at[p]] EXCEPT ![c] = m]]
      /\ count' = count /\ inputs' = inputs
  BY DEF SendWrite, readVars, boundVars
<1> HIDE DEF m
<1>3. DataOK'
  BY <1>1, <1>2 DEF DataOK
<1>4. ASSUME NEW r \in Rooms, NEW n \in Indices, n < count[r]
      PROVE  slots'[r][n] = slots[r][n]
  BY <1>2, <1>4 DEF DataOK, Indices
<1> QED BY <1>2, <1>3, <1>4 DEF Kept, DataOK

LEMMA BumpKept ==
  ASSUME NEW p \in Procs, DataOK, SendBump(p) PROVE DataOK' /\ Kept
<1>1. /\ count' = [count EXCEPT ![at[p]] = count[at[p]] + 1]
      /\ slots' = slots /\ inputs' = inputs
  BY DEF SendBump, readVars, boundVars
<1>2. ASSUME NEW r \in Rooms
      PROVE  /\ count[r] \in Nat
             /\ count'[r] = count[r] \/ count'[r] = count[r] + 1
  <2>1. CASE r = at[p]
    BY <1>1, <2>1 DEF DataOK
  <2>2. CASE r # at[p]
    BY <1>1, <2>2 DEF DataOK
  <2> QED BY <2>1, <2>2
<1>3. count' \in [Rooms -> Nat]
  <2>1. count' = [r \in Rooms |-> count'[r]]
    BY <1>1 DEF DataOK
  <2>2. \A r \in Rooms : count'[r] \in Nat
    BY <1>2
  <2> QED BY <2>1, <2>2
<1>4. \A r \in Rooms : count'[r] >= count[r]
  BY <1>2
<1> QED BY <1>1, <1>3, <1>4 DEF DataOK, Kept

\* Every step of a running process keeps the history, and only the increment
\* of msg_count makes it longer.
LEMMA ChatKept ==
  ASSUME NEW p \in Procs, DataOK,
         \/ Receiver(p) \/ History(p) \/ CreateReceiver(p) \/ Send(p)
         \/ Type(p) \/ Exit(p) \/ RxSpurious(p) \/ Join(p)
  PROVE  DataOK' /\ Kept /\ (count' = count \/ mainPc[p] = "bump")
<1>1. CASE SendWrite(p)
  BY <1>1, WriteKept DEF SendWrite
<1>2. CASE SendBump(p)
  BY <1>2, BumpKept DEF SendBump, Main
<1>3. CASE Type(p)
  <2>1. inputs' \in [Procs -> Nat]
    BY <1>3, BoundsAssumption DEF Type, DataOK
  <2>2. DataOK'
    BY <1>3, <2>1 DEF Type, DataOK, roomVars
  <2> QED BY <1>3, <2>2 DEF Type, DataOK, Kept, roomVars
<1>4. CASE UNCHANGED <<count, slots, inputs>>
  BY <1>4, QuietKept
<1> QED
  BY <1>1, <1>2, <1>3, <1>4
  DEF Receiver, RxLock, RxWait, RxRelock, RxBegin, RxPrint, RxAdvance,
      RxDieWaiting, RxDiePrinting, History, HistoryLock, HistoryPrint,
      CreateReceiver, Send, SendLock, SendRefused, SendUnlock, Exit,
      RxSpurious, Join, Off, roomVars, boundVars

-----------------------------------------------------------------------------
\* The capacity of a room.  The test, the write and the increment of a sender
\* are one locked section, so what the test found is still so at the increment.

LEMMA ChatInitBound == ChatInit => RoomNotOverrun
  BY BoundsAssumption DEF ChatInit, RoomNotOverrun

\* A sender that comes to the increment has just tested the count.
LEMMA WriteBound ==
  ASSUME NEW p \in Procs, LockShape, DataOK, RoomNotOverrun, SendWrite(p)
  PROVE  RoomNotOverrun'
<1>1. /\ at' = at /\ count' = count /\ raced' = raced
      /\ mainPc' = [mainPc EXCEPT ![p] = "bump"]
      /\ count[at[p]] < MAX_MESSAGES
  BY DEF SendWrite, Main
<1>2. mainPc \in [Procs -> MainPlaces]
  BY DEF LockShape, ShapeOK
<1> QED BY <1>1, <1>2 DEF RoomNotOverrun

\* At an increment nobody else is about to increment the same count.
LEMMA BumpBound ==
  ASSUME NEW p \in Procs, LockShape, DataOK, RoomNotOverrun, SendBump(p)
  PROVE  RoomNotOverrun'
<1>1. /\ at' = at /\ raced' = raced /\ mainPc[p] = "bump"
      /\ mainPc' = [mainPc EXCEPT ![p] = "unlock"]
      /\ count' = [count EXCEPT ![at[p]] = count[at[p]] + 1]
  BY DEF SendBump, Main
<1>2. mainPc \in [Procs -> MainPlaces] /\ at[p] \in Rooms
  BY <1>1 DEF LockShape, ShapeOK, Placed, Mapped
<1>3. ASSUME NEW r \in Rooms, ~raced'[r]
      PROVE  /\ count'[r] <= MAX_MESSAGES
             /\ \A q \in Procs :
                  at'[q] = r /\ mainPc'[q] = "bump" => count'[r] < MAX_MESSAGES
  <2>1. CASE r # at[p]
    <3>1. count'[r] = count[r]
      BY <1>1, <2>1 DEF DataOK
    <3> QED BY <1>1, <1>2, <1>3, <2>1, <3>1 DEF RoomNotOverrun
  <2>2. CASE r = at[p]
    <3>1. count[r] \in Nat /\ count'[r] = count[r] + 1
      BY <1>1, <2>2 DEF DataOK
    <3>2. count[r] < MAX_MESSAGES
      BY <1>1, <1>3, <2>2 DEF RoomNotOverrun
    <3>3. count'[r] <= MAX_MESSAGES
      BY <3>1, <3>2, BoundsAssumption
    <3>4. ASSUME NEW q \in Procs, at'[q] = r, mainPc'[q] = "bump" PROVE FALSE
      <4>1. q # p /\ at[q] = r /\ mainPc[q] = "bump"
        BY <1>1, <1>2, <3>4
      <4>2. mutex[r] = MainThread(q) /\ mutex[r] = MainThread(p)
        BY <1>1, <1>3, <2>2, <4>1 DEF LockShape, MutualExclusion, MainWorks
      <4> QED BY <4>1, <4>2, ThreadFacts
    <3> QED BY <3>3, <3>4
  <2> QED BY <2>1, <2>2
<1> QED BY <1>3 DEF RoomNotOverrun

\* A step that at most empties rooms, and brings nobody to an increment.
LEMMA BoundStays ==
  ASSUME RoomNotOverrun, LockShape,
         \A r \in Rooms : raced[r] => raced'[r],
         \A r \in Rooms : count'[r] = count[r] \/ count'[r] = 0,
         \A q \in Procs :
           mainPc'[q] = "bump" => mainPc[q] = "bump" /\ at'[q] = at[q]
  PROVE  RoomNotOverrun'
  BY BoundsAssumption DEF RoomNotOverrun

\* Every step of a running process.
LEMMA ChatBound ==
  ASSUME NEW p \in Procs, LockShape, DataOK, RoomNotOverrun,
         \/ Receiver(p) \/ History(p) \/ CreateReceiver(p) \/ Send(p)
         \/ Type(p) \/ Exit(p) \/ RxSpurious(p) \/ Join(p)
  PROVE  RoomNotOverrun'
<1>1. CASE SendWrite(p)
  BY <1>1, WriteBound
<1>2. CASE SendBump(p)
  BY <1>2, BumpBound
<1>3. CASE ~SendWrite(p) /\ ~SendBump(p)
  <2>1. /\ raced' = raced /\ count' = count
        /\ \A q \in Procs :
             mainPc'[q] = "bump" => mainPc[q] = "bump" /\ at'[q] = at[q]
    BY <1>3
    DEF Receiver, RxLock, RxWait, RxRelock, RxBegin, RxPrint, RxAdvance,
        RxDieWaiting, RxDiePrinting, History, HistoryLock, HistoryPrint,
        CreateReceiver, Send, SendLock, SendRefused, SendUnlock, Type, Exit,
        RxSpurious, Join, Off, Main, roomVars, LockShape, ShapeOK
  <2> QED BY <2>1, BoundStays
<1> QED BY <1>1, <1>2, <1>3

-----------------------------------------------------------------------------
\* The messages of the others, as a function of the messages in the room.

\* The value of the recursion in ForeignIn at n, and that f follows it.
ForeignStep(p, s, f, n) ==
  IF n = 0 THEN << >>
  ELSE IF Foreign(p, s[n]) THEN Append(f[n-1], s[n]) ELSE f[n-1]

Follows(p, s, f, b) == f = [n \in 0..b |-> ForeignStep(p, s, f, n)]

\* A non-empty set of numbers has a least one.
LEMMA LeastNumber ==
  ASSUME NEW S, S \subseteq Nat, S # {}
  PROVE  \E n \in S : \A k \in S : n <= k
<1>1. PICK n \in S : \A k \in S : ~(<<k, n>> \in OpToRel(<, Nat))
  BY NatLessThanWellFounded, WFMin
<1>2. ASSUME NEW k \in S PROVE n <= k
  <2>1. ~(k < n)
    BY <1>1 DEF OpToRel
  <2> QED BY <2>1
<1> QED BY <1>2

\* The recursion has a solution as far as one likes.
LEMMA FollowsExists ==
  ASSUME NEW p, NEW s, NEW b \in Nat
  PROVE  \E f : Follows(p, s, f, b)
<1> DEFINE Without == {n \in Nat : ~\E f : Follows(p, s, f, n)}
<1>1. ASSUME Without # {} PROVE FALSE
  <2>1. PICK n \in Without : \A k \in Without : n <= k
    BY <1>1, LeastNumber
  <2>2. CASE n = 0
    <3>1. Follows(p, s, [k \in 0..0 |-> << >>], 0)
      BY DEF Follows, ForeignStep
    <3> QED BY <2>1, <2>2, <3>1
  <2>3. CASE n # 0
    <3>1. n-1 \in Nat /\ n \in Nat /\ ~(n <= n-1)
      BY <2>3
    <3>2. PICK f : Follows(p, s, f, n-1)
      BY <2>1, <3>1
    <3> DEFINE g == [k \in 0..n |-> IF k = n THEN ForeignStep(p, s, f, n)
                                   ELSE f[k]]
    <3>3. ASSUME NEW k \in 0..n PROVE g[k] = ForeignStep(p, s, g, k)
      <4>1. CASE k = n
        <5>1. g[n-1] = f[n-1]
          BY <3>1
        <5> QED BY <4>1, <5>1, <2>3 DEF ForeignStep
      <4>2. CASE k # n
        <5>1. k \in 0..(n-1)
          BY <3>1, <4>2
        <5>2. f[k] = ForeignStep(p, s, f, k)
          BY <3>2, <5>1 DEF Follows
        <5>3. k # 0 => g[k-1] = f[k-1]
          BY <5>1, <3>1
        <5> QED BY <4>2, <5>2, <5>3 DEF ForeignStep
      <4> QED BY <4>1, <4>2
    <3>4. Follows(p, s, g, n)
      <4>1. g = [k \in 0..n |-> g[k]]
        OBVIOUS
      <4> HIDE DEF g
      <4>2. [k \in 0..n |-> g[k]] = [k \in 0..n |-> ForeignStep(p, s, g, k)]
        BY <3>3
      <4> QED BY <4>1, <4>2 DEF Follows
    <3> HIDE DEF g
    <3> QED BY <2>1, <3>4
  <2> QED BY <2>2, <2>3
<1> QED BY <1>1

\* Two solutions for sequences that begin alike agree on that beginning.
LEMMA FollowsAgree ==
  ASSUME NEW p, NEW s, NEW t, NEW f, NEW g, NEW a \in Nat, NEW b \in Nat,
         a <= b,
         Follows(p, s, f, a), Follows(p, t, g, b),
         \A n \in 1..a : s[n] = t[n]
  PROVE  \A n \in 0..a : f[n] = g[n]
<1> DEFINE Differ == {n \in 0..a : f[n] # g[n]}
<1>1. ASSUME Differ # {} PROVE FALSE
  <2>1. PICK n \in Differ : \A k \in Differ : n <= k
    <3>1. Differ \subseteq Nat
      OBVIOUS
    <3> HIDE DEF Differ
    <3> QED BY <1>1, <3>1, LeastNumber
  <2>2. n \in 0..a /\ n \in 0..a /\ n \in 0..b
    OBVIOUS
  <2>3. f[n] = ForeignStep(p, s, f, n) /\ g[n] = ForeignStep(p, t, g, n)
    BY <2>2 DEF Follows
  <2>4. n # 0 => f[n-1] = g[n-1] /\ s[n] = t[n]
    <3> SUFFICES ASSUME n # 0 PROVE f[n-1] = g[n-1] /\ s[n] = t[n]
      OBVIOUS
    <3>1. n-1 \in 0..a /\ ~(n <= n-1) /\ n \in 1..a
      BY <2>2
    <3>2. n-1 \notin Differ
      BY <2>1, <3>1
    <3> QED BY <3>1, <3>2
  <2>5. f[n] = g[n]
    BY <2>3, <2>4 DEF ForeignStep
  <2> QED BY <2>5
<1> QED BY <1>1

\* ForeignIn is the last value of a solution.
LEMMA ForeignInIs ==
  ASSUME NEW p, NEW s, Len(s) \in Nat
  PROVE  \E f : Follows(p, s, f, Len(s)) /\ ForeignIn(p, s) = f[Len(s)]
<1> DEFINE F == CHOOSE f : Follows(p, s, f, Len(s))
<1>1. Follows(p, s, F, Len(s))
  BY FollowsExists
<1>2. ForeignIn(p, s) = F[Len(s)]
  BY DEF ForeignIn, Follows, ForeignStep
<1> QED BY <1>1, <1>2

\* Of an empty room nothing is shown.
LEMMA ForeignInEmpty == ASSUME NEW p PROVE ForeignIn(p, << >>) = << >>
<1>1. PICK f : Follows(p, << >>, f, 0) /\ ForeignIn(p, << >>) = f[0]
  BY ForeignInIs
<1> QED BY <1>1 DEF Follows, ForeignStep

\* What is shown is made of what is in the room.
LEMMA ForeignInType ==
  ASSUME NEW p, NEW S, NEW s \in Seq(S)
  PROVE  ForeignIn(p, s) \in Seq(S)
<1>1. PICK f : Follows(p, s, f, Len(s)) /\ ForeignIn(p, s) = f[Len(s)]
  BY ForeignInIs
<1> DEFINE Wrong == {n \in 0..Len(s) : f[n] \notin Seq(S)}
<1>2. ASSUME Wrong # {} PROVE FALSE
  <2>1. PICK n \in Wrong : \A k \in Wrong : n <= k
    <3>1. Wrong \subseteq Nat
      OBVIOUS
    <3> HIDE DEF Wrong
    <3> QED BY <1>2, <3>1, LeastNumber
  <2>2. n \in 0..Len(s) /\ f[n] = ForeignStep(p, s, f, n)
    BY <1>1 DEF Follows
  <2>3. CASE n = 0
    <3>1. f[n] = << >>
      BY <2>2, <2>3 DEF ForeignStep
    <3> QED BY <2>1, <3>1, EmptySeq
  <2>4. CASE n # 0
    <3>1. n-1 \in 0..Len(s) /\ ~(n <= n-1) /\ n \in 1..Len(s)
      BY <2>2, <2>4
    <3>2. f[n-1] \in Seq(S) /\ s[n] \in S
      BY <2>1, <3>1, ElementOfSeq
    <3>3. Append(f[n-1], s[n]) \in Seq(S)
      BY <3>2, AppendProperties
    <3>4. f[n] \in Seq(S)
      BY <2>2, <2>4, <3>2, <3>3 DEF ForeignStep
    <3> QED BY <2>1, <3>4
  <2> QED BY <2>3, <2>4
<1>3. Len(s) \in 0..Len(s)
  OBVIOUS
<1> QED BY <1>1, <1>2, <1>3

\* One more message in the room is one more shown, if it is another's.
LEMMA ForeignInAppend ==
  ASSUME NEW p, NEW S, NEW s \in Seq(S), NEW x \in S
  PROVE  ForeignIn(p, Append(s, x)) =
           IF Foreign(p, x) THEN Append(ForeignIn(p, s), x) ELSE ForeignIn(p, s)
<1> DEFINE t == Append(s, x)
           a == Len(s)
<1>1. /\ Len(t) = a + 1 /\ a \in Nat /\ a + 1 \in Nat
      /\ \A n \in 1..a : s[n] = t[n]
      /\ t[a + 1] = x
  BY AppendProperties
<1> HIDE DEF t, a
<1>2. PICK f : Follows(p, s, f, a) /\ ForeignIn(p, s) = f[a]
  BY ForeignInIs, <1>1 DEF a
<1>3. PICK g : Follows(p, t, g, a + 1) /\ ForeignIn(p, t) = g[a + 1]
  BY ForeignInIs, <1>1
<1>4. f[a] = g[a]
  <2>1. a <= a /\ a <= a + 1 /\ a \in 0..a
    BY <1>1
  <2> DEFINE b == a + 1
  <2>2. b \in Nat /\ a <= b /\ Follows(p, t, g, b)
    BY <1>1, <1>3
  <2> HIDE DEF b
  <2>3. (\A n \in 1..a : s[n] = t[n]) /\ a \in Nat
    BY <1>1
  <2>4. Follows(p, s, f, a)
    BY <1>2
  <2> HIDE DEF t
  <2>5. \A n \in 0..a : f[n] = g[n]
    BY <2>2, <2>3, <2>4, FollowsAgree
  <2> QED BY <2>1, <2>5
<1>5. g[a + 1] = ForeignStep(p, t, g, a + 1)
  BY <1>1, <1>3 DEF Follows
<1>6. a + 1 # 0 /\ (a + 1) - 1 = a
  BY <1>1
<1> QED BY <1>1, <1>2, <1>3, <1>4, <1>5, <1>6 DEF ForeignStep, t

-----------------------------------------------------------------------------
\* The messages of a room from one position to another.

Contents == Messages \cup {Zeroed}

LEMMA SlotType ==
  ASSUME DataOK, NEW r \in Rooms, NEW n PROVE Slot(r, n) \in Contents
  BY DEF DataOK, Slot, Contents

LEMMA SliceType ==
  ASSUME DataOK, NEW r \in Rooms, NEW a \in Nat, NEW b \in Nat, a <= b
  PROVE  Slice(r, a, b) \in Seq(Contents) /\ Len(Slice(r, a, b)) = b - a
<1>1. b - a \in Nat
  OBVIOUS
<1>2. Slice(r, a, b) \in [1..(b - a) -> Contents]
  BY SlotType DEF Slice
<1> QED BY <1>1, <1>2

LEMMA SliceEmpty ==
  ASSUME NEW r, NEW a \in Nat PROVE Slice(r, a, a) = << >>
<1>1. 1..(a - a) = {}
  OBVIOUS
<1> QED BY <1>1 DEF Slice

LEMMA SliceExtend ==
  ASSUME DataOK, NEW r \in Rooms, NEW a \in Nat, NEW b \in Nat, a <= b
  PROVE  Slice(r, a, b + 1) = Append(Slice(r, a, b), Slot(r, b))
<1> DEFINE s == Slice(r, a, b)
           t == Slice(r, a, b + 1)
<1>1. /\ s \in Seq(Contents) /\ Len(s) = b - a
      /\ t \in Seq(Contents) /\ Len(t) = b + 1 - a
  <2>1. s \in Seq(Contents) /\ Len(s) = b - a
    BY SliceType
  <2> DEFINE c == b + 1
  <2>2. c \in Nat /\ a <= c
    OBVIOUS
  <2>3. t = Slice(r, a, c)
    OBVIOUS
  <2> HIDE DEF c, s, t
  <2>4. t \in Seq(Contents) /\ Len(t) = c - a
    BY <2>2, <2>3, SliceType
  <2> QED BY <2>1, <2>4 DEF c
<1>2. /\ Append(s, Slot(r, b)) \in Seq(Contents)
      /\ Len(Append(s, Slot(r, b))) = Len(t)
  BY <1>1, SlotType
<1>3. ASSUME NEW n \in 1..Len(t) PROVE t[n] = Append(s, Slot(r, b))[n]
  <2>1. t[n] = Slot(r, a + n - 1)
    BY <1>1, <1>3 DEF Slice
  <2>2. CASE n \in 1..Len(s)
    <3>1. s[n] = Slot(r, a + n - 1)
      BY <1>1, <2>2 DEF Slice
    <3> HIDE DEF s, t
    <3> QED BY <1>1, <2>1, <2>2, <3>1
  <2>3. CASE n = Len(s) + 1
    <3>1. a + n - 1 = b
      BY <1>1, <2>3
    <3> HIDE DEF s, t
    <3> QED BY <1>1, <2>1, <2>3, <3>1
  <2>4. n \in 1..Len(s) \/ n = Len(s) + 1
    BY <1>1
  <2> QED BY <2>2, <2>3, <2>4
<1> HIDE DEF s, t
<1>4. t = Append(s, Slot(r, b))
  BY <1>1, <1>2, <1>3, SeqEqual
<1> QED BY <1>4 DEF s, t

\* A slice does not change while the slots it is taken from do not.
LEMMA SliceKept ==
  ASSUME NEW r, NEW a \in Nat, NEW b \in Nat, NEW c \in Nat, b <= c,
         \A n \in Indices : n < c => slots'[r][n] = slots[r][n]
  PROVE  Slice(r, a, b)' = Slice(r, a, b)
<1>1. ASSUME NEW n \in 1..(b - a)
      PROVE  Slot(r, a + n - 1)' = Slot(r, a + n - 1)
  <2>1. a + n - 1 < c
    BY <1>1
  <2> QED BY <2>1 DEF Slot
<1> QED BY <1>1 DEF Slice

-----------------------------------------------------------------------------
\* The rest of the state: with LockShape and DataOK it is ChatTypeOK.

ReadOK ==
  /\ cancelled \in [Procs -> BOOLEAN]
  /\ readIndex \in [Procs -> Nat]
  /\ cursor \in [Procs -> Nat]
  /\ base \in [Procs -> Nat]
  /\ shown \in [Procs -> Seq(Contents)]
  /\ starts \in [Procs -> 0..MaxStarts]
  /\ spurious \in 0..MaxSpurious

LEMMA ChatTyped == ShapeOK /\ DataOK /\ ReadOK => ChatTypeOK
  BY DEF ShapeOK, DataOK, ReadOK, ChatTypeOK, Contents

LEMMA ChatInitRead == ChatInit => ReadOK
  BY BoundsAssumption, EmptySeq DEF ChatInit, ReadOK

\* A thread that works on a room has one.
LEMMA WorksMapped ==
  ASSUME LockShape, NEW p \in Procs,
         \/ rxPc[p] \in RxPlaces \ {"none", "dead"}
         \/ mainPc[p] \in Mapped
  PROVE  at[p] \in Rooms
  BY DEF LockShape, ShapeOK, Placed, Mapped

LEMMA OffRead ==
  ASSUME NEW p \in Procs, ReadOK, Off(p) PROVE ReadOK'
  BY EmptySeq DEF ReadOK, Off, boundVars

LEMMA ChatRead ==
  ASSUME NEW p \in Procs, LockShape, DataOK, ReadOK,
         \/ Receiver(p) \/ History(p) \/ CreateReceiver(p) \/ Send(p)
         \/ Type(p) \/ Exit(p) \/ RxSpurious(p) \/ Join(p)
  PROVE  ReadOK'
<1> DEFINE m == Current(p)
<1>1. CASE RxPrint(p) \/ RxDiePrinting(p)
  <2>1. m \in Contents
    BY <1>1, WorksMapped, SlotType
    DEF Current, RxPrint, RxDiePrinting, Rx, RxPlaces
  <2>2. Append(shown[p], m) \in Seq(Contents)
    BY <2>1, AppendProperties DEF ReadOK
  <2> HIDE DEF m
  <2>3. shown' \in [Procs -> Seq(Contents)]
    BY <1>1, <2>2 DEF RxPrint, RxDiePrinting, ReadOK, m
  <2>4. cursor' \in [Procs -> Nat]
    <3>1. cursor[p] \in Nat /\ cursor \in [Procs -> Nat]
      BY DEF ReadOK
    <3>2. cursor' = [cursor EXCEPT ![p] = cursor[p] + 1] \/ cursor' = cursor
      BY <1>1 DEF RxPrint, RxDiePrinting
    <3> QED BY <3>1, <3>2
  <2> QED BY <1>1, <2>3, <2>4 DEF RxPrint, RxDiePrinting, ReadOK, boundVars
<1>2. CASE RxBegin(p)
  BY <1>2 DEF RxBegin, ReadOK, boundVars
<1>3. CASE RxAdvance(p)
  <2>1. count[at[p]] \in Nat
    BY <1>3, WorksMapped DEF RxAdvance, Rx, RxPlaces, DataOK
  <2> QED BY <1>3, <2>1 DEF RxAdvance, ReadOK, boundVars
<1>4. CASE HistoryPrint(p)
  <2>1. at[p] \in Rooms
    BY <1>4, WorksMapped DEF HistoryPrint, Main, Mapped
  <2> DEFINE n == count[at[p]]
  <2>2. n \in Nat /\ 0 <= n
    BY <2>1 DEF DataOK
  <2>3. Slice(at[p], 0, n) \in Seq(Contents)
    BY <2>1, <2>2, SliceType
  <2> QED BY <1>4, <2>2, <2>3 DEF HistoryPrint, ReadOK, boundVars
<1>5. CASE RxSpurious(p)
  BY <1>5, BoundsAssumption DEF RxSpurious, ReadOK, readVars
<1>6. CASE Join(p)
  BY <1>6, OffRead DEF Join
<1>7. CASE Exit(p)
  BY <1>7 DEF Exit, ReadOK, readVars, boundVars
<1>8. CASE Type(p)
  BY <1>8 DEF Type, ReadOK, readVars
<1>9. CASE UNCHANGED <<cancelled, readVars, boundVars>>
  BY <1>9 DEF ReadOK, readVars, boundVars
<1> QED
  BY <1>1, <1>2, <1>3, <1>4, <1>5, <1>6, <1>7, <1>8, <1>9
  DEF Receiver, RxLock, RxWait, RxRelock, RxDieWaiting, History, HistoryLock,
      CreateReceiver, Send, SendLock, SendWrite, SendRefused, SendBump,
      SendUnlock

-----------------------------------------------------------------------------
\* What a process shows.  Its reading position lies between the history it
\* found and the count of the room, below which no slot changes any more; so
\* what it has printed stays right while others append, and each of its own
\* steps adds exactly the next slot.

\* Only a leaving process has a cancelled receiver, and only a cancelled
\* receiver dies.
CancelOK ==
  \A p \in Procs :
    /\ cancelled[p] => mainPc[p] \in {"join", "unlink"}
    /\ rxPc[p] = "dead" => cancelled[p]

View(p) ==
  /\ base[p] <= Reached(p)
  /\ Reached(p) <= count[at[p]]
  /\ shown[p] = Slice(at[p], 0, base[p])
                  \o ForeignIn(p, Slice(at[p], base[p], Reached(p)))

ViewOK ==
  \A p \in Procs : mainPc[p] \in Chatting /\ ~raced[at[p]] => View(p)

ViewInv == LockShape /\ DataOK /\ ReadOK /\ CancelOK /\ ViewOK

LEMMA ViewShown == ViewInv => ShownIsRoom
  BY DEF ViewInv, ViewOK, View, ShownIsRoom

LEMMA ChatInitView == ChatInit => ViewInv
  BY ChatInitLock, ChatInitData, ChatInitRead
  DEF ChatInit, ViewInv, CancelOK, ViewOK, Chatting

LEMMA ReachedNat ==
  ASSUME ReadOK, NEW p \in Procs PROVE Reached(p) \in Nat /\ base[p] \in Nat
  BY DEF ReadOK, Reached

\* A process that does not read meanwhile shows what it should.
LEMMA ViewStays ==
  ASSUME NEW p \in Procs, DataOK, ReadOK, at[p] \in Rooms, View(p),
         at'[p] = at[p], base'[p] = base[p], shown'[p] = shown[p],
         Reached(p)' = Reached(p),
         count'[at[p]] \in Nat, count'[at[p]] >= count[at[p]],
         \A n \in Indices : n < count[at[p]] =>
           slots'[at[p]][n] = slots[at[p]][n]
  PROVE  View(p)'
<1>1. SUFFICES ASSUME NEW r \in Rooms, NEW b \in Nat, NEW e \in Nat,
                      NEW c \in Nat,
                      r = at[p], b = base[p], e = Reached(p), c = count[r]
               PROVE  View(p)'
  BY ReachedNat DEF DataOK
<1>2. b <= e /\ e <= c
  BY <1>1 DEF View
<1>3. b <= c /\ \A n \in Indices : n < c => slots'[r][n] = slots[r][n]
  BY <1>1, <1>2
<1>4. Slice(r, 0, b)' = Slice(r, 0, b) /\ Slice(r, b, e)' = Slice(r, b, e)
  BY <1>2, <1>3, SliceKept
<1>5. at'[p] = r /\ base'[p] = b /\ Reached(p)' = e
  BY <1>1
<1>6. shown[p] = Slice(r, 0, b) \o ForeignIn(p, Slice(r, b, e))
  BY <1>1 DEF View
<1>7. shown'[p] = Slice(at[p], 0, base[p])'
                   \o ForeignIn(p, Slice(at[p], base[p], Reached(p)))'
  BY <1>4, <1>5, <1>6
<1>8. (base[p] <= Reached(p))' /\ (Reached(p) <= count[at[p]])'
  BY <1>1, <1>2, <1>5
<1> QED BY <1>7, <1>8 DEF View

\* The receiver prints a message: the slot at its cursor, if it is another's.
LEMMA ViewPrint ==
  ASSUME NEW p \in Procs, DataOK, ReadOK, at[p] \in Rooms, View(p), RxPrint(p)
  PROVE  View(p)'
<1>1. SUFFICES ASSUME NEW r \in Rooms, NEW b \in Nat, NEW e \in Nat,
                      NEW c \in Nat, NEW m \in Contents,
                      r = at[p], b = base[p], e = cursor[p], c = count[r],
                      m = Slot(r, e)
               PROVE  View(p)'
  BY ReachedNat, SlotType DEF DataOK, ReadOK
<1>2. b <= e /\ e < c /\ Reached(p) = e
  BY <1>1 DEF View, RxPrint, Reached
<1>3. e + 1 \in Nat /\ b <= e + 1 /\ e + 1 <= c
  BY <1>2
<1>4. /\ at'[p] = r /\ base'[p] = b /\ Reached(p)' = e + 1 /\ count' = count
      /\ slots' = slots
      /\ shown'[p] = IF Foreign(p, m) THEN Append(shown[p], m) ELSE shown[p]
  BY <1>1 DEF RxPrint, ReadOK, Reached, Current, roomVars
<1>5. /\ Slice(r, 0, b)' = Slice(r, 0, b)
      /\ Slice(r, b, e + 1)' = Slice(r, b, e + 1)
  BY <1>3, <1>4 DEF Slice, Slot
<1>6. shown'[p] = Slice(r, 0, b) \o ForeignIn(p, Slice(r, b, e + 1))
  <2> DEFINE s == Slice(r, 0, b)
             t == Slice(r, b, e)
             u == ForeignIn(p, t)
  <2>1. s \in Seq(Contents) /\ t \in Seq(Contents)
    <3>1. 0 \in Nat /\ 0 <= b
      OBVIOUS
    <3> QED BY <1>2, <3>1, SliceType
  <2>2. Slice(r, b, e + 1) = Append(t, m)
    BY <1>1, <1>2, SliceExtend
  <2>3. shown[p] = s \o u
    BY <1>1, <1>2 DEF View
  <2> HIDE DEF s, t
  <2>4. u \in Seq(Contents)
    BY <2>1, ForeignInType
  <2>5. ForeignIn(p, Append(t, m)) = IF Foreign(p, m) THEN Append(u, m) ELSE u
    BY <2>1, ForeignInAppend
  <2> HIDE DEF u
  <2>6. s \o Append(u, m) = Append(s \o u, m)
    BY <2>1, <2>4
  <2>7. shown'[p] = s \o ForeignIn(p, Append(t, m))
    BY <1>4, <2>3, <2>5, <2>6
  <2> QED BY <2>2, <2>7 DEF s
<1>7. shown'[p] = Slice(at[p], 0, base[p])'
                   \o ForeignIn(p, Slice(at[p], base[p], Reached(p)))'
  BY <1>4, <1>5, <1>6
<1>8. (base[p] <= Reached(p))' /\ (Reached(p) <= count[at[p]])'
  BY <1>1, <1>3, <1>4
<1> QED BY <1>7, <1>8 DEF View

\* The history is all there is in the room, and nothing else has been shown.
LEMMA ViewHistory ==
  ASSUME NEW p \in Procs, LockShape, DataOK, ReadOK, HistoryPrint(p)
  PROVE  View(p)'
<1>1. at[p] \in Rooms /\ rxPc[p] = "none"
  BY DEF LockShape, ShapeOK, Placed, Mapped, HistoryPrint, Main
<1>2. SUFFICES ASSUME NEW r \in Rooms, NEW n \in Nat,
                      r = at[p], n = count[r]
               PROVE  View(p)'
  BY <1>1 DEF DataOK
<1>3. /\ at'[p] = r /\ base'[p] = n /\ Reached(p)' = n /\ count' = count
      /\ slots' = slots /\ shown'[p] = Slice(r, 0, n)
  BY <1>1, <1>2 DEF HistoryPrint, Reached, ReadOK
<1>4. Slice(r, 0, n)' = Slice(r, 0, n)
  BY <1>3 DEF Slice, Slot
<1>5. Slice(r, n, n)' = << >>
  <2>1. 1..(n - n) = {}
    OBVIOUS
  <2> QED BY <2>1 DEF Slice
<1>6. Slice(r, 0, n) \in Seq(Contents)
  <2>1. 0 \in Nat /\ 0 <= n
    OBVIOUS
  <2> QED BY <2>1, SliceType
<1>7. shown'[p] = Slice(at[p], 0, base[p])'
                   \o ForeignIn(p, Slice(at[p], base[p], Reached(p)))'
  BY <1>3, <1>4, <1>5, <1>6, ForeignInEmpty, ConcatEmptySeq
<1>8. (base[p] <= Reached(p))' /\ (Reached(p) <= count[at[p]])'
  BY <1>2, <1>3
<1> QED BY <1>7, <1>8 DEF View

\* The steps of a receiver and of its exit.
LEMMA ChatCancel ==
  ASSUME NEW p \in Procs, LockShape, ReadOK, CancelOK,
         \/ Receiver(p) \/ History(p) \/ CreateReceiver(p) \/ Send(p)
         \/ Type(p) \/ Exit(p) \/ RxSpurious(p) \/ Join(p)
  PROVE  CancelOK'
<1> USE DEF LockShape, ShapeOK, ReadOK, CancelOK, Main, Rx
<1>1. CASE Receiver(p)
  BY <1>1
  DEF Receiver, RxLock, RxWait, RxRelock, RxBegin, RxPrint, RxAdvance,
      RxDieWaiting, RxDiePrinting
<1>2. CASE History(p) \/ CreateReceiver(p)
  BY <1>2 DEF History, HistoryLock, HistoryPrint, CreateReceiver
<1>3. CASE SendBump(p)
  BY <1>3 DEF SendBump, Broadcast, Sleepers
<1>4. CASE SendLock(p) \/ SendWrite(p) \/ SendRefused(p) \/ SendUnlock(p)
  BY <1>4 DEF SendLock, SendWrite, SendRefused, SendUnlock
<1>5. CASE Type(p) \/ Exit(p) \/ RxSpurious(p)
  BY <1>5 DEF Type, Exit, RxSpurious
<1>6. CASE Join(p)
  BY <1>6 DEF Join, Off
<1> QED BY <1>1, <1>2, <1>3, <1>4, <1>5, <1>6 DEF Send

\* A broadcast wakes sleepers and does nothing else to the receivers.
LEMMA BumpWakes ==
  ASSUME NEW p \in Procs, ShapeOK, SendBump(p), NEW q \in Procs
  PROVE  rxPc'[q] = rxPc[q] \/ (rxPc[q] = "asleep" /\ rxPc'[q] = "woken")
<1>1. PICK W \in SUBSET Sleepers(at[p]) :
        rxPc' = [k \in Procs |-> IF k \in W THEN "woken" ELSE rxPc[k]]
  BY DEF SendBump, Broadcast
<1> QED BY <1>1 DEF Sleepers

\* The other receivers are only touched by a broadcast.
LEMMA OtherReceivers ==
  ASSUME NEW p \in Procs, ShapeOK, NEW q \in Procs, q # p,
         \/ Receiver(p) \/ History(p) \/ CreateReceiver(p) \/ Send(p)
         \/ Type(p) \/ Exit(p) \/ RxSpurious(p) \/ Join(p)
  PROVE  rxPc'[q] = rxPc[q] \/ (rxPc[q] = "asleep" /\ rxPc'[q] = "woken")
<1> USE DEF ShapeOK, Rx
<1>1. CASE Receiver(p)
  BY <1>1
  DEF Receiver, RxLock, RxWait, RxRelock, RxBegin, RxPrint, RxAdvance,
      RxDieWaiting, RxDiePrinting
<1>2. CASE SendBump(p)
  BY <1>2, BumpWakes
<1>3. CASE SendLock(p) \/ SendWrite(p) \/ SendRefused(p) \/ SendUnlock(p)
  BY <1>3 DEF SendLock, SendWrite, SendRefused, SendUnlock
<1>4. CASE History(p) \/ CreateReceiver(p) \/ Type(p) \/ Exit(p)
  BY <1>4 DEF History, HistoryLock, HistoryPrint, CreateReceiver, Type, Exit
<1>5. CASE RxSpurious(p) \/ Join(p)
  BY <1>5 DEF RxSpurious, Join, Off
<1> QED BY <1>1, <1>2, <1>3, <1>4, <1>5 DEF Send

\* A process that is chatting and whose room nobody raced was so before, or
\* prints the history now.
LEMMA ChatView ==
  ASSUME NEW p \in Procs, ViewInv,
         \/ Receiver(p) \/ History(p) \/ CreateReceiver(p) \/ Send(p)
         \/ Type(p) \/ Exit(p) \/ RxSpurious(p) \/ Join(p)
  PROVE  ViewInv'
<1> USE DEF ViewInv
<1>1. LockShape'
  BY ReceiverLock, MainLock, SpuriousLock, JoinLock
<1>2. DataOK' /\ Kept
  BY ChatKept
<1>3. ReadOK' /\ CancelOK'
  BY ChatRead, ChatCancel
<1>4. ASSUME NEW q \in Procs, mainPc'[q] \in Chatting, ~raced'[at'[q]]
      PROVE  View(q)'
  <2> USE DEF LockShape, ShapeOK, ReadOK, Main, Rx, roomVars, readVars
  <2>1. /\ count' \in [Rooms -> Nat]
        /\ \A r \in Rooms : /\ count'[r] \in Nat /\ count'[r] >= count[r]
                            /\ \A n \in Indices :
                                 n < count[r] => slots'[r][n] = slots[r][n]
    BY <1>2 DEF DataOK, Kept
  <2>2. raced' = raced
    BY DEF Receiver, RxLock, RxWait, RxRelock, RxBegin, RxPrint, RxAdvance,
           RxDieWaiting, RxDiePrinting, History, HistoryLock, HistoryPrint,
           CreateReceiver, Send, SendLock, SendWrite, SendRefused, SendBump,
           SendUnlock, Type, Exit, RxSpurious, Join
  <2>3. ASSUME mainPc[q] \in Chatting, at'[q] = at[q], base'[q] = base[q],
               shown'[q] = shown[q], Reached(q)' = Reached(q)
        PROVE  View(q)'
    <3>1. View(q) /\ at[q] \in Rooms
      BY <1>4, <2>2, <2>3, WorksMapped DEF ViewOK, Chatting, Mapped
    <3>2. /\ count'[at[q]] \in Nat /\ count'[at[q]] >= count[at[q]]
          /\ \A n \in Indices : n < count[at[q]] =>
               slots'[at[q]][n] = slots[at[q]][n]
      BY <2>1, <3>1
    <3> QED BY <2>3, <3>1, <3>2, ViewStays
  <2>4. CASE q # p
    <3>1. /\ mainPc'[q] = mainPc[q] /\ at'[q] = at[q] /\ base'[q] = base[q]
          /\ shown'[q] = shown[q] /\ cursor'[q] = cursor[q]
          /\ readIndex'[q] = readIndex[q]
      BY <2>4
      DEF Receiver, RxLock, RxWait, RxRelock, RxBegin, RxPrint, RxAdvance,
          RxDieWaiting, RxDiePrinting, History, HistoryLock, HistoryPrint,
          CreateReceiver, Send, SendLock, SendWrite, SendRefused, SendBump,
          SendUnlock, Type, Exit, RxSpurious, Join, Off
    <3>2. rxPc'[q] = rxPc[q] \/ (rxPc[q] = "asleep" /\ rxPc'[q] = "woken")
      BY <2>4, OtherReceivers
    <3>3. Reached(q)' = Reached(q)
      BY <3>1, <3>2 DEF Reached
    <3> QED BY <1>4, <2>3, <3>1, <3>3
  <2>5. CASE q = p
    <3>1. CASE HistoryPrint(p)
      BY <2>5, <3>1, ViewHistory
    <3>2. CASE RxPrint(p)
      <4>1. mainPc[p] \in Chatting /\ at[p] \in Rooms /\ ~raced[at[p]]
        BY <1>4, <2>2, <2>5, <3>2, WorksMapped DEF RxPrint, RxPlaces
      <4> QED BY <2>5, <3>2, <4>1, ViewPrint DEF ViewOK
    <3>3. CASE RxBegin(p)
      <4>1. Reached(p)' = Reached(p)
        BY <3>3 DEF RxBegin, Reached
      <4> QED BY <1>4, <2>3, <2>5, <3>3, <4>1 DEF RxBegin
    <3>4. CASE RxAdvance(p)
      <4>1. mainPc[p] \in Chatting /\ at[p] \in Rooms /\ View(p)
        BY <1>4, <2>2, <2>5, <3>4, WorksMapped DEF RxAdvance, RxPlaces, ViewOK
      <4>2. cursor[p] \in Nat /\ count[at[p]] \in Nat
        BY <4>1 DEF DataOK
      <4>3. cursor[p] = count[at[p]]
        BY <3>4, <4>1, <4>2 DEF RxAdvance, View, Reached
      <4>4. Reached(p)' = Reached(p)
        BY <3>4, <4>3 DEF RxAdvance, Reached
      <4> QED BY <1>4, <2>3, <2>5, <3>4, <4>1, <4>4 DEF RxAdvance
    <3>5. CASE RxLock(p) \/ RxWait(p) \/ RxRelock(p) \/ RxSpurious(p)
      <4>1. Reached(p)' = Reached(p)
        BY <3>5 DEF RxLock, RxWait, RxRelock, RxSpurious, Reached
      <4>2. /\ mainPc[p] \in Chatting /\ at'[p] = at[p] /\ base'[p] = base[p]
            /\ shown'[p] = shown[p]
        BY <1>4, <2>5, <3>5 DEF RxLock, RxWait, RxRelock, RxSpurious
      <4> QED BY <2>3, <2>5, <4>1, <4>2
    <3>6. CASE RxDieWaiting(p) \/ RxDiePrinting(p)
      BY <1>4, <2>5, <3>6 DEF RxDieWaiting, RxDiePrinting, CancelOK, Chatting
    <3>7. CASE CreateReceiver(p)
      <4>1. rxPc[p] = "none" /\ mainPc[p] \in Chatting
        BY <3>7 DEF CreateReceiver, Placed, Chatting
      <4>2. Reached(p)' = Reached(p)
        BY <3>7, <4>1 DEF CreateReceiver, Reached
      <4> QED BY <2>3, <2>5, <3>7, <4>1, <4>2 DEF CreateReceiver
    <3>8. CASE Send(p) \/ Type(p)
      <4>1. /\ mainPc[p] \in Chatting
            /\ at' = at /\ base' = base /\ shown' = shown
            /\ cursor' = cursor /\ readIndex' = readIndex
        <5>1. CASE SendBump(p)
          BY <5>1 DEF SendBump, Chatting
        <5>2. CASE ~SendBump(p)
          BY <3>8, <5>2
          DEF Send, SendLock, SendWrite, SendRefused, SendUnlock, Type, Chatting
        <5> QED BY <5>1, <5>2
      <4>2. rxPc'[p] = rxPc[p] \/ (rxPc[p] = "asleep" /\ rxPc'[p] = "woken")
        <5>1. CASE SendBump(p)
          BY <5>1, BumpWakes
        <5>2. CASE ~SendBump(p)
          BY <3>8, <5>2
          DEF Send, SendLock, SendWrite, SendRefused, SendUnlock, Type
        <5> QED BY <5>1, <5>2
      <4>3. Reached(p)' = Reached(p)
        BY <4>1, <4>2 DEF Reached
      <4> QED BY <2>3, <2>5, <4>1, <4>3
    <3>9. CASE HistoryLock(p) \/ Exit(p) \/ Join(p)
      BY <1>4, <2>5, <3>9 DEF HistoryLock, Exit, Join, Off, Chatting
    <3> QED
      BY <3>1, <3>2, <3>3, <3>4, <3>5, <3>6, <3>7, <3>8, <3>9
      DEF Receiver, History
  <2> QED BY <2>4, <2>5
<1> QED BY <1>1, <1>2, <1>3, <1>4 DEF ViewOK

\* The steps of the start and the end of a process, which the two exercises
\* do differently: who they move into the chat shows what he should, and
\* whoever is chatting in a room that is not raced keeps his messages.
LEMMA OutsideView ==
  ASSUME NEW p \in Procs, ViewInv, DataOK',
         mainPc'[p] \notin Chatting \/ View(p)',
         \A q \in Procs \ {p} :
           /\ mainPc'[q] = mainPc[q] /\ at'[q] = at[q] /\ base'[q] = base[q]
           /\ shown'[q] = shown[q] /\ cursor'[q] = cursor[q]
           /\ readIndex'[q] = readIndex[q] /\ rxPc'[q] = rxPc[q],
         \A q \in Procs \ {p} :
           mainPc[q] \in Chatting /\ ~raced'[at[q]] =>
             /\ ~raced[at[q]]
             /\ count'[at[q]] >= count[at[q]]
             /\ \A n \in Indices : n < count[at[q]] =>
                  slots'[at[q]][n] = slots[at[q]][n]
  PROVE  ViewOK'
<1>1. ASSUME NEW q \in Procs, mainPc'[q] \in Chatting, ~raced'[at'[q]]
      PROVE  View(q)'
  <2> SUFFICES ASSUME q # p PROVE View(q)'
    BY <1>1
  <2>1. q # p
    OBVIOUS
  <2>2. mainPc[q] \in Chatting /\ at[q] \in Rooms
    BY <1>1, <2>1, WorksMapped DEF ViewInv, Chatting, Mapped
  <2>3. ~raced'[at[q]]
    BY <1>1, <2>1
  <2>4. View(q)
    BY <2>1, <2>2, <2>3 DEF ViewInv, ViewOK
  <2>5. Reached(q)' = Reached(q)
    BY <2>1 DEF Reached
  <2>6. /\ count'[at[q]] \in Nat /\ count'[at[q]] >= count[at[q]]
        /\ \A n \in Indices : n < count[at[q]] =>
             slots'[at[q]][n] = slots[at[q]][n]
    BY <2>1, <2>2, <2>3 DEF DataOK
  <2> QED BY <2>1, <2>2, <2>4, <2>5, <2>6, ViewStays DEF ViewInv
<1> QED BY <1>1 DEF ViewOK
=============================================================================
