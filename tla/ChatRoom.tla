------------------------------ MODULE ChatRoom ------------------------------
(***************************************************************************)
(* The chat room in shared memory: what server.c and client.c of           *)
(* shared_memory/ex1_mmap_chat and shared_memory/ex2_shm_chat have in      *)
(* common once a process has mapped a room.  MmapChat and ShmChat add how  *)
(* a room is created, initialised, found and removed.                      *)
(*                                                                         *)
(* Each process has a main thread, which prints the history, then appends  *)
(* the lines its user types, and a receiver thread, which prints what      *)
(* others append.  Both work under the room's process-shared mutex; the    *)
(* receiver sleeps on the room's condition variable.                       *)
(*                                                                         *)
(* The mutex is a default glibc mutex: unlocking frees it whoever holds    *)
(* it, and a thread that ends holding it leaves it locked for good.        *)
(***************************************************************************)
EXTENDS Naturals, Sequences

CONSTANTS
  Servers, Clients,    \* the processes, by the program they run
  Rooms,               \* the ChatRoom objects that may come to exist
  NoRoom,              \* a process that has mapped nothing
  Free, Abandoned,     \* mutex states besides the thread that holds it
  MAX_MESSAGES,        \* capacity of a room (1000 in common.h)
  MaxInputs,           \* bound: lines the user of each process types in all
  MaxStarts,           \* bound: times a process is started
  MaxSpurious          \* bound: spurious wakeups in all

Procs == Servers \cup Clients
MainThread(p) == <<p, "main">>
RxThread(p) == <<p, "rx">>
Threads == Procs \X {"main", "rx"}

ASSUME ProcsAssumption == Servers \cap Clients = {}
ASSUME MarksAssumption ==
  /\ Free # Abandoned /\ Free \notin Threads /\ Abandoned \notin Threads
  /\ NoRoom \notin Rooms
ASSUME BoundsAssumption ==
  /\ MAX_MESSAGES \in Nat \ {0}
  /\ MaxInputs \in [Procs -> Nat] /\ MaxStarts \in Nat /\ MaxSpurious \in Nat

VARIABLES
  \* one value per room
  mutex, count, slots,
  raced,       \* history: a process used the room while a server was still
               \* initialising it, which makes the room's state undefined
  \* one value per process
  at,          \* the room it has mapped
  mainPc, rxPc,
  cancelled,   \* pthread_cancel(rx_tid) was called
  readIndex,   \* local_read_index
  cursor,      \* the receiver's loop variable, 0 outside the loop
  base,        \* history: msg_count when the old messages were printed
  shown,       \* history: messages printed so far, oldest first
  inputs,      \* history: lines typed so far
  starts, spurious

roomVars == <<mutex, count, slots, raced>>
readVars == <<readIndex, cursor, base, shown>>
boundVars == <<inputs, starts, spurious>>
chatVars == <<roomVars, at, mainPc, rxPc, cancelled, readVars, boundVars>>

\* Faulty variant: the sender is left out of the message.
NameMissing(p) == ""

\* MY_NAME: two clients carry the same name.
Name(p) == IF p \in Servers THEN "Server" ELSE "Client"

Indices == 0..(MAX_MESSAGES - 1)
Message(p, n) == [sender |-> Name(p), text |-> <<p, n>>]
Zeroed == [sender |-> "", text |-> << >>]

ChatInit ==
  /\ mutex = [r \in Rooms |-> Free]
  /\ count = [r \in Rooms |-> 0]
  /\ slots = [r \in Rooms |-> [n \in Indices |-> Zeroed]]
  /\ raced = [r \in Rooms |-> FALSE]
  /\ at = [p \in Procs |-> NoRoom]
  /\ mainPc = [p \in Procs |-> "off"]
  /\ rxPc = [p \in Procs |-> "none"]
  /\ cancelled = [p \in Procs |-> FALSE]
  /\ readIndex = [p \in Procs |-> 0]
  /\ cursor = [p \in Procs |-> 0]
  /\ base = [p \in Procs |-> 0]
  /\ shown = [p \in Procs |-> << >>]
  /\ inputs = [p \in Procs |-> 0]
  /\ starts = [p \in Procs |-> 0]
  /\ spurious = 0

-----------------------------------------------------------------------------
\* Helpers of the actions.

Main(p, from, to) == mainPc[p] = from /\ mainPc' = [mainPc EXCEPT ![p] = to]
Rx(p, from, to) == rxPc[p] = from /\ rxPc' = [rxPc EXCEPT ![p] = to]

Lock(r, t) == mutex[r] = Free /\ mutex' = [mutex EXCEPT ![r] = t]
Unlock(r) == mutex' = [mutex EXCEPT ![r] = Free]

\* Receivers blocked in pthread_cond_wait on the room's condition variable.
Sleepers(r) == {q \in Procs : at[q] = r /\ rxPc[q] = "asleep"}

\* pthread_cond_broadcast wakes all of them.  A condition variable that was
\* initialised again under its waiters may lose any of them.
Broadcast(r) ==
  \E W \in SUBSET Sleepers(r) :
    /\ raced[r] \/ W = Sleepers(r)
    /\ rxPc' = [q \in Procs |-> IF q \in W THEN "woken" ELSE rxPc[q]]

\* messages[n]: past the array, which only a raced room reaches, lie the zero
\* bytes that fill the last page of the mapping.
Slot(r, n) == IF n \in Indices THEN slots[r][n] ELSE Zeroed

\* The messages in slots a, a+1, .. b-1 of a room.
Slice(r, a, b) == [n \in 1..(b - a) |-> Slot(r, a + n - 1)]

\* Where a server creates and initialises its room.
Initialising == {"truncate", "map", "initMutex", "initCond", "reset"}

\* p maps the room, perhaps while another process initialises it, or p
\* initialises it, perhaps while another process has it mapped.
Attach(p, r, initialisedByOther) ==
  /\ at' = [at EXCEPT ![p] = r]
  /\ raced' = [raced EXCEPT ![r] = @ \/ initialisedByOther]
Touch(p) ==
  raced' = [raced EXCEPT ![at[p]] = @ \/ \E q \in Procs \ {p} : at[q] = at[p]]

\* The process ends: its mapping and threads go.
Off(p) ==
  /\ mainPc' = [mainPc EXCEPT ![p] = "off"]
  /\ rxPc' = [rxPc EXCEPT ![p] = "none"]
  /\ at' = [at EXCEPT ![p] = NoRoom]
  /\ cancelled' = [cancelled EXCEPT ![p] = FALSE]
  /\ readIndex' = [readIndex EXCEPT ![p] = 0]
  /\ cursor' = [cursor EXCEPT ![p] = 0]
  /\ base' = [base EXCEPT ![p] = 0]
  /\ shown' = [shown EXCEPT ![p] = << >>]
  /\ UNCHANGED boundVars

-----------------------------------------------------------------------------
\* receiver_thread()

RxLock(p) ==
  /\ Rx(p, "lock", "check")
  /\ Lock(at[p], RxThread(p))
  /\ UNCHANGED <<count, slots, raced, at, mainPc, cancelled, readVars, boundVars>>

\* pthread_cond_wait releases the mutex and sleeps in one step.
RxWait(p) ==
  /\ Rx(p, "check", "asleep")
  /\ count[at[p]] <= readIndex[p]
  /\ Unlock(at[p])
  /\ UNCHANGED <<count, slots, raced, at, mainPc, cancelled, readVars, boundVars>>

\* pthread_cond_wait returns: it has the mutex again, and the loop tests again.
RxRelock(p) ==
  /\ Rx(p, "woken", "check")
  /\ Lock(at[p], RxThread(p))
  /\ UNCHANGED <<count, slots, raced, at, mainPc, cancelled, readVars, boundVars>>

\* A wakeup without a broadcast, which POSIX allows.
RxSpurious(p) ==
  /\ spurious < MaxSpurious
  /\ Rx(p, "asleep", "woken")
  /\ spurious' = spurious + 1
  /\ UNCHANGED <<roomVars, at, mainPc, cancelled, readVars, inputs, starts>>

RxBegin(p) ==
  /\ Rx(p, "check", "print")
  /\ count[at[p]] > readIndex[p]
  /\ cursor' = [cursor EXCEPT ![p] = readIndex[p]]
  /\ UNCHANGED <<roomVars, at, mainPc, cancelled, readIndex, base, shown, boundVars>>

Current(p) == Slot(at[p], cursor[p])
Foreign(p, m) == m.sender # Name(p)

\* One iteration of the printing loop.  printf and fflush are cancellation
\* points, so a cancelled receiver gets past its own messages only.
RxPrint(p) ==
  /\ rxPc[p] = "print"
  /\ cursor[p] < count[at[p]]
  /\ ~(cancelled[p] /\ Foreign(p, Current(p)))
  /\ shown' = [shown EXCEPT ![p] =
                 IF Foreign(p, Current(p)) THEN Append(@, Current(p)) ELSE @]
  /\ cursor' = [cursor EXCEPT ![p] = @ + 1]
  /\ UNCHANGED <<roomVars, at, mainPc, rxPc, cancelled, readIndex, base, boundVars>>

\* Faulty variant: local_read_index is not advanced.
RxAdvanceForgets(p) ==
  /\ Rx(p, "print", "lock")
  /\ cursor[p] >= count[at[p]]
  /\ Unlock(at[p])
  /\ UNCHANGED <<count, slots, raced, at, mainPc, cancelled, readVars, boundVars>>

RxAdvance(p) ==
  /\ Rx(p, "print", "lock")
  /\ cursor[p] >= count[at[p]]
  /\ readIndex' = [readIndex EXCEPT ![p] = count[at[p]]]
  /\ cursor' = [cursor EXCEPT ![p] = 0]
  /\ Unlock(at[p])
  /\ UNCHANGED <<count, slots, raced, at, mainPc, cancelled, base, shown, boundVars>>

\* Cancellation acts inside pthread_cond_wait: the mutex is taken back, no
\* cleanup handler releases it, and the thread is gone.
RxDieWaiting(p) ==
  /\ cancelled[p]
  /\ Rx(p, "asleep", "dead")
  /\ Lock(at[p], Abandoned)
  /\ UNCHANGED <<count, slots, raced, at, mainPc, cancelled, readVars, boundVars>>

\* Cancellation acts while a message is written out, before or after it shows.
RxDiePrinting(p) ==
  /\ cancelled[p]
  /\ Rx(p, "print", "dead")
  /\ cursor[p] < count[at[p]]
  /\ Foreign(p, Current(p))
  /\ mutex' = [mutex EXCEPT ![at[p]] = Abandoned]
  /\ shown' \in {shown, [shown EXCEPT ![p] = Append(@, Current(p))]}
  /\ UNCHANGED <<count, slots, raced, at, mainPc, cancelled, readIndex, cursor, base, boundVars>>

Receiver(p) ==
  \/ RxLock(p) \/ RxWait(p) \/ RxRelock(p) \/ RxBegin(p) \/ RxPrint(p)
  \/ RxAdvance(p) \/ RxDieWaiting(p) \/ RxDiePrinting(p)

-----------------------------------------------------------------------------
\* main() from the history on

HistoryLock(p) ==
  /\ Main(p, "lockHistory", "history")
  /\ Lock(at[p], MainThread(p))
  /\ UNCHANGED <<count, slots, raced, at, rxPc, cancelled, readVars, boundVars>>

\* All old messages are printed, one's own too.
HistoryPrint(p) ==
  LET n == count[at[p]] IN
  /\ Main(p, "history", "create")
  /\ shown' = [shown EXCEPT ![p] = Slice(at[p], 0, n)]
  /\ base' = [base EXCEPT ![p] = n]
  /\ readIndex' = [readIndex EXCEPT ![p] = n]
  /\ Unlock(at[p])
  /\ UNCHANGED <<count, slots, raced, at, rxPc, cancelled, cursor, boundVars>>

History(p) == HistoryLock(p) \/ HistoryPrint(p)

CreateReceiver(p) ==
  /\ Main(p, "create", "type")
  /\ rxPc' = [rxPc EXCEPT ![p] = "lock"]
  /\ UNCHANGED <<roomVars, at, cancelled, readVars, boundVars>>

\* The user types a line that is neither empty nor "/exit".
Type(p) ==
  /\ inputs[p] < MaxInputs[p]
  /\ Main(p, "type", "lockSend")
  /\ inputs' = [inputs EXCEPT ![p] = @ + 1]
  /\ UNCHANGED <<roomVars, at, rxPc, cancelled, readVars, starts, spurious>>

\* Faulty variant: the room is written without the lock.
SendLockForgets(p) ==
  /\ Main(p, "lockSend", "write")
  /\ UNCHANGED <<roomVars, at, rxPc, cancelled, readVars, boundVars>>

SendLock(p) ==
  /\ Main(p, "lockSend", "write")
  /\ Lock(at[p], MainThread(p))
  /\ UNCHANGED <<count, slots, raced, at, rxPc, cancelled, readVars, boundVars>>

\* Faulty variant: one message too many gets past the test.
SendWriteOffByOne(p) ==
  LET r == at[p] IN
  /\ Main(p, "write", "bump")
  /\ count[r] <= MAX_MESSAGES
  /\ slots' = [slots EXCEPT ![r][count[r]] = Message(p, inputs[p])]
  /\ UNCHANGED <<mutex, count, raced, at, rxPc, cancelled, readVars, boundVars>>

SendWrite(p) ==
  LET r == at[p] IN
  /\ Main(p, "write", "bump")
  /\ count[r] < MAX_MESSAGES
  /\ slots' = [slots EXCEPT ![r][count[r]] = Message(p, inputs[p])]
  /\ UNCHANGED <<mutex, count, raced, at, rxPc, cancelled, readVars, boundVars>>

\* "Chat room is full!"
SendRefused(p) ==
  /\ Main(p, "write", "unlock")
  /\ count[at[p]] >= MAX_MESSAGES
  /\ UNCHANGED <<roomVars, at, rxPc, cancelled, readVars, boundVars>>

\* Faulty variant: nobody is woken.
SendBumpSilent(p) ==
  /\ Main(p, "bump", "unlock")
  /\ count' = [count EXCEPT ![at[p]] = @ + 1]
  /\ UNCHANGED <<mutex, slots, raced, at, rxPc, cancelled, readVars, boundVars>>

\* msg_count++ and the broadcast.
SendBump(p) ==
  /\ Main(p, "bump", "unlock")
  /\ count' = [count EXCEPT ![at[p]] = @ + 1]
  /\ Broadcast(at[p])
  /\ UNCHANGED <<mutex, slots, raced, at, cancelled, readVars, boundVars>>

SendUnlock(p) ==
  /\ Main(p, "unlock", "type")
  /\ Unlock(at[p])
  /\ UNCHANGED <<count, slots, raced, at, rxPc, cancelled, readVars, boundVars>>

Send(p) ==
  SendLock(p) \/ SendWrite(p) \/ SendRefused(p) \/ SendBump(p) \/ SendUnlock(p)

\* Faulty variant: the receiver is joined without being cancelled.
ExitNoCancel(p) ==
  /\ Main(p, "type", "join")
  /\ UNCHANGED <<roomVars, at, rxPc, cancelled, readVars, boundVars>>

\* "/exit" or the end of the input: the receiver is cancelled.
Exit(p) ==
  /\ Main(p, "type", "join")
  /\ cancelled' = [cancelled EXCEPT ![p] = TRUE]
  /\ UNCHANGED <<roomVars, at, rxPc, readVars, boundVars>>

\* pthread_join has returned, the room is unmapped.
Join(p) ==
  /\ mainPc[p] = "join"
  /\ rxPc[p] = "dead"
  /\ Off(p)
  /\ UNCHANGED roomVars

-----------------------------------------------------------------------------

\* The messages a room can hold.
Messages == [sender : {"Server", "Client"}, text : Procs \X Nat]

\* The places of the two threads; a process is "off" when it does not run.
MainPlaces ==
  {"off", "open", "truncate", "map", "initMutex", "initCond", "reset",
   "lockHistory", "history", "create", "type", "lockSend", "write", "bump",
   "unlock", "join", "unlink"}
RxPlaces == {"none", "lock", "check", "asleep", "woken", "print", "dead"}

ChatTypeOK ==
  /\ mutex \in [Rooms -> Threads \cup {Free, Abandoned}]
  /\ count \in [Rooms -> Nat]
  /\ slots \in [Rooms -> [Indices -> Messages \cup {Zeroed}]]
  /\ raced \in [Rooms -> BOOLEAN]
  /\ at \in [Procs -> Rooms \cup {NoRoom}]
  /\ mainPc \in [Procs -> MainPlaces]
  /\ rxPc \in [Procs -> RxPlaces]
  /\ cancelled \in [Procs -> BOOLEAN]
  /\ readIndex \in [Procs -> Nat]
  /\ cursor \in [Procs -> Nat]
  /\ base \in [Procs -> Nat]
  /\ shown \in [Procs -> Seq(Messages \cup {Zeroed})]
  /\ inputs \in [Procs -> Nat]
  /\ starts \in [Procs -> 0..MaxStarts]
  /\ spurious \in 0..MaxSpurious

\* Where a thread works on the room under the lock.
MainWorks(p) == mainPc[p] \in {"history", "write", "bump", "unlock"}
RxWorks(p) == rxPc[p] \in {"check", "print"}

\* As long as nobody initialises a room under its users, a thread works on it
\* only while it holds the mutex: no two threads, of any processes, are in a
\* locked section of one room together, across sleeps, wakeups and
\* cancellations.
MutualExclusion ==
  \A p \in Procs :
    at[p] \in Rooms /\ ~raced[at[p]] =>
      /\ MainWorks(p) => mutex[at[p]] = MainThread(p)
      /\ RxWorks(p) => mutex[at[p]] = RxThread(p)

\* Which program places have a room mapped, and where a receiver exists.
Mapped == {"initMutex", "initCond", "reset", "lockHistory", "history", "create",
           "type", "lockSend", "write", "bump", "unlock", "join"}

Placed ==
  \A p \in Procs :
    /\ at[p] \in Rooms <=> mainPc[p] \in Mapped
    /\ rxPc[p] # "none" =>
         mainPc[p] \in {"type", "lockSend", "write", "bump", "unlock", "join", "unlink"}
    /\ mainPc[p] = "unlink" => rxPc[p] = "dead"

\* The inductive invariant behind mutual exclusion.
LockInv == ChatTypeOK /\ Placed /\ MutualExclusion

\* The history of a room is append-only: no step changes or drops a message
\* that has been counted.
HistoryStable ==
  [][\A r \in Rooms :
       ~raced'[r] =>
         /\ count'[r] >= count[r]
         /\ \A n \in Indices : n < count[r] => slots'[r][n] = slots[r][n]]_chatVars

\* Nobody writes past messages[MAX_MESSAGES - 1].  The test against the
\* capacity, the write and msg_count++ are separate steps, so the test still has
\* to hold when a sender comes to the increment, whoever else sends, and a
\* restarted server must not leave a count that the test lets past.
RoomNotOverrun ==
  \A r \in Rooms :
    ~raced[r] =>
      /\ count[r] <= MAX_MESSAGES
      /\ \A p \in Procs : at[p] = r /\ mainPc[p] = "bump" => count[r] < MAX_MESSAGES

\* How far the messages of the room have been dealt with.
Reached(p) == IF rxPc[p] \in {"print", "dead"} THEN cursor[p] ELSE readIndex[p]

\* The messages of s that are not p's own, in their order: SelectSeq with
\* Foreign as its test, spelled out so that lemmas can be proved about it.
ForeignIn(p, s) ==
  LET F[n \in 0..Len(s)] ==
        IF n = 0 THEN << >>
        ELSE IF Foreign(p, s[n]) THEN Append(F[n-1], s[n]) ELSE F[n-1]
  IN  F[Len(s)]

\* Between the history and the exit.
Chatting == {"create", "type", "lockSend", "write", "bump", "unlock"}

\* A process shows the history it found and after it exactly the messages of
\* the other side, each once and in the order of the room.
ShownIsRoom ==
  \A p \in Procs :
    LET r == at[p] IN
    mainPc[p] \in Chatting /\ ~raced[r] =>
      shown[p] = Slice(r, 0, base[p])
                   \o ForeignIn(p, Slice(r, base[p], Reached(p)))

\* Something that suspends the promises about a room: the mutex was left
\* locked, a user is leaving, or the room was initialised again in use.
Disturbed(r) ==
  \/ mutex[r] = Abandoned
  \/ raced[r]
  \/ \E q \in Procs : at[q] = r /\ mainPc[q] = "join"

\* A counted message reaches every process that chats in the room.
Delivery ==
  \A p \in Procs, r \in Rooms, n \in Indices :
    at[p] = r /\ rxPc[p] # "none" /\ n < count[r]
      ~> n < readIndex[p] \/ at[p] # r \/ Disturbed(r)

\* The first process to leave a room gets out: cancelling its receiver works
\* wherever that thread is.
FirstExitCompletes ==
  \A p \in Procs, r \in Rooms :
    at[p] = r /\ mainPc[p] = "join"
      ~> at[p] # r \/ raced[r] \/ (mutex[r] = Abandoned /\ rxPc[p] # "dead")
=============================================================================
