# linux-core in TLA+

TLA+ models of the concurrent programs of this repository, the TLC runs that
check them on small instances and the theorems TLAPS proves about them for
every value of the constants.

The repository is a collection of small C programs about processes, signals,
threads, sockets and shared memory. It has no shared core: each directory is a
program, or a pair of programs, of its own. The ones with state, several actors
and something to get wrong come first.

## The system

| component | state | operations | actors and interaction | modules |
|---|---|---|---|---|
| `shared_memory/ex1_mmap_chat` | mapped file: process-shared mutex and condition variable, `msg_count`, `messages`; per process `local_read_index` | start, print history, send, receive, `/exit` | main and receiver thread of each process; mutex, condition variable, thread cancellation | `ChatRoom`, `MmapChat` |
| `shared_memory/ex2_shm_chat` | the same in a POSIX object, and its name | the same, with `shm_unlink` and `shm_open` | the same, and several servers contending for a name | `ChatRoom`, `ShmChat` |
| `shared_memory/ex3_signal_shm` | object with a pid and one record, two flags, log file | start, sleep, log, clean up; enter a record | server and clients; SIGUSR1, SIGINT, unlocked shared memory | `SigShm` |
| `socket/bt2` | `clients[]`, `num_clients`, `clients_lock` | accept, refuse, broadcast, remove | main thread, a thread per client, TCP peers | `ChatServer` |
| `socket/bt3` | a connection's stream, header buffer, saved file | send; parse header, save | senders, one serial receiver; TCP stream | `FileTransfer` |
| `signal/bai2` | `my_turn`, `shared.txt` | wait, read, write, yield | two processes; SIGUSR1, `sigsuspend`, a file | `PingPong`, `TurnLog`, `TurnConstants` |
| `socket/bt1` | Unix socket, its path | chat one to one | two threads on each side; a backlog | `UnixChat` |
| `semaphore/bt2`, `bt3/sem_write.c` | counter, two files | increment, write | threads; mutex, semaphores | `SemWrite` |
| `semaphore/bt1`, `bt3/matmul.c` | ranges, partial results | partition, join | threads without sharing | `Partition` |
| `filesystem/bt3` | installed files, linker's cache | install, uninstall | a sequence of calls that may fail or be cut off | `Installer` |
| `filesystem/bt1`, `bt2` | a directory tree | clean, create, scan | sequential recursion; killed runs, the user's `chmod` | `DirScan` |
| `signal/baitapsingal` | pipes, flags, children | wait, reap, read to the end | parent, children, signals | `PipeChildren`, `Reaper` |
| `slide`, `signal/*.c` | signal mask | block, show | one process | demonstrations |
| `bai2` to `bai7` | almost none | fork, exec, list | one or two processes | not planned |

What makes each of them correct, in short: the chat rooms must keep every
counted message, in one order, stay within their array, show a message once to the
other side and let every process leave; the signal log must not forget a record,
should not sleep through one or through a Ctrl+C (it does: see the violated runs) and
must not leave its object behind; the chat server's array must agree with the
open connections and its broadcasts must reach everyone in one order; a saved
file must be what was sent; the ping-pong must alternate, count and end; an
installation must never have a program without its library. Of the exercises, a
cleaned tree must come out as drawn, a line must stand in its file once, a loop
divided among threads must give what the plain loop gives, and a parent must come
to the end of its pipe and of its children. The hazards behind these are listed, with their lines, in `PROJECT.json`.

## Modules

Each action is the code between two points where another actor can be seen, and
its comment names what it stands for. Program counters are strings named for
the statement that comes next. An operator introduced by "Faulty variant" is a
plausible mistake in the definition after it; nothing uses it in a behaviour,
it serves to show that a property can fail.

`TurnLog` is the abstract promise of `signal/bai2`: lines that two writers append in
turn. `PingPong` implements it with its file for the lines (`Log`, `AppendsInTurn`). `PingPong` is the program: `my_turn`, the pending SIGUSR1 of each
process, the loop of `run` cut at the places where the handler or the other
process can act (`CheckTurn`, `Suspend`, `TakeTurn`, `ReadCounter`, `WriteLine`,
`Yield`), and the parent's `WaitAndPrint`. `FailingOpens` chooses which `fopen`
modes may fail. A line is a record of its writer and its counter.

`ChatRoom` is what server and client of both chats have in common once a
process has mapped a room: the receiver thread (`Rx...`), the history, the
sending loop, cancellation and exit. It has no specification of its own.
`MmapChat` adds the file (`ServerOpen`, `ServerTruncate`, `ServerMap`, the
initialisation of mutex, condition variable and count), `ShmChat` the name, the
object and its removal. The mutex is glibc's default one: unlocking frees it
whoever holds it, and a thread that ends inside a locked section, as a cancelled
receiver does, leaves it `Abandoned`. `raced` is a history variable: somebody used
the room while a server was still initialising it, or a server initialised it
again in use, which makes the mutex and the condition variable undefined; the
invariants speak of rooms that were not raced.

`SigShm` is `ex3_signal_shm`: a signal is pending at most once, the handlers
of all pending signals run between two steps of `main` (the kernel delivers all
of them before it returns to the program), `pause` returns if it was running, and
a signal without a handler ends the process. The record is copied field by field
in any order, on both sides. Log entries are kept without their time.

`ChatServer` is `socket/bt2`: the main thread, one thread per connection and the
peers. `clients` is a sequence that stands for the array and its length.
Descriptors are numbers and the lowest free one is reused. `LastEntries` gives
what the read after the unlock (line 124) may see, mixtures included. A second
write to a closed peer may raise SIGPIPE, which ends the server.

`FileTransfer` is `socket/bt3`: per connection a stream of units (a header field
or a byte), from which a read takes any non-empty run. A sender's file may grow
after `stat`, a sender may be killed, an `fopen` of the receiver may fail. So may the
calls whose results the code does not look at: `fread` of the sender (a file cut off
meanwhile, or a directory, which opens and cannot be read), `read` and `fwrite` of the
receiver (`FinishEarly`, `ReadFails`, `Store`). `failed` is a history variable that
names those that did. In each of these cases, and when the sender is killed, the
receiver says that it has saved a file which is short; `SavedIsWhole` says that there
are no others. The bytes that stdio keeps until `fclose` count as stored by `fwrite`.

`Installer` is `filesystem/bt3`: the calls of `setup` and `uninstall` in their order, one
file as a number of blocks. Every call may fail and the running tool may be killed
between any two calls, so a run starts from whatever the runs before it left. The
package is taken to be complete and only one tool to run at a time. `silent` is a
history variable: a `read` or `ldconfig` has failed in this run, which the code does
not notice (`setup` then reports success over a truncated file); `kept` says which
files an `unlink` refused to remove.

`DirScan` is `filesystem/bt1` and `bt2`, told apart by `program`. The tree is the
function `mode` from what exists to the owner's permissions; `Allowed`, `Found` and
`MayChangeDir` are the kernel's rules, for root and for a user. Cleaning and scanning
recurse in C and have an explicit `stack` of open directories here; the setup is a
`Plan` of calls, each of which may find what an earlier run left. A run may be killed
between any two steps and started again for ever. Before a run and before the scan
the user of `bt2` may `chmod` anything and add a file of his own. `written` and
`reported` record what this run did. The mode of a new directory is taken to keep the
owner's bits (an ordinary umask). `ScanIsExact` goes by the permissions of each path.
For a user in the tree as drawn that is not what `filesystem/bt2/README.md:26` and `:43`
say, `opendir` of the base failing: the base has 0664, whose `r` is all that `opendir`
needs, so the scan opens it and stops at its entry `Test1`, whose `stat` fails for want
of `x`. `ScanIsExact` holds because the model does what the code does there.

`SemWrite` is the loop shared by `sem_write.c`, `mutex_counter.c` and `mutex_file.c`,
told apart by `app`: an increment in two steps under a mutex, a line under the lock of
its file, or one of the two. `Partition` is `count_odd.c` and `matmul.c`, told apart by
`job`; a row of a matrix is the number of matrices multiplied into it.

`UnixChat` is `socket/bt1`: `state` says where main is, the receiving thread runs
beside it from the connection on, and `ending` what ended the process. Each direction
of a connection is a pair of counts. A `close` under a thread that still reads does
not yet close the connection, so the peer may see it at once or at the exit.

`PipeChildren` is `pipe_multi_child.c`: `readers` and `writers` are the processes that
have the ends of the pipe open. `Reaper` is `bt3_2.c`: one pending bit for SIGCHLD, and
a handler that main cannot run beside.

`Exercises` puts `Installer`, `PingPong` and these six side by side; `exercise` chooses one
at the start, and the others stay as they begin. That makes one run of programs that have
nothing to do with each other and are small alone; `TurnConstants` holds the parameters
of `PingPong` and is extended by both. `MCExercises` and the other `MC...` modules instantiate the modules above for TLC (symmetry sets, constraints);
`...Proofs` modules hold the theorems.

## Runs

| run | what it asks | bounds |
|---|---|---|
| `MmapChat` | exclusion, capacity, stable history, screens, delivery, the first exit | a server and a client, 2 starts each, 2 lines of the server and 1 of the client, room of 2 messages, a spurious wakeup |
| `MmapChatExit` | *violated*: `/exit` ends the program (`shared_memory/README.md:35`) | 1 start each |
| `MmapChatFirstStart` | *violated*: stored messages stay (`shared_memory/README.md:34`) | 1 start each |
| `ShmChat` | stable history in each object; no name without its server, a server that nobody displaced is found | 2 servers and a client, 2 objects, 1 start and 1 line each, room of 2, a spurious wakeup |
| `ChatServer` | the array agrees with connections and threads, lines are read in the end | 3 peers, 2 places; two talk (1 line each), one of them leaves |
| `ChatServerOrder` | one order of messages for all, a broadcast misses nobody | 4 peers with 4 places that only join, one leaves |
| `ChatServerUnserved` | *violated*: every client is served (`socket/bt2/server.c:6`) | 3 peers, 3 places |
| `SigShm` | an unread record is not forgotten, a signal to a sleeper is answered, no name is left behind, a sleeper stops | 1 server, 2 clients with a record each, the log may fail |
| `SigShmSleeps` | *violated*: woken, the server reads and then sleeps again (`shared_memory/README.md:75`) | 1 client, 2 records |
| `SigShmInterrupt` | *violated*: SIGINT cleans up (`shared_memory/README.md:76`) | 1 client, 1 record |
| `FileTransfer` | saved bytes are sent bytes, a short file has one of the named causes, every connection is served | 2 senders of one name, an empty file and one of a line end and a byte, each growing by one byte at most, 3 units in flight, one pending connection; every unchecked call may fail |
| `Exercises` | *turns*: order and content of the file, one turn, termination, refinement of `TurnLog` | 12 iterations (5 in the program); appending may fail |
| | *installer*: whole after success, nothing dangles, nothing left after removal | files of 2 blocks; any number of runs |
| | *directories*: the tree as drawn, an exact scan | the programs' own trees and one more file; any number of runs, user and root, 3 sets of permissions by hand |
| | *locks*: every value once, bounded disorder | 3 threads of 2 rounds (`sem_write`), 2 threads of 3 |
| | *division*: what the plain loop gives | 3 threads, 2 to 8 numbers or rows, 2 multiplications |
| | *Unix chat*: partners end, having read everything | 2 clients, 2 lines a user |
| | *pipe*, *SIGCHLD*: the end of file comes; no zombie stays | 3 children, as in the programs |

Why these bounds are enough to be interesting: a room of two messages is filled
and refuses the third; two starts bring a process back to its own old messages and
make a server initialise an existing file; one spurious wakeup meets every place
of the receiver; two servers take the name from each other before, during and
after a client finds it; three peers for two places make one be turned away, its
descriptor be reused and the array be compacted in the middle; two clients
overwrite, merge and tear each other's records, while the server starts, copies,
announces or sleeps; three units in flight cut a
header of five at every place and let it share a read with data, and a file that
begins with a line end puts a third one behind the two that end the header; two blocks give
a file that is there, cut off and whole; twelve iterations reach counters with two
digits. The several servers of `SigShm` are covered by its theorems only. In the
exercises, three threads leave a remainder of most sizes and some threads without
work; a third thread can overtake two; the second client waits in the backlog while
the server serves the first; and a directory may let its owner list it (`r`), enter
it (`x`) or neither, which is where a scan stops.

Deadlock is not checked where the programs really stop: users may leave, servers
may be killed or hang (that is what the violated runs show), and their runs end with
their bounds. The run `Exercises` does not check it either, because most of its
programs come to an end; that the ones that wait for each other do come to it is
what its four liveness properties say.

Constraints. `Defined` (chat rooms) stops at states in which a room was raced:
what follows is undefined behaviour, about which nothing is claimed; in the run
`ShmChat` it keeps the races over objects that have no size yet. The run
`MmapChatFirstStart` has no such constraint. `InOrder` (`ChatServerOrder`) stops at
states in which main has copied another client's entry, or SIGPIPE has ended the
server: the two properties are stated for the time before. `ChatServer` and
`ChatServerUnserved` explore those states. The runs `ShmChat` and `ChatServerOrder`
take servers, objects and peers that play the same part for interchangeable
(symmetry); they check safety only.

Fairness. Each thread or process that can take a step eventually takes one (weak
fairness on its steps taken together): the kernel's scheduler does that. Users
need not type, start or leave a program, and in the exercises nobody need press
Ctrl+C and no call of `fork` need fail or succeed. A handler of SIGCHLD that is due
is run. Weak fairness is enough for a thread that
waits for a mutex because the others run out of work within the bounds, so a
mutex that is not abandoned is free for good in the end; nothing is claimed about
starvation under endless traffic.

What the violated runs show:

- `ExitCompletes`: a receiver cancelled in `pthread_cond_wait` takes the mutex back
  and ends with it. The next process to leave joins a receiver that waits for that
  mutex. (A server of the shared memory chat in this place never unlinks its
  object, which `ServerReachable` does not forbid.)
- `HistoryKept`: the first server resets `msg_count` after the file has its full
  size; a client may have stored a message by then.
- `EveryClientServed`: `clients[num_clients - 1]` is read after the unlock.
- `InterruptCleansUp`: a SIGINT between `while (keep_running)` and `pause()` is
  handled, then the server sleeps.
- `RecordReadBeforeSleep`: a SIGUSR1 whose handler runs between the reset of
  `sig_received` (line 95) and `pause()`, that is, while the record before is copied,
  logged or announced, or before the first sleep, sets a flag that `pause()` does not
  look at. The server sleeps with that record unread, for ever if no other signal
  comes. What remains true is that the record is not forgotten (`UnreadIsFlagged`): the
  next signal of any client leads to a copy (`WakeupReads`).

Known and not promised otherwise anywhere but in prose: `SigShm` has one slot, so a
record may be overwritten before the server reads it and is then never logged. `setup`
succeeds over a failed `read`, and the receiver of `socket/bt3` reports a short file as
saved when the sender was killed or one of the unchecked calls failed.

## Proofs

For every value of the constants that satisfies the named assumptions:

| theorem | module | statement |
|---|---|---|
| `TypeCorrect`, `LinesInSequence` | `PingPongProofs` | `[]TypeOK`; `[]CounterSequence` when reading does not fail |
| `TurnIsUnique`, `WholeFilePrinted` | `PingPongProofs`, `ExercisesProofs` | `[]OneTurn`, `[]PrintsWholeFile` |
| `LogRefinement` | the same | each step appends the next line of the abstract log or none, when reading does not fail |
| `MmapMutualExclusion`, `ShmMutualExclusion` | `MmapChatProofs`, `ShmChatProofs` | `[]MutualExclusion` |
| `MmapNotOverrun`, `ShmNotOverrun` | the same | `[]RoomNotOverrun` |
| `MmapHistoryStable`, `ShmHistoryStable` | the same | no step drops or changes a counted message |
| `MmapShowsRoom`, `ShmShowsRoom` | the same | `[]ShownIsRoom` |
| `MmapTypeCorrect`, `ShmTypeCorrect` | the same | `[]TypeOK` |
| `ShmNoOrphanName`, `ShmServerReachable` | `ShmChatProofs` | `[]NoOrphanName`, `[]ServerReachable` |
| `TypeCorrect`, `ListedServed`, `OrderIsShared`, `BroadcastReachesAll` | `ChatServerProofs` | `[]TypeOK`, `[]ListedAreServed`, `[]SameOrder`, `[]BroadcastIsComplete` |
| `TypeCorrect`, `BytesInOrder`, `SavedFilesAreWhole` | `FileTransferProofs` | `[]TypeOK`, `[]SavedIsPrefix`, `[]SavedIsWhole` |
| `TypeCorrect`, `InstallIsWhole`, `NeverDangles`, `UninstallIsComplete` | `ExercisesProofs` | `[]TypeOK`, `[]InstalledIsWhole`, `[]NothingDangles`, `[]RemovedIsGone` |
| `ValuesAreOnce`, `FewLinesOvertake`, `LoopIsWhole` | `ExercisesProofs` | `[]ValuesOnce`, `[]FewOvertake`, `[]ProductIsWhole` |
| `SetupDrawsTree`, `ScanTellsAll`, `ExercisesTypeCorrect` | `ExercisesProofs` | `[]TreeAsDrawn`, `[]ScanIsExact`, `[]ExercisesTypeOK` |
| `TypeCorrect`, `NameIsNeverLeft`, `UnreadRecordIsFlagged` | `SigShmProofs` | `[]TypeOK`, `[]NoOrphanObject`, `[]UnreadIsFlagged` |

How they go:

- Ping-pong. `OneTurn` is not inductive: one needs that whoever holds the turn is
  the one whose loop index is due (`HolderIsNext`) and that the file has as many
  lines as were written (`FileCounts`). With them `Inv` is inductive, and with the
  freshness of the counter that was read (`FreshCounter`) so is `CountingInv`, which
  gives the sequence and the refinement; the run checks the refinement itself.
  The theorems are proved for the program alone; `ExercisesProofs` takes them over to the
  specification that is checked (`TurnState`), where it is one of several.
  `PrintsWholeFile` adds `PrintInv`: once something is printed both processes have
  exited, so nobody is left to append.
- Chat rooms. `ChatRoomProofs` proves once, for the actions both chats share, that
  the shape of the lock is kept: who works on a room holds its mutex unless the
  room was raced. The two modules add the actions of their own starts and ends.
  An initialisation is the delicate case: it frees a mutex that somebody may hold,
  but then somebody else has the room mapped and it is raced. `HistoryStable`
  follows because only the holder of the mutex writes, and it writes past the
  count. `RoomNotOverrun` follows because test, write and increment of a sender are one
  locked section: at most one process is at the increment, so what its test found still
  holds there, and a start at most empties the room (`WriteBound`, `BumpBound`,
  `BoundStays`). `ShmNoOrphanName` needs that the name leads only to an object whose
  creator still has it open; `ShmServerReachable` that a server which has not been
  started is off (`StartedOK`) and so takes no name. In the shared memory chat an object
  that does not exist yet has no messages and no users, and one that a server still
  initialises has none but that server unless it is raced (`UnusedOK`): that is what
  `O_EXCL` is for, and why a start takes nobody's history away.
- Screens. `ShownIsRoom` speaks of what a process has printed and what the room
  holds. What connects them is the reading position (`View`): it lies between the
  history the process found and the count, what is printed is the part of the room
  below it without the process's own lines, and below the count no slot changes.
  The messages of the others are the recursive function `ForeignIn`; that it exists
  and what it does when a message is added is proved by taking the least number for
  which it fails (`LeastNumber`).
- File transfer. A unit of the stream is followed from the sender through the wire
  and the buffer to the file: at any time the saved file, the buffer, the wire and
  what is still to be sent make up the sender's header and content in order
  (`WireInv`, `HeadInv`, `BodyInv`, `PrefixInv`), however the reads cut it. `HeadInv` is
  what shows that the end of the header is found at the right place when it shares a
  read with data, and that the buffer's limit is not reached before it.
- TCP chat. The lower layer (`Base`) says who serves which descriptor: the array, the
  thread and the open connections agree until main has copied a wrong entry, also
  over reused descriptors and entries moved by `remove_client`. On it stand the
  messages (`MsgInv`): nobody has heard a message that its thread does not say now or
  has said before (`HeardInv`), and the message of the running broadcast is the last
  in each inbox that has it (`NewestInv`), so none comes twice (`OnceInv`) or in two
  orders (`OrderInv`). That there is only one running broadcast is the lock's work.
- Signals. `UnreadIsFlagged` follows from `CopyInv`: as long as nothing is on its way
  to the server and its flag is down, the fields that its running copy has left behind
  equal the object's. A client's write makes the premise false (it is between its write
  and its signal); the signal, its handler and the flag keep it false; `BeginRead`
  resets the flag but puts all fields back on the copy's list. So the only place where
  a record could be forgotten, the reset, is followed by a copy of everything. The
  theorem says nothing of when that copy comes: in `pause()` with the flag up, not
  before the next signal.
- Installer. The three properties speak of ends of runs and of any moment; what
  connects them is what a tool has behind it at each of its places (`SetupInv`,
  `UninstallInv`): a setup at the library has a copied configuration, an uninstall
  at the configuration has no program or library left but those that refused.
  `Inv` joins these with the properties and is inductive. It holds for files of any
  length and any history of failed and killed runs.
- Threads and locks. `ValuesOnce` and `FewOvertake` rest on three layers. `SemBase` is
  mutual exclusion: whoever increments holds the mutex, two threads that print print to
  different files. `SemText` relates the values held and the lines written: they are
  distinct (`SemValues`), a thread's lines ascend (`SemAscends`), and a thread whose
  line came after a higher one takes only values above that one from then on
  (`SemOvertakes`), which is why each thread overtakes a line at most once. `SemTally`
  counts: the counter is the number of turns whose increment is stored, the lines are
  as many as the turns whose line is printed, so after the joins nothing is missing.
- Divided loops. The bounds of the parts ascend from 0 to the size and leave no row out
  (`PartBounds`). A thread that counts has counted the odd numbers between its bound
  and its cursor (`PartCounts`; up to `n` there are `(n + 1) \div 2` of them, which
  a bijection shows), a thread that multiplies has done the rows between them
  (`PartRows`). What main joins adds up because each part ends where the next begins.
- Directory trees. `DirState` has four parts. `IsTree`: what exists has its parent, and
  the directories of `bt1` can be used. `Cleaning`: at most two directories are open,
  their permissions are restored and all that is left in them is still to be read, so
  a cleaning that ends has left nothing. `Drawing`: what exists is what the plan has
  named so far, with the permissions given last; every permission on the way is there
  until the last two calls of `bt2`, so no call fails. `Scanning`: the report and the
  list of blocked directories are exact but for what is pending, the unread entries
  and what lies below them; at the end nothing is. For the proof the recursion over the
  ancestors is written as a union over the tree (`UpTree`), the plans call by call.
- Small processes. The type of the pipe bounds what it holds and what was printed by
  the number of children; that needs the count of the children past their write
  (`PipeInv`). The chat over a Unix socket and the reaper need only what their places say of their
  state (`ChatInv`, `ReapInv`). `ExercisesInv` joins all parts of the module, `Inv` of the
  installer and `TurnState` included.

The prover does not handle liveness under fairness, `ENABLED` or induction over
data, so `Terminates`, `Delivery`, `FirstExitCompletes`, `LinesAreRead`,
`SleeperStops`, `WakeupReads`, `EveryConnectionServed`, `PartnersEnd`, `EndOfFileComes` and
`NoZombieStays` are checked by TLC only. Every safety invariant of the passing runs is
proved. Exclusion, capacity and screens of the shared memory chat are proved and not checked
again by its run: their actions are those of the mapped chat. `TurnLog` has no liveness
part: the refinement is one of safety, and it is proved.

## What is left out

Of the modelled programs: formatting, prompts and log times; errors of calls that
only print a message; lines that are cut by a buffer's length or split by TCP
(`ChatServer`, `UnixChat`); writes that block, and a `pthread_create` that fails
unnoticed and leaves a listed client without a thread (`ChatServer`); processes killed in the
middle of a locked section (chat rooms); reuse of process ids (`SigShm`); file modes
and two installers at once; failing calls in the start of the `UnixChat` server, and a
second server that takes the path of the first; a failing `fopen` in the thread
exercises, which ends the program at once; `chmod` by hand between the runs of `bt1`
and an unusual umask (`DirScan`); the entries of the matrices and the overflow of an
`int` in their products (`Partition` keeps how often a row was multiplied); the 16,
1000 and 5 of the programs' limits, which are constants here.

Not modelled, and why:

- `semaphore/bt3/gen_files.c`: its threads fill files of their own and share nothing.
- `signal/baitapsingal/bt5`: one pipe and one child, which strictly follow each other.
- `signal/baitapsingal/bt2`, `bt4`, `signal/*.c`, `slide`: one process that installs a
  handler or a mask and prints what it gets, with nobody to interleave with.
- `filesystem/bt3`'s `myapp` and `libhello`: read one line, print one line.
- `bai2` to `bai7`: `fork`, `exec`, `system` and `readdir` in straight-line programs
  that keep no state between two steps.

## Plan

The modules planned at the outset are written. What would add most now:

1. `ChatServer` with bounded inboxes, where a write under `clients_lock` may block and
   stop everyone.
2. Failing calls in the start of `UnixChat`, and a second server on its path.

The safety of what the runs check is proved; the next theorems are those of these
extensions: that a message is in no inbox above its bound and that `SameOrder` and
`BroadcastIsComplete` survive a write that blocks.
