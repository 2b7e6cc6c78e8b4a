----------------------------- MODULE Exercises -----------------------------
(***************************************************************************)
(* The installer, the turns of signal/bai2 and the small exercises side by *)
(* side.  They have nothing to do with each other: `exercise' picks one at *)
(* the start.                                                              *)
(***************************************************************************)
EXTENDS Integers, Sequences, Installer, TurnConstants

CONSTANTS UserModes, Threads, Rounds, Sizes, NUM_THREADS, MULTIPLICATIONS,
          Clients, MaxLines, CHILDREN, OFFSPRING

\* Each program has threads that repeat something, and a loop to divide.
ASSUME ThreadsAssumption ==
  /\ "mutex_file" \in DOMAIN Threads
  /\ \A a \in DOMAIN Threads : Threads[a] \in Nat /\ Rounds[a] \in Nat \ {0}
ASSUME PartitionAssumption ==
  /\ 2 \in Sizes /\ Sizes \subseteq Nat
  /\ NUM_THREADS \in Nat \ {0} /\ MULTIPLICATIONS \in Nat \ {0}
\* Permissions are sets of these three; lines and children are counted.
ASSUME UserModesAssumption == UserModes \subseteq SUBSET {"r", "w", "x"}
ASSUME ProcessAssumption == MaxLines \in Nat /\ CHILDREN \in Nat

VARIABLES
  exercise,
  program, root, mode, phase, step, stack, written, reported, blocked,
  app, main, place, round, register, counter, cnt_mutex, sem, fp,
  job, size, created, joined, cursor, count, total, copied, rounds, temp, result,
  state, ending, path, backlog, peer, sent, shown,
  boss, child, readers, writers, fifo, received,
  parent, kid, sigchld, in_handler,
  place_in_run, my_turn, usr1, iteration, next_counter, shared_txt, printed

dirVars == <<program, root, mode, phase, step, stack, written, reported, blocked>>
semVars == <<app, main, place, round, register, counter, cnt_mutex, sem, fp>>
partVars == <<job, size, created, joined, cursor, count, total, copied, rounds, temp, result>>
chatVars == <<state, ending, path, backlog, peer, sent, shown>>
pipeVars == <<boss, child, readers, writers, fifo, received>>
reaperVars == <<parent, kid, sigchld, in_handler>>
turnVars == <<place_in_run, my_turn, usr1, iteration, next_counter, shared_txt, printed>>
all == <<exercise, vars, dirVars, semVars, partVars, chatVars, pipeVars, reaperVars,
         turnVars>>

Dir == INSTANCE DirScan
Sem == INSTANCE SemWrite
Part == INSTANCE Partition
Chat == INSTANCE UnixChat
Pipe == INSTANCE PipeChildren
Reap == INSTANCE Reaper
Turn == INSTANCE PingPong WITH
  pc <- place_in_run, pending <- usr1, i <- iteration,
  counter <- next_counter, file <- shared_txt

\* What is chosen at the start is chosen only where it matters.
AllInit ==
  /\ exercise \in {"installer", "dir", "sem", "part", "chat", "pipe", "reap", "turns"}
  /\ Init
  /\ Dir!Init /\ (exercise # "dir" => program = "bt1" /\ root)
  /\ Sem!Init /\ (exercise # "sem" => app = "mutex_file")
  /\ Part!Init /\ (exercise # "part" => job = "count" /\ size = 2)
  /\ Chat!Init /\ (exercise # "chat" => path)
  /\ Pipe!Init
  /\ Reap!Init
  /\ Turn!Init

AllNext ==
  \/ /\ exercise = "installer" /\ Next
     /\ UNCHANGED <<exercise, dirVars, semVars, partVars, chatVars, pipeVars, reaperVars, turnVars>>
  \/ /\ exercise = "dir" /\ Dir!Next
     /\ UNCHANGED <<exercise, vars, semVars, partVars, chatVars, pipeVars, reaperVars, turnVars>>
  \/ /\ exercise = "sem" /\ Sem!Next
     /\ UNCHANGED <<exercise, vars, dirVars, partVars, chatVars, pipeVars, reaperVars, turnVars>>
  \/ /\ exercise = "part" /\ Part!Next
     /\ UNCHANGED <<exercise, vars, dirVars, semVars, chatVars, pipeVars, reaperVars, turnVars>>
  \/ /\ exercise = "chat" /\ Chat!Next
     /\ UNCHANGED <<exercise, vars, dirVars, semVars, partVars, pipeVars, reaperVars, turnVars>>
  \/ /\ exercise = "pipe" /\ Pipe!Next
     /\ UNCHANGED <<exercise, vars, dirVars, semVars, partVars, chatVars, reaperVars, turnVars>>
  \/ /\ exercise = "reap" /\ Reap!Next
     /\ UNCHANGED <<exercise, vars, dirVars, semVars, partVars, chatVars, pipeVars, turnVars>>
  \/ /\ exercise = "turns" /\ Turn!Next
     /\ UNCHANGED <<exercise, vars, dirVars, semVars, partVars, chatVars, pipeVars, reaperVars>>

\* Threads and processes run; users need not type, fork need not fail.
Fairness ==
  /\ WF_chatVars(exercise = "chat" /\ Chat!ServerStart)
  /\ \A p \in {"server"} \cup Clients :
       WF_chatVars(exercise = "chat" /\ (Chat!Thread(p) \/ Chat!Return(p)))
  /\ WF_pipeVars(exercise = "pipe" /\ Pipe!Parent)
  /\ \A c \in 1..CHILDREN : WF_pipeVars(exercise = "pipe" /\ Pipe!Child(c))
  /\ WF_reaperVars(exercise = "reap" /\ Reap!Main)
  /\ WF_reaperVars(exercise = "reap" /\ Reap!Handler)
  /\ \A p \in Turn!Procs : WF_turnVars(exercise = "turns" /\ Turn!Step(p))
  /\ WF_turnVars(exercise = "turns" /\ Turn!Exit)
  /\ WF_turnVars(exercise = "turns" /\ Turn!WaitAndPrint)

AllSpec == AllInit /\ [][AllNext]_all /\ Fairness

\* Each variable of the installer and of each exercise has its type.
ExercisesTypeOK ==
  /\ TypeOK
  /\ exercise = "dir" => Dir!TypeOK
  /\ exercise = "sem" => Sem!TypeOK
  /\ exercise = "part" => Part!TypeOK
  /\ exercise = "chat" => Chat!TypeOK
  /\ exercise = "pipe" => Pipe!TypeOK
  /\ exercise = "reap" => Reap!TypeOK
  /\ exercise = "turns" => Turn!TypeOK

\* A setup that ends has made the tree as drawn, whatever was there before.
TreeAsDrawn == exercise = "dir" => Dir!TreeAsDrawn

\* A scan reports the reachable read-only files and the paths it stops at: for a
\* user of bt2's tree the entries of the base, not the base.
ScanIsExact == exercise = "dir" => Dir!ScanIsExact

\* Every value is taken by one thread and stands in one line.
ValuesOnce == exercise = "sem" => Sem!ValuesOnce

\* Fewer lines than threads come after a line of a higher value.
FewOvertake == exercise = "sem" => Sem!FewOvertake

\* The divided loop gives what the plain loop gives.
ProductIsWhole == exercise = "part" => Part!ProductIsWhole

\* A process ends once its partner has, and has printed all it wrote.
PartnersEnd == exercise = "chat" => Chat!PartnersEnd

\* The parent reads the pipe to its end and reaps every child.
EndOfFileComes == exercise = "pipe" => Pipe!EndOfFileComes

\* A child that has ended is collected.
NoZombieStays == exercise = "reap" => Reap!NoZombieStays

\* The turn to use shared.txt is never in two hands, nor twice in one.
OneTurn == exercise = "turns" => Turn!OneTurn

\* What the parent prints at the end holds the lines of both processes.
PrintsWholeFile == exercise = "turns" => Turn!PrintsWholeFile

\* Neither process waits for ever for its turn, unless the other gave up.
Terminates == exercise = "turns" => Turn!Terminates

\* The lines of shared.txt are appended as TurnLog prescribes, by whoever has
\* the turn and with the next number; in the other exercises there are none.
AppendsInTurn == Turn!AppendsInTurn
=============================================================================
