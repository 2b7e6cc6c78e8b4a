------------------------------ MODULE SemWrite ------------------------------
(***************************************************************************)
(* The threads of semaphore/bt3/sem_write.c, semaphore/bt2/mutex_counter.c *)
(* and semaphore/bt2/mutex_file.c: each repeats "take a value from the     *)
(* shared counter under a mutex" (the first two) and "write a line to a    *)
(* shared file under its lock" (the first and the last).  sem_write has    *)
(* two files, each with a semaphore of its own, for even and odd values;   *)
(* mutex_file has one, whose lock is a mutex, and numbers its lines itself.*)
(***************************************************************************)
EXTENDS Integers, Sequences, FiniteSets

CONSTANTS
  Threads,     \* program -> number of threads (3, 2 and 2)
  Rounds       \* program -> ITERATIONS, NUM_INCREMENTS or LINES_PER_THREAD

VARIABLES
  app,        \* the program, a member of DOMAIN Threads
  main,       \* steps of main: a create for each thread, then a join for each
  place,      \* where each thread is
  round,      \* its loop variable
  register,   \* the counter as a thread read it, and then its value val
  counter,
  cnt_mutex,  \* the thread that holds it, 0 when it is free
  sem,        \* the value of each file's semaphore
  fp          \* the lines of each file

semVars == <<app, main, place, round, register, counter, cnt_mutex, sem, fp>>

Counts == app # "mutex_file"
Writes == app # "mutex_counter"
Ids == 1..Threads[app]
Files == IF app = "sem_write" THEN {0, 1} ELSE {0}
FileOf(val) == IF app = "sem_write" THEN val % 2 ELSE 0
Top == IF Counts THEN "lock" ELSE "wait"

Init ==
  /\ app \in DOMAIN Threads
  /\ main = 0
  /\ place = [t \in Ids |-> "new"]
  /\ round = [t \in Ids |-> 0]
  /\ register = [t \in Ids |-> 0]
  /\ counter = 0
  /\ cnt_mutex = 0
  /\ sem = [f \in Files |-> 1]
  /\ fp = [f \in Files |-> << >>]

Goto(t, label) == place' = [place EXCEPT ![t] = label]

\* pthread_create: mutex_file counts its lines from 1, the others do not use i.
Create ==
  /\ main < Threads[app]
  /\ main' = main + 1
  /\ Goto(main + 1, Top)
  /\ round' = [round EXCEPT ![main + 1] = 1]
  /\ register' = [register EXCEPT ![main + 1] = 1]
  /\ UNCHANGED <<app, counter, cnt_mutex, sem, fp>>

\* pthread_join, in the order of creation.
Join ==
  /\ main >= Threads[app]
  /\ main < 2 * Threads[app]
  /\ place[main - Threads[app] + 1] = "ended"
  /\ main' = main + 1
  /\ UNCHANGED <<app, place, round, register, counter, cnt_mutex, sem, fp>>

Joined == main = 2 * Threads[app]

\* Faulty variant: the mutex is not waited for.
LockNoWait(t) ==
  /\ place[t] = "lock"
  /\ cnt_mutex' = t
  /\ Goto(t, "read")
  /\ UNCHANGED <<app, main, round, register, counter, sem, fp>>

Lock(t) ==
  /\ place[t] = "lock"
  /\ cnt_mutex = 0
  /\ cnt_mutex' = t
  /\ Goto(t, "read")
  /\ UNCHANGED <<app, main, round, register, counter, sem, fp>>

\* counter++ reads the counter ...
ReadCounter(t) ==
  /\ place[t] = "read"
  /\ register' = [register EXCEPT ![t] = counter]
  /\ Goto(t, "store")
  /\ UNCHANGED <<app, main, round, counter, cnt_mutex, sem, fp>>

\* Faulty variant: the mutex is given up before the value is read.
StoreCounterUnlocks(t) ==
  /\ place[t] = "store"
  /\ counter' = register[t] + 1
  /\ cnt_mutex' = 0
  /\ Goto(t, "unlock")
  /\ UNCHANGED <<app, main, round, register, sem, fp>>

\* ... and stores what it read, plus one.
StoreCounter(t) ==
  /\ place[t] = "store"
  /\ counter' = register[t] + 1
  /\ Goto(t, "unlock")
  /\ UNCHANGED <<app, main, round, register, cnt_mutex, sem, fp>>

\* The end of a turn of the loop.
NextRound(t) ==
  IF round[t] < Rounds[app]
    THEN Goto(t, Top) /\ round' = [round EXCEPT ![t] = @ + 1]
    ELSE Goto(t, "ended") /\ UNCHANGED round

\* int val = counter, in the programs that use it, and the unlock.
ReadAndUnlock(t) ==
  /\ place[t] = "unlock"
  /\ register' = [register EXCEPT ![t] = counter]
  /\ cnt_mutex' = 0
  /\ IF Writes THEN Goto(t, "wait") /\ UNCHANGED round ELSE NextRound(t)
  /\ UNCHANGED <<app, main, counter, sem, fp>>

\* The value of the line t is about to write.
Val(t) == IF Counts THEN register[t] ELSE round[t]

\* Faulty variant: the result of a sem_trywait is not looked at.
TryWait(t) ==
  /\ place[t] = "wait"
  /\ sem' = [sem EXCEPT ![FileOf(Val(t))] = IF @ > 0 THEN @ - 1 ELSE @]
  /\ Goto(t, "print")
  /\ UNCHANGED <<app, main, round, register, counter, cnt_mutex, fp>>

\* sem_wait on the file's semaphore, or the lock of file_mutex.
Wait(t) ==
  /\ place[t] = "wait"
  /\ sem[FileOf(Val(t))] > 0
  /\ sem' = [sem EXCEPT ![FileOf(Val(t))] = @ - 1]
  /\ Goto(t, "print")
  /\ UNCHANGED <<app, main, round, register, counter, cnt_mutex, fp>>

\* fprintf and fflush.
WriteLine(t) ==
  /\ place[t] = "print"
  /\ fp' = [fp EXCEPT ![FileOf(Val(t))] = Append(@, [thread |-> t, value |-> Val(t)])]
  /\ Goto(t, "post")
  /\ UNCHANGED <<app, main, round, register, counter, cnt_mutex, sem>>

\* sem_post, or the unlock of file_mutex.
Post(t) ==
  /\ place[t] = "post"
  /\ sem' = [sem EXCEPT ![FileOf(Val(t))] = @ + 1]
  /\ NextRound(t)
  /\ UNCHANGED <<app, main, register, counter, cnt_mutex, fp>>

Thread(t) == \/ Lock(t) \/ ReadCounter(t) \/ StoreCounter(t) \/ ReadAndUnlock(t)
             \/ Wait(t) \/ WriteLine(t) \/ Post(t)

Next == Create \/ Join \/ \E t \in Ids : Thread(t)

-----------------------------------------------------------------------------
TypeOK ==
  /\ main \in 0..(2 * Threads[app])
  /\ \A t \in Ids :
       /\ place[t] \in {"new", "lock", "read", "store", "unlock", "wait", "print", "post", "ended"}
       /\ round[t] \in 0..Rounds[app]
       /\ register[t] \in 0..(Threads[app] * Rounds[app])
  /\ cnt_mutex \in {0} \cup Ids
  /\ \A f \in Files : sem[f] \in {0, 1} /\ Len(fp[f]) <= Threads[app] * Rounds[app]

\* Every value is taken by one thread and stands in one line of its file;
\* when main has joined the threads nothing is missing, and the counter is
\* the number of increments ("Match: YES").
ValuesOnce ==
  LET Lines == {<<f, k>> : f \in Files, k \in 1..(Threads[app] * Rounds[app])}
      Written == {l \in Lines : l[2] <= Len(fp[l[1]])}
      Total == Threads[app] * Rounds[app]
      Id(l) == IF Counts THEN fp[l[1]][l[2]].value ELSE fp[l[1]][l[2]]
  IN  /\ \A a, b \in Written : a # b => Id(a) # Id(b)
      /\ Joined => /\ Counts => counter = Total
                   /\ Writes => Cardinality(Written) = Total
                   /\ app = "sem_write" => {Id(l) : l \in Written} = 1..Total

\* The lines of a file need not be sorted, since the value is taken under
\* another lock than the one it is written under, but each thread's are,
\* and fewer lines than there are threads come after a line of a higher
\* value: a thread holds back one line at most.
FewOvertake ==
  \A f \in Files : \A k \in 1..Len(fp[f]) :
    LET Later == {l \in (k + 1)..Len(fp[f]) : fp[f][l].value <= fp[f][k].value}
    IN  /\ \A l \in Later : fp[f][l].thread # fp[f][k].thread
        /\ app = "sem_write" => Cardinality(Later) < Threads[app]
=============================================================================
