-------------------------- MODULE ExercisesProofs --------------------------
(***************************************************************************)
(* Theorems of the installer, for files of any length and any history of   *)
(* runs that end, fail or are killed; of the threads of SemWrite and       *)
(* Partition, for any number of threads, turns and rows; of the trees of   *)
(* DirScan, for any permissions a user gives; of the turns of PingPong, for*)
(* any number of them; and the types of the chat, the pipe and the reaper, *)
(* for any number of processes.                                            *)
(***************************************************************************)
EXTENDS Exercises, FiniteSetTheorems, SequenceTheorems, TLAPS

-----------------------------------------------------------------------------
(* The installer *)

\* f is copied, as far as setup can tell.
Copied(f) == Present(f) /\ (~silent => Whole(f))

\* Of f nothing is left, or what refused to go.
Gone(f) == Present(f) => f \in kept

\* What a running setup has behind it at each of its places.
SetupInv ==
  tool = "setup" =>
    /\ pc \in {"check", "mkdir", "open", "copy", "ldconfig"}
    /\ pc \in {"open", "copy", "ldconfig"} => dir
    /\ pc \in {"open", "copy"} /\ at # "cfg" => Copied("cfg")
    /\ pc \in {"open", "copy"} /\ at = "bin" => Copied("lib")
    /\ pc = "copy" => Present(at)
    /\ pc = "ldconfig" => Copied("cfg") /\ Copied("lib") /\ Copied("bin")

\* The same for uninstall.
UninstallInv ==
  tool = "uninstall" =>
    /\ pc \in {"check", "remove", "rmdir", "ldconfig"}
    /\ pc = "remove" /\ at # "bin" => Gone("bin")
    /\ pc = "remove" /\ at = "cfg" => Gone("lib")
    /\ pc \in {"rmdir", "ldconfig"} => Gone("bin") /\ Gone("lib") /\ Gone("cfg")
    /\ pc = "ldconfig" => (dir => "dir" \in kept)

\* No run, no place; and a run that has not ended has no outcome.
IdleInv ==
  /\ tool = "none" => pc = "check"
  /\ tool # "none" => outcome = "none"

Inv ==
  /\ TypeOK /\ IdleInv
  /\ SetupInv /\ UninstallInv
  /\ InstalledIsWhole /\ NothingDangles /\ RemovedIsGone

-----------------------------------------------------------------------------

\* Before the first run there is nothing to dangle.
LEMMA InitInv == Init => Inv
  BY BlocksAssumption
  DEF Init, Inv, TypeOK, IdleInv, SetupInv, UninstallInv, InstalledIsWhole,
      NothingDangles, RemovedIsGone, Present, Whole, Tools, Places, Ends, Files

\* Every step keeps the types.
LEMMA NextTypeOK ==
  ASSUME TypeOK, IdleInv, SetupInv, [Next]_vars
  PROVE  TypeOK'
<1> USE BlocksAssumption DEF TypeOK, disk, Tools, Places, Ends, Files
<1>1. ASSUME NEW t \in {"setup", "uninstall"}, Start(t) PROVE TypeOK'
  BY <1>1 DEF Start
<1>2. CASE Turned
  BY <1>2 DEF Turned, End
<1>3. CASE SetupChecks
  BY <1>3 DEF SetupChecks, Goto
<1>4. CASE MakeDir
  BY <1>4 DEF MakeDir, Goto
<1>5. CASE OpenCopy
  <2>1. length' \in [Files -> (0..Blocks) \cup {Absent}]
    BY <1>5 DEF OpenCopy
  <2> QED  BY <1>5, <2>1 DEF OpenCopy, Goto
<1>6. CASE CopyBlock
  <2>1. length[at] \in (0..Blocks) \cup {Absent} /\ length[at] # Absent
    BY <1>6 DEF CopyBlock, SetupInv, Present
  <2>2. length[at] + 1 \in 0..Blocks
    BY <1>6, <2>1 DEF CopyBlock
  <2>3. length' \in [Files -> (0..Blocks) \cup {Absent}]
    BY <1>6, <2>2 DEF CopyBlock
  <2> QED  BY <1>6, <2>3 DEF CopyBlock
<1>7. CASE CopyDone
  BY <1>7 DEF CopyDone, CopyReturns
<1>8. CASE SetupFails
  BY <1>8 DEF SetupFails, End
<1>9. CASE SetupCaches
  BY <1>9 DEF SetupCaches, LdConfig, End, Present, Whole
<1>10. CASE UninstallChecks
  BY <1>10 DEF UninstallChecks, Goto
<1>11. CASE Remove
  BY <1>11 DEF Remove, Unlink, Goto
<1>12. CASE RemoveDir
  BY <1>12 DEF RemoveDir, Goto
<1>13. CASE UninstallCaches
  BY <1>13 DEF UninstallCaches, LdConfig, End, Present, Whole
<1>14. CASE Killed
  BY <1>14 DEF Killed, End
<1>15. CASE UNCHANGED vars
  BY <1>15 DEF vars
<1> QED
  BY <1>1, <1>2, <1>3, <1>4, <1>5, <1>6, <1>7, <1>8, <1>9, <1>10, <1>11,
     <1>12, <1>13, <1>14, <1>15
  DEF Next, Setup, Uninstall

\* The rest of the invariant.
Rest ==
  /\ IdleInv /\ SetupInv /\ UninstallInv
  /\ InstalledIsWhole /\ NothingDangles /\ RemovedIsGone

\* Every step keeps what is known of each place of a run and of each end.
LEMMA NextRest ==
  ASSUME TypeOK, Rest, [Next]_vars
  PROVE  Rest'
<1> USE BlocksAssumption
    DEF TypeOK, Rest, IdleInv, SetupInv, UninstallInv, InstalledIsWhole,
        NothingDangles, RemovedIsGone, Copied, Gone, Present, Whole, disk,
        Tools, Places, Ends, Files
<1>1. ASSUME NEW t \in {"setup", "uninstall"}, Start(t) PROVE Rest'
  BY <1>1 DEF Start
<1>2. CASE Turned
  BY <1>2 DEF Turned, End
<1>3. CASE SetupChecks
  BY <1>3 DEF SetupChecks, Goto
<1>4. CASE MakeDir
  BY <1>4 DEF MakeDir, Goto
<1>5. CASE OpenCopy
  BY <1>5 DEF OpenCopy, Goto
<1>6. CASE CopyBlock
  BY <1>6 DEF CopyBlock
<1>7. CASE CopyDone
  BY <1>7 DEF CopyDone, CopyReturns
<1>8. CASE SetupFails
  BY <1>8 DEF SetupFails, End
<1>9. CASE SetupCaches
  BY <1>9 DEF SetupCaches, LdConfig, End
<1>10. CASE UninstallChecks
  BY <1>10 DEF UninstallChecks, Goto
<1>11. CASE Remove
  BY <1>11 DEF Remove, Unlink, Goto
<1>12. CASE RemoveDir
  BY <1>12 DEF RemoveDir, Goto
<1>13. CASE UninstallCaches
  BY <1>13 DEF UninstallCaches, LdConfig, End
<1>14. CASE Killed
  BY <1>14 DEF Killed, End
<1>15. CASE UNCHANGED vars
  BY <1>15 DEF vars
<1> QED
  BY <1>1, <1>2, <1>3, <1>4, <1>5, <1>6, <1>7, <1>8, <1>9, <1>10, <1>11,
     <1>12, <1>13, <1>14, <1>15
  DEF Next, Setup, Uninstall

LEMMA SpecInv == Spec => []Inv
<1>1. Init => Inv
  BY InitInv
<1>2. Inv /\ [Next]_vars => Inv'
  BY NextTypeOK, NextRest DEF Inv, Rest
<1> QED  BY <1>1, <1>2, PTL DEF Spec

-----------------------------------------------------------------------------

\* The types hold; in particular a file never grows past the package's.
THEOREM TypeCorrect == Spec => []TypeOK
<1>1. Inv => TypeOK
  BY DEF Inv
<1> QED  BY <1>1, SpecInv, PTL

\* A setup that says it succeeded has installed whole files and made the
\* library known, whatever earlier runs left, unless a read or ldconfig failed.
THEOREM InstallIsWhole == Spec => []InstalledIsWhole
<1>1. Inv => InstalledIsWhole
  BY DEF Inv
<1> QED  BY <1>1, SpecInv, PTL

\* A file that is there has those it needs, at any moment of any history.
THEOREM NeverDangles == Spec => []NothingDangles
<1>1. Inv => NothingDangles
  BY DEF Inv
<1> QED  BY <1>1, SpecInv, PTL

\* An uninstall that ended has left nothing but what refused to go.
THEOREM UninstallIsComplete == Spec => []RemovedIsGone
<1>1. Inv => RemovedIsGone
  BY DEF Inv
<1> QED  BY <1>1, SpecInv, PTL

-----------------------------------------------------------------------------
(* Counting and multiplying *)

LEMMA UpTo ==
  ASSUME NEW n \in Nat
  PROVE  IsFiniteSet(1..n) /\ Cardinality(1..n) = n
<1>1. 1 \in Int /\ n \in Int
  OBVIOUS
<1>2. IsFiniteSet(1..n) /\ Cardinality(1..n) = IF 1 > n THEN 0 ELSE n - 1 + 1
  BY <1>1, FS_Interval
<1>3. (IF 1 > n THEN 0 ELSE n - 1 + 1) = n
  OBVIOUS
<1> QED BY <1>2, <1>3

LEMMA Multiples ==
  ASSUME NEW c \in Nat, NEW t \in Nat
  PROVE  t * c \in Nat /\ (t + 1) * c \in Nat /\ (t + 1) * c = t * c + c /\ 0 * c = 0
  OBVIOUS

LEMMA MultiplesGrow ==
  ASSUME NEW c \in Nat, NEW t \in Nat, NEW u \in Nat, t <= u
  PROVE  t * c <= u * c
  OBVIOUS

-----------------------------------------------------------------------------
(* The threads of SemWrite *)

SemPlaces == {"new", "lock", "read", "store", "unlock", "wait", "print", "post", "ended"}
SemLines == [thread : Sem!Ids, value : Nat]

SemTypes ==
  /\ app \in DOMAIN Threads
  /\ main \in 0..(2 * Threads[app])
  /\ place \in [Sem!Ids -> SemPlaces]
  /\ round \in [Sem!Ids -> 0..Rounds[app]]
  /\ register \in [Sem!Ids -> Nat]
  /\ counter \in Nat
  /\ cnt_mutex \in {0} \cup Sem!Ids
  /\ sem \in [Sem!Files -> {0, 1}]
  /\ fp \in [Sem!Files -> Seq(SemLines)]

\* Where a thread may be, by what main has done and by its program.
SemWhere ==
  \A t \in Sem!Ids :
    /\ place[t] = "new" <=> t > main
    /\ place[t] = "new" <=> round[t] = 0
    /\ place[t] = "ended" => round[t] = Rounds[app]
    /\ t + Threads[app] <= main => place[t] = "ended"
    /\ place[t] \in {"lock", "read", "store", "unlock"} => Sem!Counts
    /\ place[t] \in {"wait", "print", "post"} => Sem!Writes

\* The mutex protects the counter ...
SemMutex ==
  \A t \in Sem!Ids :
    /\ place[t] \in {"read", "store", "unlock"} => cnt_mutex = t
    /\ place[t] = "store" => register[t] = counter
    /\ place[t] = "unlock" => counter > 0

\* ... and each file's lock the time from the wait to the post.
File(t) == Sem!FileOf(Sem!Val(t))
SemFileLocks ==
  /\ \A t \in Sem!Ids : place[t] \in {"print", "post"} => sem[File(t)] = 0
  /\ \A t, u \in Sem!Ids :
       t # u /\ place[t] \in {"print", "post"} /\ place[u] \in {"print", "post"} =>
         File(t) # File(u)

SemBase == SemTypes /\ SemWhere /\ SemMutex /\ SemFileLocks

SemStep == Sem!Next /\ exercise = "sem"

LEMMA SemKinds ==
  ASSUME SemTypes
  PROVE  /\ Threads[app] \in Nat /\ Rounds[app] \in Nat /\ Rounds[app] > 0
         /\ \A t \in Sem!Ids : t \in Nat /\ t > 0
         /\ \A t \in Sem!Ids : Sem!FileOf(Sem!Val(t)) \in Sem!Files
         /\ \A t \in Sem!Ids : Sem!Val(t) \in Nat
<1>1. /\ Threads[app] \in Nat /\ Rounds[app] \in Nat /\ Rounds[app] > 0
      /\ \A t \in Sem!Ids : t \in Nat /\ t > 0
  BY ThreadsAssumption DEF SemTypes, Sem!Ids
<1>2. ASSUME NEW v \in Nat PROVE Sem!FileOf(v) \in Sem!Files
  BY DEF Sem!FileOf, Sem!Files
<1>3. ASSUME NEW t \in Sem!Ids PROVE Sem!Val(t) \in Nat
  BY <1>1 DEF SemTypes, Sem!Val
<1> QED BY <1>1, <1>2, <1>3

LEMMA SemInitBase == Sem!Init => SemBase
<1> SUFFICES ASSUME Sem!Init PROVE SemBase
  OBVIOUS
<1>1. /\ Threads[app] \in Nat /\ Rounds[app] \in Nat \ {0}
      /\ \A t \in Sem!Ids : t > 0
  BY ThreadsAssumption DEF Sem!Init, Sem!Ids
<1>2. SemTypes
  BY <1>1 DEF Sem!Init, SemTypes, SemPlaces
<1> QED BY <1>1, <1>2 DEF SemBase, Sem!Init, SemWhere, SemMutex, SemFileLocks, Sem!Ids

\* The step of main or a thread moves t, and nobody else, to place l.
Moved(t, l, i, v) ==
  /\ place' \in [Sem!Ids -> SemPlaces] /\ place'[t] = l
  /\ round' \in [Sem!Ids -> 0..Rounds[app]] /\ round'[t] = i
  /\ register' \in [Sem!Ids -> Nat] /\ register'[t] = v
  /\ \A u \in Sem!Ids : u # t =>
       place'[u] = place[u] /\ round'[u] = round[u] /\ register'[u] = register[u]

NextPlace(t) == IF round[t] < Rounds[app] THEN Sem!Top ELSE "ended"
NextIndex(t) == IF round[t] < Rounds[app] THEN round[t] + 1 ELSE round[t]

LEMMA SemTop == /\ Sem!Top \in {"lock", "wait"} /\ (Sem!Top = "lock" <=> Sem!Counts)
                /\ Sem!Counts \/ Sem!Writes
  BY DEF Sem!Top, Sem!Counts, Sem!Writes

LEMMA SemUnchanged ==
  ASSUME Sem!Next
  PROVE  /\ app' = app /\ Sem!Ids' = Sem!Ids /\ Sem!Files' = Sem!Files
         /\ Sem!Counts' = Sem!Counts /\ Sem!Writes' = Sem!Writes
  BY DEF Sem!Next, Sem!Create, Sem!Join, Sem!Thread, Sem!Lock, Sem!ReadCounter, Sem!StoreCounter,
         Sem!ReadAndUnlock, Sem!Wait, Sem!WriteLine, Sem!Post, Sem!Counts, Sem!Writes,
         Sem!Ids, Sem!Files

LEMMA SemCreateMoves ==
  ASSUME SemTypes, Sem!Create
  PROVE  /\ main + 1 \in Sem!Ids /\ main < Threads[app] /\ main' = main + 1
         /\ Moved(main + 1, Sem!Top, 1, 1)
         /\ UNCHANGED <<counter, cnt_mutex, sem, fp>>
<1>1. main + 1 \in Sem!Ids
  BY SemKinds DEF Sem!Create, SemTypes, Sem!Ids
<1>2. Sem!Top \in SemPlaces /\ 1 \in 0..Rounds[app]
  BY SemTop, SemKinds DEF SemPlaces
<1>3. /\ place' = [place EXCEPT ![main + 1] = Sem!Top]
      /\ round' = [round EXCEPT ![main + 1] = 1]
      /\ register' = [register EXCEPT ![main + 1] = 1]
      /\ main < Threads[app] /\ main' = main + 1
      /\ UNCHANGED <<counter, cnt_mutex, sem, fp>>
  BY DEF Sem!Create, Sem!Goto
<1> QED BY <1>1, <1>2, <1>3 DEF SemTypes, Moved

\* What each step of a thread does to the thread.
LEMMA SemMoves ==
  ASSUME SemTypes, SemWhere, NEW t \in Sem!Ids, Sem!Thread(t)
  PROVE  /\ main' = main /\ t <= main /\ main < t + Threads[app]
         /\ round[t] \in 1..Rounds[app]
         /\ Sem!Lock(t) => Moved(t, "read", round[t], register[t])
         /\ Sem!ReadCounter(t) => Moved(t, "store", round[t], counter)
         /\ Sem!StoreCounter(t) => Moved(t, "unlock", round[t], register[t])
         /\ Sem!ReadAndUnlock(t) /\ Sem!Writes => Moved(t, "wait", round[t], counter)
         /\ Sem!ReadAndUnlock(t) /\ ~Sem!Writes => Moved(t, NextPlace(t), NextIndex(t), counter)
         /\ Sem!Wait(t) => Moved(t, "print", round[t], register[t])
         /\ Sem!WriteLine(t) => Moved(t, "post", round[t], register[t])
         /\ Sem!Post(t) => Moved(t, NextPlace(t), NextIndex(t), register[t])
<1>1. /\ main' = main /\ place[t] \notin {"new", "ended"}
  BY DEF Sem!Thread, Sem!Lock, Sem!ReadCounter, Sem!StoreCounter,
         Sem!ReadAndUnlock, Sem!Wait, Sem!WriteLine, Sem!Post
<1>2. main \in Nat /\ t \in Nat /\ t <= main /\ main < t + Threads[app] /\ round[t] \in 1..Rounds[app]
  BY <1>1, SemKinds DEF SemTypes, SemWhere
<1>3. /\ round[t] \in 0..Rounds[app] /\ register[t] \in Nat /\ counter \in Nat
      /\ NextIndex(t) \in 0..Rounds[app] /\ NextPlace(t) \in SemPlaces
  BY <1>2, SemKinds, SemTop DEF SemTypes, NextIndex, NextPlace, SemPlaces
<1>4. ASSUME NEW l \in SemPlaces, place' = [place EXCEPT ![t] = l], UNCHANGED <<round, register>>
      PROVE  Moved(t, l, round[t], register[t])
  BY <1>4 DEF SemTypes, Moved
<1>5. ASSUME NEW l \in SemPlaces, place' = [place EXCEPT ![t] = l], round' = round,
             register' = [register EXCEPT ![t] = counter]
      PROVE  Moved(t, l, round[t], counter)
  BY <1>3, <1>5 DEF SemTypes, Moved
<1>6. ASSUME Sem!NextRound(t), NEW v \in Nat,
             \/ register' = [register EXCEPT ![t] = v]
             \/ (register' = register /\ v = register[t])
      PROVE  Moved(t, NextPlace(t), NextIndex(t), v)
  <2>1. /\ place' = [place EXCEPT ![t] = NextPlace(t)]
        /\ round' \in [Sem!Ids -> 0..Rounds[app]] /\ round'[t] = NextIndex(t)
        /\ \A u \in Sem!Ids : u # t => round'[u] = round[u]
    <3>1. CASE round[t] < Rounds[app]
      <4>1. /\ place' = [place EXCEPT ![t] = NextPlace(t)]
            /\ round' = [round EXCEPT ![t] = NextIndex(t)]
        BY <1>6, <3>1 DEF Sem!NextRound, Sem!Goto, NextPlace, NextIndex
      <4> QED BY <1>3, <4>1 DEF SemTypes
    <3>2. CASE ~(round[t] < Rounds[app])
      <4>1. /\ place' = [place EXCEPT ![t] = NextPlace(t)] /\ round' = round
            /\ NextIndex(t) = round[t]
        BY <1>6, <3>2 DEF Sem!NextRound, Sem!Goto, NextPlace, NextIndex
      <4> QED BY <4>1 DEF SemTypes
    <3> QED BY <3>1, <3>2
  <2>2. register' \in [Sem!Ids -> Nat] /\ register'[t] = v
        /\ \A u \in Sem!Ids : u # t => register'[u] = register[u]
    BY <1>6 DEF SemTypes
  <2>3. place' \in [Sem!Ids -> SemPlaces] /\ place'[t] = NextPlace(t)
        /\ \A u \in Sem!Ids : u # t => place'[u] = place[u]
    BY <1>3, <2>1 DEF SemTypes
  <2> QED BY <2>1, <2>2, <2>3 DEF Moved
<1>7. /\ Sem!Lock(t) => Moved(t, "read", round[t], register[t])
      /\ Sem!StoreCounter(t) => Moved(t, "unlock", round[t], register[t])
      /\ Sem!Wait(t) => Moved(t, "print", round[t], register[t])
      /\ Sem!WriteLine(t) => Moved(t, "post", round[t], register[t])
  BY <1>4 DEF Sem!Lock, Sem!StoreCounter, Sem!Wait, Sem!WriteLine, Sem!Goto, SemPlaces
<1>8. /\ Sem!ReadCounter(t) => Moved(t, "store", round[t], counter)
      /\ Sem!ReadAndUnlock(t) /\ Sem!Writes => Moved(t, "wait", round[t], counter)
  BY <1>5 DEF Sem!ReadCounter, Sem!ReadAndUnlock, Sem!Goto, SemPlaces
<1>9. Sem!ReadAndUnlock(t) /\ ~Sem!Writes => Moved(t, NextPlace(t), NextIndex(t), counter)
  BY <1>3, <1>6 DEF Sem!ReadAndUnlock
<1>10. Sem!Post(t) => Moved(t, NextPlace(t), NextIndex(t), register[t])
  <2> SUFFICES ASSUME Sem!Post(t) PROVE Moved(t, NextPlace(t), NextIndex(t), register[t])
    OBVIOUS
  <2>1. Sem!NextRound(t) /\ register' = register
    BY DEF Sem!Post
  <2> QED BY <1>3, <1>6, <2>1
<1> QED BY <1>1, <1>2, <1>7, <1>8, <1>9, <1>10

\* A thread that moves along stays where it may be.
LEMMA SemWhereStep ==
  ASSUME SemTypes, SemWhere, NEW t \in Sem!Ids, NEW l \in SemPlaces \ {"new"},
         NEW i \in 1..Rounds[app], NEW v, Moved(t, l, i, v),
         main' = main, t <= main, main < t + Threads[app], app' = app,
         Sem!Counts' = Sem!Counts, Sem!Writes' = Sem!Writes, Sem!Ids' = Sem!Ids,
         l = "ended" => i = Rounds[app],
         l \in {"lock", "read", "store", "unlock"} => Sem!Counts,
         l \in {"wait", "print", "post"} => Sem!Writes
  PROVE  SemWhere'
<1>1. /\ main \in Nat /\ t \in Nat /\ Threads[app] \in Nat /\ i # 0
      /\ ~(t > main) /\ ~(t + Threads[app] <= main)
  BY SemKinds DEF SemTypes
<1> QED BY <1>1 DEF SemWhere, Moved

\* The locks of the files are kept when the step of t respects the others'.
LEMMA SemFileStep ==
  ASSUME SemFileLocks, Sem!Ids' = Sem!Ids, NEW t \in Sem!Ids,
         \A u \in Sem!Ids : u # t => place'[u] = place[u] /\ File(u)' = File(u),
         \A u \in Sem!Ids : u # t /\ place[u] \in {"print", "post"} => sem'[File(u)] = 0,
         place'[t] \in {"print", "post"} =>
           /\ File(t)' = File(t) /\ sem'[File(t)] = 0
           /\ \A u \in Sem!Ids : u # t /\ place[u] \in {"print", "post"} => File(u) # File(t)
  PROVE  SemFileLocks'
<1>1. ASSUME NEW u \in Sem!Ids, place'[u] \in {"print", "post"} PROVE (sem[File(u)])' = 0
  BY <1>1
<1>2. ASSUME NEW u \in Sem!Ids, NEW w \in Sem!Ids, u # w,
             place'[u] \in {"print", "post"}, place'[w] \in {"print", "post"}
      PROVE  File(u)' # File(w)'
  BY <1>2 DEF SemFileLocks
<1> QED BY <1>1, <1>2 DEF SemFileLocks

LEMMA SemBaseStep ==
  ASSUME SemBase, Sem!Next
  PROVE  SemBase'
<1> USE DEF SemBase
<1>0. /\ app' = app /\ Sem!Ids' = Sem!Ids /\ Sem!Files' = Sem!Files
      /\ Sem!Counts' = Sem!Counts /\ Sem!Writes' = Sem!Writes
  BY SemUnchanged
<1>1. CASE Sem!Create
  <2>1. /\ main + 1 \in Sem!Ids /\ main < Threads[app] /\ main' = main + 1
        /\ Moved(main + 1, Sem!Top, 1, 1)
        /\ UNCHANGED <<counter, cnt_mutex, sem, fp>>
        /\ main \in Nat /\ Threads[app] \in Nat /\ main' \in 0..(2 * Threads[app])
        /\ \A u \in Sem!Ids : u \in Nat /\ u > 0
    BY <1>1, SemCreateMoves, SemKinds DEF SemTypes
  <2>2. SemTypes'
    BY <1>0, <2>1 DEF SemTypes, SemLines, Moved
  <2>3. SemWhere'
    <3>1. \A u \in Sem!Ids : u # main + 1 => (u > main' <=> u > main)
      BY <2>1
    <3>2. \A u \in Sem!Ids : ~(u + Threads[app] <= main') /\ ~(u + Threads[app] <= main)
      BY <2>1
    <3> QED BY <1>0, <2>1, <3>1, <3>2, SemTop DEF SemWhere, Moved
  <2>4. \A u \in Sem!Ids : u # main + 1 => File(u)' = File(u)
    BY <1>0, <2>1 DEF File, Sem!Val, Sem!FileOf, Moved
  <2>5. SemMutex'
    BY <1>0, <2>1, SemTop DEF SemMutex, Moved
  <2>6. SemFileLocks'
    BY <1>0, <2>1, <2>4, SemTop DEF SemFileLocks, Moved
  <2> QED BY <2>2, <2>3, <2>5, <2>6
<1>2. CASE Sem!Join
  <2>1. /\ main' = main + 1 /\ main \in Nat /\ main >= Threads[app] /\ main < 2 * Threads[app]
        /\ Threads[app] \in Nat /\ main' \in 0..(2 * Threads[app])
        /\ place[main - Threads[app] + 1] = "ended"
        /\ UNCHANGED <<place, round, register, counter, cnt_mutex, sem, fp>>
    BY <1>2, SemKinds DEF Sem!Join, SemTypes
  <2>2. SemTypes'
    BY <1>0, <2>1 DEF SemTypes, SemLines
  <2>3. SemWhere'
    <3>1. \A u \in Sem!Ids : ~(u > main') /\ ~(u > main)
      BY <2>1 DEF Sem!Ids
    <3>2. \A u \in Sem!Ids : u + Threads[app] <= main' =>
            u + Threads[app] <= main \/ u = main - Threads[app] + 1
      BY <2>1 DEF Sem!Ids
    <3> QED BY <1>0, <2>1, <3>1, <3>2 DEF SemWhere
  <2>4. SemMutex' /\ SemFileLocks'
    BY <1>0, <2>1 DEF SemMutex, SemFileLocks, File, Sem!Val, Sem!FileOf
  <2> QED BY <2>2, <2>3, <2>4
<1>3. ASSUME NEW t \in Sem!Ids, Sem!Thread(t) PROVE SemBase'
  <2>0. /\ main' = main /\ t <= main /\ main < t + Threads[app]
        /\ round[t] \in 1..Rounds[app]
        /\ NextIndex(t) \in 1..Rounds[app]
        /\ NextPlace(t) \in {"lock", "wait", "ended"}
        /\ NextPlace(t) = "lock" => Sem!Counts
        /\ NextPlace(t) = "wait" => Sem!Writes
        /\ NextPlace(t) = "ended" => NextIndex(t) = Rounds[app]
        /\ File(t) \in Sem!Files /\ t \in Nat /\ t > 0
        /\ \A u \in Sem!Ids : File(u) \in Sem!Files /\ u # 0
    <3>1. main' = main /\ t <= main /\ main < t + Threads[app] /\ round[t] \in 1..Rounds[app]
      BY <1>3, SemMoves
    <3> QED BY <3>1, SemTop, SemKinds DEF NextIndex, NextPlace, File
  <2>1. ASSUME NEW l \in SemPlaces \ {"new"}, NEW i \in 1..Rounds[app], NEW v, Moved(t, l, i, v),
               (v = register[t] /\ i = round[t]) \/ l \notin {"print", "post"}
        PROVE  /\ \A u \in Sem!Ids : u # t \/ l \in {"print", "post"} => File(u)' = File(u)
               /\ l \notin {"print", "post"} /\ place[t] \notin {"print", "post"} /\ sem' = sem =>
                    SemFileLocks'
               /\ l \notin {"read", "store", "unlock"} /\ counter' = counter
                    /\ (cnt_mutex' = cnt_mutex \/ cnt_mutex = t) => SemMutex'
    <3>1. \A u \in Sem!Ids : u # t \/ l \in {"print", "post"} => File(u)' = File(u)
      BY <1>0, <2>1 DEF File, Sem!Val, Sem!FileOf, Moved
    <3>2. ASSUME l \notin {"print", "post"}, place[t] \notin {"print", "post"}, sem' = sem
          PROVE  SemFileLocks'
      BY <1>0, <2>1, <3>1, <3>2 DEF SemFileLocks, Moved
    <3>3. ASSUME l \notin {"read", "store", "unlock"}, counter' = counter,
                 cnt_mutex' = cnt_mutex \/ cnt_mutex = t
          PROVE  SemMutex'
      BY <1>0, <2>1, <3>3 DEF SemMutex, Moved
    <3> QED BY <3>1, <3>2, <3>3
  <2>2. CASE Sem!Lock(t)
    <3>1. /\ Moved(t, "read", round[t], register[t])
          /\ place[t] = "lock" /\ cnt_mutex = 0 /\ cnt_mutex' = t
          /\ UNCHANGED <<counter, sem, fp>>
      BY <1>3, <2>2, SemMoves DEF Sem!Lock
    <3>2. SemTypes'
      BY <1>0, <2>0, <3>1 DEF SemTypes, SemLines, Moved
    <3>3. SemWhere'
      BY <1>0, <2>0, <3>1, SemWhereStep DEF SemPlaces, SemWhere
    <3>4. SemMutex'
      BY <1>0, <2>0, <3>1 DEF SemMutex, Moved
    <3>5. SemFileLocks'
      BY <2>0, <2>1, <3>1 DEF SemPlaces
    <3> QED BY <3>2, <3>3, <3>4, <3>5
  <2>3. CASE Sem!ReadCounter(t)
    <3>1. /\ Moved(t, "store", round[t], counter)
          /\ place[t] = "read" /\ cnt_mutex = t
          /\ UNCHANGED <<cnt_mutex, counter, sem, fp>>
      BY <1>3, <2>3, SemMoves DEF Sem!ReadCounter, SemMutex
    <3>2. SemTypes'
      BY <1>0, <2>0, <3>1 DEF SemTypes, SemLines, Moved
    <3>3. SemWhere'
      BY <1>0, <2>0, <3>1, SemWhereStep DEF SemPlaces, SemWhere
    <3>4. SemMutex'
      BY <1>0, <2>0, <3>1 DEF SemMutex, Moved
    <3>5. SemFileLocks'
      BY <2>0, <2>1, <3>1 DEF SemPlaces
    <3> QED BY <3>2, <3>3, <3>4, <3>5
  <2>4. CASE Sem!StoreCounter(t)
    <3>1. /\ Moved(t, "unlock", round[t], register[t])
          /\ place[t] = "store" /\ cnt_mutex = t
          /\ counter' \in Nat /\ counter' > 0
          /\ UNCHANGED <<cnt_mutex, sem, fp>>
      BY <1>3, <2>4, SemMoves DEF Sem!StoreCounter, SemMutex, SemTypes
    <3>2. SemTypes'
      BY <1>0, <2>0, <3>1 DEF SemTypes, SemLines, Moved
    <3>3. SemWhere'
      BY <1>0, <2>0, <3>1, SemWhereStep DEF SemPlaces, SemWhere
    <3>4. SemMutex'
      BY <1>0, <2>0, <3>1 DEF SemMutex, Moved
    <3>5. SemFileLocks'
      BY <2>0, <2>1, <3>1 DEF SemPlaces
    <3> QED BY <3>2, <3>3, <3>4, <3>5
  <2>5. CASE Sem!ReadAndUnlock(t)
    <3>1. PICK l \in {"lock", "wait", "ended"}, i \in 1..Rounds[app] :
          /\ Moved(t, l, i, counter)
          /\ l = "lock" => Sem!Counts
          /\ l = "wait" => Sem!Writes
          /\ l = "ended" => i = Rounds[app]
      BY <1>3, <2>0, <2>5, SemMoves
    <3>2. /\ place[t] = "unlock" /\ cnt_mutex = t /\ cnt_mutex' = 0
          /\ UNCHANGED <<counter, sem, fp>>
      BY <2>5 DEF Sem!ReadAndUnlock, SemMutex
    <3>3. SemTypes'
      BY <1>0, <2>0, <3>1, <3>2 DEF SemTypes, SemLines, Moved
    <3>4. SemWhere'
      BY <1>0, <2>0, <3>1, SemWhereStep DEF SemPlaces
    <3>5. SemMutex' /\ SemFileLocks'
      BY <2>0, <2>1, <3>1, <3>2 DEF SemPlaces
    <3> QED BY <3>3, <3>4, <3>5
  <2>6. CASE Sem!Wait(t)
    <3>1. /\ Moved(t, "print", round[t], register[t])
          /\ place[t] = "wait" /\ sem[File(t)] > 0
          /\ sem' = [sem EXCEPT ![File(t)] = @ - 1]
          /\ UNCHANGED <<cnt_mutex, counter, fp>>
      BY <1>3, <2>6, SemMoves DEF Sem!Wait, File
    <3>2. sem[File(t)] = 1 /\ sem' = [sem EXCEPT ![File(t)] = 0]
      <4>1. sem[File(t)] \in {0, 1}
        BY <2>0 DEF SemTypes
      <4>2. sem[File(t)] = 1 /\ sem[File(t)] - 1 = 0
        BY <3>1, <4>1
      <4> QED BY <3>1, <4>2
    <3>3. SemTypes'
      BY <1>0, <2>0, <3>1, <3>2 DEF SemTypes, SemLines, Moved
    <3>4. SemWhere'
      BY <1>0, <2>0, <3>1, SemWhereStep DEF SemPlaces, SemWhere
    <3>5. \A f \in Sem!Files : sem'[f] = IF f = File(t) THEN 0 ELSE sem[f]
      BY <3>2 DEF SemTypes
    <3>6. \A u \in Sem!Ids : File(u)' = File(u)
      BY <2>0, <2>1, <3>1 DEF SemPlaces
    <3>7. \A u \in Sem!Ids : place[u] \in {"print", "post"} => File(u) # File(t)
      BY <3>2 DEF SemFileLocks
    <3>8. SemFileLocks'
      <4>1. \A u \in Sem!Ids : u # t => place'[u] = place[u] /\ File(u)' = File(u)
        BY <3>1, <3>6 DEF Moved
      <4>2. \A u \in Sem!Ids : u # t /\ place[u] \in {"print", "post"} => sem'[File(u)] = 0
        BY <2>0, <3>5, <3>7 DEF SemFileLocks
      <4>3. place'[t] \in {"print", "post"} => File(t)' = File(t) /\ sem'[File(t)] = 0
        BY <2>0, <3>1, <3>5, <3>6 DEF Moved
      <4> QED BY <1>0, <3>7, <4>1, <4>2, <4>3, SemFileStep
    <3>9. SemMutex'
      BY <2>0, <2>1, <3>1 DEF SemPlaces
    <3> QED BY <3>3, <3>4, <3>8, <3>9
  <2>7. CASE Sem!WriteLine(t)
    <3>1. /\ Moved(t, "post", round[t], register[t]) /\ place[t] = "print"
          /\ fp' = [fp EXCEPT ![File(t)] = Append(@, [thread |-> t, value |-> Sem!Val(t)])]
          /\ UNCHANGED <<counter, cnt_mutex, sem>>
      BY <1>3, <2>7, SemMoves DEF Sem!WriteLine, File
    <3>2. fp' \in [Sem!Files -> Seq(SemLines)]
      <4>1. [thread |-> t, value |-> Sem!Val(t)] \in SemLines
        BY SemKinds DEF SemLines
      <4>2. Append(fp[File(t)], [thread |-> t, value |-> Sem!Val(t)]) \in Seq(SemLines)
        BY <2>0, <4>1 DEF SemTypes
      <4> QED BY <2>0, <3>1, <4>2 DEF SemTypes
    <3>3. SemTypes'
      BY <1>0, <2>0, <3>1, <3>2 DEF SemTypes, SemLines, Moved
    <3>4. SemWhere'
      BY <1>0, <2>0, <3>1, SemWhereStep DEF SemPlaces, SemWhere
    <3>5. \A u \in Sem!Ids : File(u)' = File(u)
      BY <2>0, <2>1, <3>1 DEF SemPlaces
    <3>6. SemFileLocks'
      <4>1. \A u \in Sem!Ids : u # t => place'[u] = place[u]
        BY <3>1 DEF Moved
      <4>2. sem' = sem /\ place[t] = "print"
        BY <3>1
      <4> QED BY <1>0, <3>5, <4>1, <4>2, SemFileStep DEF SemFileLocks
    <3>7. SemMutex'
      BY <2>0, <2>1, <3>1 DEF SemPlaces
    <3> QED BY <3>3, <3>4, <3>6, <3>7
  <2>8. CASE Sem!Post(t)
    <3>1. /\ Moved(t, NextPlace(t), NextIndex(t), register[t])
          /\ place[t] = "post" /\ sem' = [sem EXCEPT ![File(t)] = @ + 1]
          /\ UNCHANGED <<counter, cnt_mutex, fp>>
      BY <1>3, <2>8, SemMoves DEF Sem!Post, File
    <3>2. sem[File(t)] = 0 /\ sem' = [sem EXCEPT ![File(t)] = 1]
      <4>1. sem[File(t)] = 0
        BY <3>1 DEF SemFileLocks
      <4> QED BY <3>1, <4>1
    <3>3. SemTypes'
      BY <1>0, <2>0, <3>1, <3>2 DEF SemTypes, SemLines, Moved
    <3>4. SemWhere'
      BY <1>0, <2>0, <3>1, SemWhereStep DEF SemPlaces
    <3>5. \A f \in Sem!Files : sem'[f] = IF f = File(t) THEN 1 ELSE sem[f]
      BY <3>2 DEF SemTypes
    <3>6. \A u \in Sem!Ids : u # t => File(u)' = File(u)
      BY <2>0, <2>1, <3>1 DEF SemPlaces
    <3>7. \A u \in Sem!Ids : u # t /\ place[u] \in {"print", "post"} => File(u) # File(t)
      BY <3>1 DEF SemFileLocks
    <3>8. SemFileLocks'
      <4>1. \A u \in Sem!Ids : u # t => place'[u] = place[u] /\ File(u)' = File(u)
        BY <3>1, <3>6 DEF Moved
      <4>2. \A u \in Sem!Ids : u # t /\ place[u] \in {"print", "post"} => sem'[File(u)] = 0
        BY <2>0, <3>5, <3>7 DEF SemFileLocks
      <4>3. place'[t] \in {"print", "post"} => File(t)' = File(t) /\ sem'[File(t)] = 0
        BY <2>0, <3>1, <3>5, <3>6 DEF Moved
      <4> QED BY <1>0, <3>7, <4>1, <4>2, <4>3, SemFileStep
    <3>9. SemMutex'
      BY <2>0, <2>1, <3>1 DEF SemPlaces
    <3> QED BY <3>3, <3>4, <3>8, <3>9
  <2> QED BY <1>3, <2>2, <2>3, <2>4, <2>5, <2>6, <2>7, <2>8 DEF Sem!Thread
<1> QED BY <1>1, <1>2, <1>3 DEF Sem!Next

-----------------------------------------------------------------------------
(* The values and their lines *)

\* t has taken its value and not written it yet.
Holds(t) == place[t] \in {"wait", "print"}
Line(f, k) == fp[f][k]

\* No value of the counter is taken or written twice, and one that is about to
\* be taken is new.
SemValues ==
  Sem!Counts =>
    /\ \A f \in Sem!Files : \A k \in 1..Len(fp[f]) :
         /\ Line(f, k).value \in 1..counter /\ Sem!FileOf(Line(f, k).value) = f
         /\ \A j \in 1..Len(fp[f]) : j # k => Line(f, j).value # Line(f, k).value
         /\ \A t \in Sem!Ids : Holds(t) => Line(f, k).value # register[t]
         /\ \A t \in Sem!Ids : place[t] = "unlock" => Line(f, k).value < counter
    /\ \A t \in Sem!Ids : Holds(t) =>
         /\ register[t] \in 1..counter
         /\ \A u \in Sem!Ids : Holds(u) /\ u # t => register[u] # register[t]
         /\ \A u \in Sem!Ids : place[u] = "unlock" => register[t] < counter

\* The lines of one thread ascend, and what it will write next is higher.
SemAscends ==
  \A f \in Sem!Files : \A k \in 1..Len(fp[f]) :
    /\ \A j \in 1..Len(fp[f]) :
         j < k /\ Line(f, j).thread = Line(f, k).thread => Line(f, j).value < Line(f, k).value
    /\ IF Sem!Counts
         THEN Holds(Line(f, k).thread) => Line(f, k).value < register[Line(f, k).thread]
         ELSE /\ Line(f, k).value <= round[Line(f, k).thread]
              /\ place[Line(f, k).thread] \notin {"post", "ended"} =>
                   Line(f, k).value < round[Line(f, k).thread]

\* A thread whose line k has come after the higher line j takes no value below
\* that of j any more.
SemOvertakes ==
  Sem!Counts =>
    \A f \in Sem!Files : \A j, k \in 1..Len(fp[f]) :
      j < k /\ Line(f, k).value < Line(f, j).value =>
        /\ Holds(Line(f, k).thread) => Line(f, j).value < register[Line(f, k).thread]
        /\ \A l \in 1..Len(fp[f]) :
             k < l /\ Line(f, l).thread = Line(f, k).thread => Line(f, j).value < Line(f, l).value

SemText == SemValues /\ SemAscends /\ SemOvertakes

LEMMA SemInitText == Sem!Init => SemText
<1> SUFFICES ASSUME Sem!Init PROVE SemText
  OBVIOUS
<1>1. /\ \A f \in Sem!Files : fp[f] = << >>
      /\ \A t \in Sem!Ids : place[t] = "new"
  BY DEF Sem!Init
<1>2. \A f \in Sem!Files : \A k \in 1..Len(fp[f]) : FALSE
  BY <1>1
<1> QED BY <1>1, <1>2 DEF SemText, SemValues, SemAscends, SemOvertakes, Holds

LEMMA SemLineType ==
  ASSUME SemTypes, NEW f \in Sem!Files, NEW k \in 1..Len(fp[f])
  PROVE  Line(f, k).thread \in Sem!Ids /\ Line(f, k).value \in Nat
<1>1. fp[f] \in Seq(SemLines)
  BY DEF SemTypes
<1>2. fp[f][k] \in SemLines
  BY <1>1
<1> QED BY <1>2 DEF Line, SemLines

LEMMA SemRoundType == ASSUME SemTypes, NEW t \in Sem!Ids PROVE round[t] \in Nat
  BY SemKinds DEF SemTypes

\* A round is over when it has begun: its line is the thread's last.
LEMMA SemRoundStep ==
  ASSUME NEW t \in Sem!Ids, NEW u \in Sem!Ids, NEW l, NEW i, NEW v, Moved(t, l, i, v),
         round[u] \in Nat, i \in Nat, NEW w \in Nat, w <= round[u],
         place[u] \notin {"post", "ended"} => w < round[u],
         \/ i > round[t]
         \/ i = round[t] /\ (place[t] \in {"post", "ended"} => l \in {"post", "ended"})
  PROVE  w <= round'[u] /\ (place'[u] \notin {"post", "ended"} => w < round'[u])
<1>1. CASE u = t
  <2>1. round'[u] = i /\ place'[u] = l
    BY <1>1 DEF Moved
  <2> HIDE DEF Moved
  <2> QED BY <1>1, <2>1
<1>2. CASE u # t
  BY <1>2 DEF Moved
<1> QED BY <1>1, <1>2

\* A step that takes no value and writes no line.
LEMMA SemQuiet ==
  ASSUME SemBase, SemText, SemBase', NEW t \in Sem!Ids, NEW l, NEW i, NEW v, Moved(t, l, i, v),
         fp' = fp, counter' = counter, Sem!Ids' = Sem!Ids, Sem!Files' = Sem!Files,
         Sem!Counts' = Sem!Counts, app' = app, l # "unlock",
         Sem!Counts /\ l \in {"wait", "print"} => Holds(t) /\ v = register[t],
         ~Sem!Counts =>
           \/ i > round[t]
           \/ i = round[t] /\ (place[t] \in {"post", "ended"} => l \in {"post", "ended"})
  PROVE  SemText'
<1> USE DEF SemBase, SemText
<1>1. /\ \A f \in Sem!Files : \A k : Line(f, k)' = Line(f, k)
      /\ \A w \in Nat : Sem!FileOf(w)' = Sem!FileOf(w)
      /\ \A u \in Sem!Ids : Sem!Counts /\ Holds(u)' => Holds(u) /\ register'[u] = register[u]
      /\ \A u \in Sem!Ids : place'[u] = "unlock" => place[u] = "unlock"
  BY DEF Line, Sem!FileOf, Holds, Moved
<1>2. SemValues'
  BY <1>1, SemLineType DEF SemValues
<1>3. SemAscends'
  <2>1. ASSUME NEW f \in Sem!Files, NEW k \in 1..Len(fp[f]), ~Sem!Counts
        PROVE  /\ Line(f, k).value <= round'[Line(f, k).thread]
               /\ place'[Line(f, k).thread] \notin {"post", "ended"} =>
                    Line(f, k).value < round'[Line(f, k).thread]
    <3> DEFINE u == Line(f, k).thread
               w == Line(f, k).value
    <3>1. u \in Sem!Ids /\ w \in Nat /\ round[u] \in Nat
      BY SemLineType, SemRoundType
    <3>2. w <= round[u] /\ (place[u] \notin {"post", "ended"} => w < round[u])
      BY <2>1 DEF SemAscends
    <3>3. i \in Nat
      BY SemKinds DEF Moved
    <3> HIDE DEF u, w
    <3>4. w <= round'[u] /\ (place'[u] \notin {"post", "ended"} => w < round'[u])
      BY <2>1, <3>1, <3>2, <3>3, SemRoundStep
    <3> QED BY <3>4 DEF u, w
  <2> QED BY <1>1, <2>1, SemLineType DEF SemAscends
<1>4. SemOvertakes'
  BY <1>1, SemLineType DEF SemOvertakes
<1> QED BY <1>2, <1>3, <1>4

\* A value is there to be taken.
LEMMA SemStoreText ==
  ASSUME SemBase, SemText, SemBase', NEW t \in Sem!Ids, Sem!StoreCounter(t),
         Moved(t, "unlock", round[t], register[t]), Sem!Ids' = Sem!Ids,
         Sem!Files' = Sem!Files, Sem!Counts' = Sem!Counts, app' = app
  PROVE  SemText'
<1> USE DEF SemText
<1>0. SemTypes /\ SemMutex /\ SemMutex' /\ SemWhere
  BY DEF SemBase
<1>1. /\ counter \in Nat /\ counter' = counter + 1 /\ fp' = fp /\ place[t] = "store"
      /\ cnt_mutex = t /\ cnt_mutex' = t /\ Sem!Counts
  BY <1>0 DEF Sem!StoreCounter, SemMutex, SemTypes, SemWhere
<1>2. /\ \A f \in Sem!Files : \A k : Line(f, k)' = Line(f, k)
      /\ \A w \in Nat : Sem!FileOf(w)' = Sem!FileOf(w)
      /\ \A u \in Sem!Ids : Holds(u)' => Holds(u) /\ register'[u] = register[u]
      /\ \A u \in Sem!Ids : place'[u] = "unlock" => u = t
  BY <1>0, <1>1 DEF Line, Sem!FileOf, Holds, Moved, SemMutex
<1>3. SemValues'
  <2>1. ASSUME NEW f \in Sem!Files, NEW k \in 1..Len(fp[f])
        PROVE  Line(f, k).value \in 1..counter' /\ Line(f, k).value < counter'
    BY <1>0, <1>1, SemLineType DEF SemValues
  <2>2. ASSUME NEW u \in Sem!Ids, Holds(u) PROVE register[u] \in 1..counter' /\ register[u] < counter'
    BY <1>1, <2>2 DEF SemValues
  <2> QED BY <1>0, <1>1, <1>2, <2>1, <2>2, SemLineType DEF SemValues
<1>4. SemAscends'
  BY <1>0, <1>1, <1>2, SemLineType DEF SemAscends
<1>5. SemOvertakes'
  BY <1>0, <1>1, <1>2, SemLineType DEF SemOvertakes
<1> QED BY <1>3, <1>4, <1>5

\* The value that was there is taken.
LEMMA SemTakeText ==
  ASSUME SemBase, SemText, SemBase', NEW t \in Sem!Ids, Sem!ReadAndUnlock(t),
         NEW l, NEW i, Moved(t, l, i, counter), l # "unlock", Sem!Ids' = Sem!Ids,
         Sem!Files' = Sem!Files, Sem!Counts' = Sem!Counts, app' = app
  PROVE  SemText'
<1> USE DEF SemText
<1>0. SemTypes /\ SemMutex /\ SemMutex' /\ SemWhere
  BY DEF SemBase
<1>1. /\ counter \in Nat /\ counter' = counter /\ counter > 0 /\ fp' = fp
      /\ place[t] = "unlock" /\ Sem!Counts /\ cnt_mutex' = 0
      /\ \A u \in Sem!Ids : u # 0
  BY <1>0, SemKinds DEF Sem!ReadAndUnlock, SemMutex, SemTypes, SemWhere
<1>2. /\ \A f \in Sem!Files : \A k : Line(f, k)' = Line(f, k)
      /\ \A w \in Nat : Sem!FileOf(w)' = Sem!FileOf(w)
      /\ \A u \in Sem!Ids : u # t => (Holds(u)' <=> Holds(u)) /\ register'[u] = register[u]
      /\ register'[t] = counter
      /\ \A u \in Sem!Ids : place'[u] # "unlock"
  BY <1>0, <1>1 DEF Line, Sem!FileOf, Holds, Moved, SemMutex
<1>3. /\ \A f \in Sem!Files : \A k \in 1..Len(fp[f]) : Line(f, k).value < counter
      /\ \A u \in Sem!Ids : Holds(u) => register[u] < counter
  BY <1>1 DEF SemValues
<1>4. SemValues'
  <2>1. ASSUME NEW f \in Sem!Files, NEW k \in 1..Len(fp[f]), NEW u \in Sem!Ids, Holds(u)'
        PROVE  Line(f, k).value # register'[u]
    <3>1. Line(f, k).value # counter
      BY <1>0, <1>1, <1>3, SemLineType
    <3> QED BY <1>1, <1>2, <2>1, <3>1 DEF SemValues
  <2>2. ASSUME NEW u \in Sem!Ids, Holds(u)'
        PROVE  register'[u] \in 1..counter
    BY <1>1, <1>2, <2>2 DEF SemValues
  <2>3. ASSUME NEW u \in Sem!Ids, NEW w \in Sem!Ids, Holds(u)', Holds(w)', u # w
        PROVE  register'[u] # register'[w]
    <3>1. \A z \in Sem!Ids : Holds(z) => register[z] # counter
      BY <1>1, <1>3 DEF SemValues
    <3> QED BY <1>1, <1>2, <2>3, <3>1 DEF SemValues
  <2> QED BY <1>0, <1>1, <1>2, <2>1, <2>2, <2>3, SemLineType DEF SemValues
<1>5. SemAscends'
  BY <1>0, <1>1, <1>2, <1>3, SemLineType DEF SemAscends
<1>6. SemOvertakes'
  BY <1>0, <1>1, <1>2, <1>3, SemLineType, SMTT(30) DEF SemOvertakes
<1> QED BY <1>4, <1>5, <1>6

\* The new line is behind the old ones of its file.
LEMMA SemNewLine ==
  ASSUME SemTypes, NEW t \in Sem!Ids, Sem!WriteLine(t)
  PROVE  /\ \A f \in Sem!Files : Len(fp[f]) \in Nat /\ Len(fp'[f]) \in Nat
         /\ Len(fp'[File(t)]) = Len(fp[File(t)]) + 1
         /\ \A f \in Sem!Files : f # File(t) => Len(fp'[f]) = Len(fp[f])
         /\ \A f \in Sem!Files : \A k \in 1..Len(fp'[f]) :
              \/ k \in 1..Len(fp[f]) /\ Line(f, k)' = Line(f, k)
              \/ /\ f = File(t) /\ k = Len(fp[f]) + 1
                 /\ (Line(f, k).thread)' = t /\ (Line(f, k).value)' = Sem!Val(t)
<1> DEFINE new == [thread |-> t, value |-> Sem!Val(t)]
           g == File(t)
<1>1. g \in Sem!Files /\ new \in SemLines
  BY SemKinds DEF File, SemLines
<1>2. new.thread = t /\ new.value = Sem!Val(t)
  OBVIOUS
<1>3. fp' = [fp EXCEPT ![g] = Append(fp[g], new)]
  BY DEF Sem!WriteLine, File
<1> HIDE DEF new, g
<1>4. fp'[g] = Append(fp[g], new) /\ \A f \in Sem!Files : f # g => fp'[f] = fp[f]
  BY <1>1, <1>3 DEF SemTypes
<1>5. \A f \in Sem!Files : fp[f] \in Seq(SemLines) /\ Len(fp[f]) \in Nat
  BY DEF SemTypes
<1>6. /\ Len(fp'[g]) = Len(fp[g]) + 1
      /\ \A k \in 1..Len(fp[g]) : fp'[g][k] = fp[g][k]
      /\ fp'[g][Len(fp[g]) + 1] = new
  BY <1>1, <1>4, <1>5
<1>7. ASSUME NEW f \in Sem!Files, NEW k \in 1..Len(fp'[f])
      PROVE  \/ k \in 1..Len(fp[f]) /\ Line(f, k)' = Line(f, k)
             \/ /\ f = g /\ k = Len(fp[f]) + 1
                /\ (Line(f, k).thread)' = t /\ (Line(f, k).value)' = Sem!Val(t)
  <2>1. CASE f # g
    BY <1>4, <1>7, <2>1 DEF Line
  <2>2. CASE f = g /\ k = Len(fp[f]) + 1
    BY <1>2, <1>6, <2>2 DEF Line
  <2>3. CASE f = g /\ k # Len(fp[f]) + 1
    <3>1. k \in 1..Len(fp[g])
      BY <1>1, <1>5, <1>6, <1>7, <2>3
    <3> QED BY <1>6, <2>3, <3>1 DEF Line
  <2> QED BY <2>1, <2>2, <2>3
<1> QED BY <1>1, <1>4, <1>5, <1>6, <1>7 DEF g

\* The line that t writes holds the value that t held.
LEMMA SemWriteText ==
  ASSUME SemBase, SemText, SemBase', NEW t \in Sem!Ids, Sem!WriteLine(t),
         Moved(t, "post", round[t], register[t]), Sem!Ids' = Sem!Ids,
         Sem!Files' = Sem!Files, Sem!Counts' = Sem!Counts, app' = app
  PROVE  SemText'
<1> USE DEF SemText
<1> DEFINE x == Sem!Val(t)
           g == File(t)
<1>0. SemTypes /\ SemTypes'
  BY DEF SemBase
<1>1. /\ place[t] = "print" /\ counter' = counter /\ counter \in Nat /\ x \in Nat
      /\ (Sem!Counts => x = register[t]) /\ (~Sem!Counts => x = round[t])
      /\ g = Sem!FileOf(x) /\ g \in Sem!Files
  BY <1>0, SemKinds DEF Sem!WriteLine, Sem!Val, SemTypes, File
<1>2. /\ \A w \in Nat : Sem!FileOf(w)' = Sem!FileOf(w)
      /\ \A u \in Sem!Ids : Holds(u)' <=> Holds(u) /\ u # t
      /\ \A u \in Sem!Ids : register'[u] = register[u] /\ round'[u] = round[u]
      /\ \A u \in Sem!Ids : place'[u] = "unlock" => place[u] = "unlock"
      /\ place'[t] = "post" /\ \A u \in Sem!Ids : u # t => place'[u] = place[u]
  BY <1>1 DEF Sem!FileOf, Holds, Moved
<1> DEFINE th(f, k) == (Line(f, k).thread)'
           va(f, k) == (Line(f, k).value)'
<1>3. ASSUME NEW f \in Sem!Files, NEW k \in 1..Len(fp'[f])
      PROVE  \/ /\ k \in 1..Len(fp[f])
                /\ th(f, k) = Line(f, k).thread /\ va(f, k) = Line(f, k).value
             \/ /\ f = g /\ k = Len(fp[f]) + 1
                /\ th(f, k) = t /\ va(f, k) = x
  BY <1>0, SemNewLine
<1>4. \A f \in Sem!Files : Len(fp[f]) \in Nat /\ Len(fp'[f]) \in Nat
  BY <1>0, SemNewLine
<1> HIDE DEF x, g, th, va
<1>5. \A f \in Sem!Files : \A k \in 1..Len(fp'[f]) : th(f, k) \in Sem!Ids /\ va(f, k) \in Nat
  BY <1>0, <1>1, <1>3, SemLineType
<1>6. \A f \in Sem!Files : \A k \in 1..Len(fp'[f]) : \A j \in 1..Len(fp'[f]) :
        j < k => j \in 1..Len(fp[f]) /\ th(f, j) = Line(f, j).thread /\ va(f, j) = Line(f, j).value
  <2> SUFFICES ASSUME NEW f \in Sem!Files, NEW k \in 1..Len(fp'[f]), NEW j \in 1..Len(fp'[f]), j < k
               PROVE  j \in 1..Len(fp[f]) /\ th(f, j) = Line(f, j).thread /\ va(f, j) = Line(f, j).value
    OBVIOUS
  <2>1. k <= Len(fp[f]) + 1 /\ j # Len(fp[f]) + 1
    BY <1>3, <1>4
  <2> QED BY <1>3, <2>1
<1>7. SemValues'
  <2> SUFFICES ASSUME Sem!Counts PROVE SemValues'
    BY DEF SemValues
  <2>1. Holds(t) /\ x = register[t] /\ x \in 1..counter
    BY <1>1 DEF Holds, SemValues
  <2>2. ASSUME NEW f \in Sem!Files, NEW k \in 1..Len(fp'[f])
        PROVE  /\ va(f, k) \in 1..counter /\ Sem!FileOf(va(f, k)) = f
               /\ \A u \in Sem!Ids : Holds(u) /\ u # t => va(f, k) # register[u]
               /\ \A u \in Sem!Ids : place[u] = "unlock" => va(f, k) < counter
    <3>1. CASE k \in 1..Len(fp[f]) /\ va(f, k) = Line(f, k).value
      BY <3>1 DEF SemValues
    <3>2. CASE f = g /\ va(f, k) = x
      BY <1>1, <2>1, <3>2 DEF SemValues
    <3> QED BY <1>3, <3>1, <3>2
  <2>3. ASSUME NEW f \in Sem!Files, NEW k \in 1..Len(fp'[f]), NEW j \in 1..Len(fp'[f]), j < k
        PROVE  va(f, j) # va(f, k)
    <3>1. j \in 1..Len(fp[f]) /\ va(f, j) = Line(f, j).value
      BY <1>6, <2>3
    <3>2. CASE k \in 1..Len(fp[f]) /\ va(f, k) = Line(f, k).value
      BY <2>3, <3>1, <3>2 DEF SemValues
    <3>3. CASE va(f, k) = x
      BY <2>1, <3>1, <3>3 DEF SemValues
    <3> QED BY <1>3, <3>2, <3>3
  <2>4. ASSUME NEW f \in Sem!Files, NEW k \in 1..Len(fp'[f]), NEW j \in 1..Len(fp'[f]), j # k
        PROVE  va(f, j) # va(f, k)
    <3>1. j < k \/ k < j
      BY <1>4, <2>4
    <3> QED BY <2>3, <3>1
  <2>5. ASSUME NEW u \in Sem!Ids, Holds(u)
        PROVE  /\ register[u] \in 1..counter
               /\ \A w \in Sem!Ids : Holds(w) /\ w # u => register[w] # register[u]
               /\ \A w \in Sem!Ids : place[w] = "unlock" => register[u] < counter
    BY <2>5 DEF SemValues
  <2> QED BY <1>1, <1>2, <2>2, <2>4, <2>5 DEF SemValues, va
<1>8. SemAscends'
  <2>1. ASSUME NEW f \in Sem!Files, NEW k \in 1..Len(fp'[f]), NEW j \in 1..Len(fp'[f]),
               j < k, th(f, j) = th(f, k)
        PROVE  va(f, j) < va(f, k)
    <3>1. j \in 1..Len(fp[f]) /\ th(f, j) = Line(f, j).thread /\ va(f, j) = Line(f, j).value
      BY <1>6, <2>1
    <3>2. CASE k \in 1..Len(fp[f]) /\ th(f, k) = Line(f, k).thread /\ va(f, k) = Line(f, k).value
      BY <2>1, <3>1, <3>2 DEF SemAscends
    <3>3. CASE th(f, k) = t /\ va(f, k) = x
      BY <1>1, <2>1, <3>1, <3>3 DEF SemAscends, Holds
    <3> QED BY <1>3, <3>2, <3>3
  <2>2. ASSUME NEW f \in Sem!Files, NEW k \in 1..Len(fp'[f])
        PROVE  IF Sem!Counts
                 THEN Holds(th(f, k)) /\ th(f, k) # t => va(f, k) < register[th(f, k)]
                 ELSE /\ va(f, k) <= round[th(f, k)]
                      /\ th(f, k) # t /\ place[th(f, k)] \notin {"post", "ended"} =>
                           va(f, k) < round[th(f, k)]
    <3>1. CASE k \in 1..Len(fp[f]) /\ th(f, k) = Line(f, k).thread /\ va(f, k) = Line(f, k).value
      BY <3>1 DEF SemAscends
    <3>2. CASE th(f, k) = t /\ va(f, k) = x
      BY <1>1, <3>2
    <3> QED BY <1>3, <3>1, <3>2
  <2> QED BY <1>1, <1>2, <1>5, <2>1, <2>2 DEF SemAscends, va, th
<1>9. SemOvertakes'
  <2> SUFFICES ASSUME Sem!Counts PROVE SemOvertakes'
    BY DEF SemOvertakes
  <2>1. ASSUME NEW f \in Sem!Files, NEW j \in 1..Len(fp'[f]), NEW k \in 1..Len(fp'[f]),
               j < k, va(f, k) < va(f, j), Holds(th(f, k)), th(f, k) # t
        PROVE  va(f, j) < register[th(f, k)]
    <3>1. j \in 1..Len(fp[f]) /\ va(f, j) = Line(f, j).value
      BY <1>6, <2>1
    <3>2. k \in 1..Len(fp[f]) /\ th(f, k) = Line(f, k).thread /\ va(f, k) = Line(f, k).value
      BY <1>3, <2>1
    <3> QED BY <2>1, <3>1, <3>2 DEF SemOvertakes
  <2>2. ASSUME NEW f \in Sem!Files, NEW j \in 1..Len(fp'[f]), NEW k \in 1..Len(fp'[f]),
               NEW l \in 1..Len(fp'[f]), j < k, k < l, va(f, k) < va(f, j), th(f, l) = th(f, k)
        PROVE  va(f, j) < va(f, l)
    <3>1. j \in 1..Len(fp[f]) /\ va(f, j) = Line(f, j).value
      BY <1>6, <2>2
    <3>2. k \in 1..Len(fp[f]) /\ th(f, k) = Line(f, k).thread /\ va(f, k) = Line(f, k).value
      BY <1>6, <2>2
    <3>3. CASE l \in 1..Len(fp[f]) /\ th(f, l) = Line(f, l).thread /\ va(f, l) = Line(f, l).value
      BY <2>2, <3>1, <3>2, <3>3 DEF SemOvertakes
    <3>4. CASE th(f, l) = t /\ va(f, l) = x
      BY <1>1, <2>2, <3>1, <3>2, <3>4 DEF SemOvertakes, Holds
    <3> QED BY <1>3, <3>3, <3>4
  <2> QED BY <1>1, <1>2, <1>5, <2>1, <2>2 DEF SemOvertakes, va, th
<1> QED BY <1>7, <1>8, <1>9

LEMMA SemTextStep ==
  ASSUME SemBase, SemText, Sem!Next
  PROVE  SemText'
<1>0. /\ app' = app /\ Sem!Ids' = Sem!Ids /\ Sem!Files' = Sem!Files /\ Sem!Counts' = Sem!Counts
      /\ SemTypes /\ SemWhere /\ SemBase'
  BY SemUnchanged, SemBaseStep DEF SemBase
<1>1. CASE Sem!Create
  <2>1. /\ main + 1 \in Sem!Ids /\ Moved(main + 1, Sem!Top, 1, 1)
        /\ fp' = fp /\ counter' = counter
    BY <1>0, <1>1, SemCreateMoves
  <2>2. round[main + 1] = 0
    <3>1. main + 1 > main
      BY <1>0, SemKinds DEF SemTypes
    <3> QED BY <1>0, <2>1, <3>1 DEF SemWhere
  <2> QED BY <1>0, <2>1, <2>2, SemTop, SemQuiet
<1>2. CASE Sem!Join
  BY <1>0, <1>2 DEF Sem!Join, SemText, SemValues, SemAscends, SemOvertakes, Holds, Line, Sem!FileOf
<1>3. ASSUME NEW t \in Sem!Ids, Sem!Thread(t) PROVE SemText'
  <2>1. /\ Sem!Lock(t) => Moved(t, "read", round[t], register[t])
        /\ Sem!ReadCounter(t) => Moved(t, "store", round[t], counter)
        /\ Sem!StoreCounter(t) => Moved(t, "unlock", round[t], register[t])
        /\ Sem!ReadAndUnlock(t) /\ Sem!Writes => Moved(t, "wait", round[t], counter)
        /\ Sem!ReadAndUnlock(t) /\ ~Sem!Writes => Moved(t, NextPlace(t), NextIndex(t), counter)
        /\ Sem!Wait(t) => Moved(t, "print", round[t], register[t])
        /\ Sem!WriteLine(t) => Moved(t, "post", round[t], register[t])
        /\ Sem!Post(t) => Moved(t, NextPlace(t), NextIndex(t), register[t])
    BY <1>0, <1>3, SemMoves
  <2>2. /\ round[t] \in Nat
        /\ NextPlace(t) \in {"lock", "wait", "ended"}
        /\ Sem!Counts => NextPlace(t) \in {"lock", "ended"}
        /\ NextIndex(t) > round[t] \/ (NextIndex(t) = round[t] /\ NextPlace(t) = "ended")
    BY <1>0, SemTop, SemRoundType DEF NextPlace, NextIndex
  <2>3. CASE Sem!Lock(t)
    <3>1. fp' = fp /\ counter' = counter /\ place[t] = "lock"
      BY <2>3 DEF Sem!Lock
    <3> QED BY <1>0, <2>1, <2>3, <3>1, SemQuiet
  <2>4. CASE Sem!ReadCounter(t)
    <3>1. fp' = fp /\ counter' = counter /\ place[t] = "read"
      BY <2>4 DEF Sem!ReadCounter
    <3> QED BY <1>0, <2>1, <2>4, <3>1, SemQuiet
  <2>5. CASE Sem!StoreCounter(t)
    BY <1>0, <2>1, <2>5, SemStoreText
  <2>6. CASE Sem!ReadAndUnlock(t)
    BY <1>0, <2>1, <2>2, <2>6, SemTakeText
  <2>7. CASE Sem!Wait(t)
    <3>1. fp' = fp /\ counter' = counter /\ place[t] = "wait"
      BY <2>7 DEF Sem!Wait
    <3> QED BY <1>0, <2>1, <2>7, <3>1, SemQuiet DEF Holds
  <2>8. CASE Sem!WriteLine(t)
    BY <1>0, <2>1, <2>8, SemWriteText
  <2>9. CASE Sem!Post(t)
    <3>1. fp' = fp /\ counter' = counter /\ place[t] = "post"
      BY <2>9 DEF Sem!Post
    <3> QED BY <1>0, <2>1, <2>2, <2>9, <3>1, SemQuiet
  <2> QED BY <1>3, <2>3, <2>4, <2>5, <2>6, <2>7, <2>8, <2>9 DEF Sem!Thread
<1> QED BY <1>1, <1>2, <1>3 DEF Sem!Next

-----------------------------------------------------------------------------
(* The tally *)

\* All turns of all loops, and those that have come to one of the places.
Turns == Sem!Ids \X (1..Rounds[app])
Passed(places) ==
  {d \in Turns : d[2] < round[d[1]] \/ (d[2] = round[d[1]] /\ place[d[1]] \in places)}
Stored == {"unlock", "wait", "print", "post", "ended"}
Printed == {"post", "ended"}
Total == Threads[app] * Rounds[app]
AllLines == {l \in Sem!Files \X (1..Total) : l[2] <= Len(fp[l[1]])}

SemTally ==
  /\ Sem!Counts => counter = Cardinality(Passed(Stored))
  /\ \A f \in Sem!Files : Len(fp[f]) <= Total
  /\ Sem!Writes => Cardinality(AllLines) = Cardinality(Passed(Printed))

LEMMA SemTurns ==
  ASSUME SemTypes
  PROVE  /\ Total \in Nat /\ IsFiniteSet(Turns) /\ Cardinality(Turns) = Total
         /\ IsFiniteSet(Sem!Files \X (1..Total))
<1>1. Threads[app] \in Nat /\ Rounds[app] \in Nat
  BY SemKinds
<1>2. IsFiniteSet(1..Threads[app]) /\ Cardinality(1..Threads[app]) = Threads[app]
  BY <1>1, UpTo
<1>3. IsFiniteSet(1..Rounds[app]) /\ Cardinality(1..Rounds[app]) = Rounds[app]
  BY <1>1, UpTo
<1>4. IsFiniteSet(Turns) /\ Cardinality(Turns) = Total
  <2>1. LET S == 1..Threads[app]
            T == 1..Rounds[app]
        IN  IsFiniteSet(S \X T) /\ Cardinality(S \X T) = Cardinality(S) * Cardinality(T)
    BY <1>2, <1>3, FS_Product
  <2> QED BY <1>2, <1>3, <2>1 DEF Turns, Total, Sem!Ids
<1>5. Total \in Nat
  BY <1>4, FS_CardinalityType
<1>6. IsFiniteSet({0, 1}) /\ IsFiniteSet({0})
  <2>1. IsFiniteSet({0})
    BY FS_Singleton
  <2>2. {0, 1} = {0} \cup {1}
    OBVIOUS
  <2> QED BY <2>1, <2>2, FS_AddElement
<1>7. IsFiniteSet(Sem!Files) /\ IsFiniteSet(1..Total)
  BY <1>5, <1>6, UpTo DEF Sem!Files
<1> QED BY <1>4, <1>5, <1>7, FS_Product

LEMMA SemPassedSame ==
  ASSUME SemTypes, NEW places, NEW t \in Sem!Ids, NEW l, NEW i, NEW v, Moved(t, l, i, v),
         app' = app, Sem!Ids' = Sem!Ids,
         \/ i = round[t] /\ (l \in places <=> place[t] \in places)
         \/ i = round[t] + 1 /\ l \notin places /\ (place[t] \in places \/ round[t] = 0)
  PROVE  Passed(places)' = Passed(places)
<1>1. Turns' = Turns
  BY DEF Turns
<1>2. ASSUME NEW u \in Sem!Ids, NEW r \in 1..Rounds[app]
      PROVE  r < round'[u] \/ (r = round'[u] /\ place'[u] \in places) <=>
             r < round[u] \/ (r = round[u] /\ place[u] \in places)
  <2>1. r \in Nat /\ r > 0 /\ round[t] \in Nat
    BY SemKinds, SemRoundType
  <2>2. CASE u = t
    <3>1. round'[u] = i /\ place'[u] = l
      BY <2>2 DEF Moved
    <3> HIDE DEF Moved
    <3> QED BY <2>1, <2>2, <3>1
  <2>3. CASE u # t
    BY <2>3 DEF Moved
  <2> QED BY <2>2, <2>3
<1>3. \A d \in Turns : d[1] \in Sem!Ids /\ d[2] \in 1..Rounds[app]
  BY DEF Turns
<1>4. \A d \in Turns :
        d[2] < round'[d[1]] \/ (d[2] = round'[d[1]] /\ place'[d[1]] \in places) <=>
        d[2] < round[d[1]] \/ (d[2] = round[d[1]] /\ place[d[1]] \in places)
  BY <1>2, <1>3
<1> QED BY <1>1, <1>4 DEF Passed

LEMMA SemPassedMore ==
  ASSUME SemTypes, NEW places, NEW t \in Sem!Ids, NEW l, NEW v, Moved(t, l, round[t], v),
         app' = app, Sem!Ids' = Sem!Ids, round[t] \in 1..Rounds[app],
         l \in places, place[t] \notin places
  PROVE  /\ Passed(places)' = Passed(places) \cup {<<t, round[t]>>}
         /\ <<t, round[t]>> \in Turns \ Passed(places)
<1>1. Turns' = Turns /\ <<t, round[t]>> \in Turns
  BY DEF Turns
<1>2. ASSUME NEW u \in Sem!Ids, NEW r \in 1..Rounds[app]
      PROVE  r < round'[u] \/ (r = round'[u] /\ place'[u] \in places) <=>
             r < round[u] \/ (r = round[u] /\ place[u] \in places) \/ (u = t /\ r = round[t])
  BY DEF Moved
<1>3. \A d \in Turns : d[1] \in Sem!Ids /\ d[2] \in 1..Rounds[app] /\ d = <<d[1], d[2]>>
  BY DEF Turns
<1>4. \A d \in Turns :
        d[2] < round'[d[1]] \/ (d[2] = round'[d[1]] /\ place'[d[1]] \in places) <=>
        d[2] < round[d[1]] \/ (d[2] = round[d[1]] /\ place[d[1]] \in places) \/ d = <<t, round[t]>>
  BY <1>2, <1>3
<1>5. ~(round[t] < round[t])
  BY SemRoundType
<1> QED BY <1>1, <1>4, <1>5 DEF Passed

LEMMA SemInitTally == Sem!Init => SemTally
<1> SUFFICES ASSUME Sem!Init PROVE SemTally
  OBVIOUS
<1>1. SemTypes /\ SemWhere
  BY SemInitBase DEF SemBase
<1>2. /\ counter = 0 /\ \A t \in Sem!Ids : place[t] = "new" /\ round[t] = 0
      /\ \A f \in Sem!Files : Len(fp[f]) = 0
  BY DEF Sem!Init
<1>3. \A d \in Turns : d[1] \in Sem!Ids /\ d[2] \in Nat /\ d[2] > 0
  BY <1>1, SemKinds DEF Turns
<1>4. Passed(Stored) = {} /\ Passed(Printed) = {}
  BY <1>2, <1>3 DEF Passed
<1>5. AllLines = {}
  BY <1>2 DEF AllLines
<1>6. Cardinality({}) = 0 /\ Total \in Nat
  BY <1>1, FS_EmptySet, SemTurns
<1> QED BY <1>2, <1>4, <1>5, <1>6 DEF SemTally

\* A line more for a turn more.
LEMMA SemTallyLine ==
  ASSUME SemBase, SemTally, NEW t \in Sem!Ids, Sem!WriteLine(t),
         Moved(t, "post", round[t], register[t]), round[t] \in 1..Rounds[app],
         app' = app, Sem!Ids' = Sem!Ids, Sem!Files' = Sem!Files, Sem!Writes
  PROVE  /\ \A f \in Sem!Files : Len(fp'[f]) <= Total
         /\ Cardinality(AllLines') = Cardinality(Passed(Printed)')
<1> DEFINE g == File(t)
           n == Len(fp[g])
           d == <<t, round[t]>>
<1>1. SemTypes /\ place[t] = "print"
  BY DEF SemBase, Sem!WriteLine
<1>2. Passed(Printed)' = Passed(Printed) \cup {d} /\ d \in Turns \ Passed(Printed)
  BY <1>1, SemPassedMore DEF Printed
<1>3. /\ Total \in Nat /\ IsFiniteSet(Turns) /\ Cardinality(Turns) = Total
      /\ IsFiniteSet(Sem!Files \X (1..Total))
  BY <1>1, SemTurns
<1>4. /\ g \in Sem!Files /\ n \in Nat /\ n <= Total
      /\ Len(fp'[g]) = n + 1
      /\ \A f \in Sem!Files : Len(fp[f]) \in Nat /\ (f # g => Len(fp'[f]) = Len(fp[f]))
      /\ Cardinality(AllLines) = Cardinality(Passed(Printed))
  BY <1>1, SemKinds, SemNewLine DEF SemTally, File
<1> HIDE DEF g, n, d
<1>5. IsFiniteSet(Passed(Printed)) /\ Cardinality(Passed(Printed)) < Total
  <2>1. Passed(Printed) \in SUBSET Turns
    BY DEF Passed
  <2>2. /\ IsFiniteSet(Passed(Printed)) /\ Cardinality(Passed(Printed)) <= Total
        /\ Cardinality(Passed(Printed)) # Total
    BY <1>2, <1>3, <2>1, FS_Subset
  <2> QED BY <1>3, <2>2, FS_CardinalityType
<1>6. IsFiniteSet(AllLines)
  BY <1>3, FS_Subset DEF AllLines
<1>7. n < Total
  <2> SUFFICES ASSUME n = Total PROVE FALSE
    BY <1>3, <1>4
  <2>1. {g} \X (1..Total) \in SUBSET AllLines
    BY <1>3, <1>4 DEF AllLines, n
  <2>2. IsFiniteSet({g}) /\ Cardinality({g}) = 1 /\ IsFiniteSet(1..Total) /\ Cardinality(1..Total) = Total
    BY <1>3, FS_Singleton, UpTo
  <2>3. Cardinality({g} \X (1..Total)) = 1 * Total
    <3>1. Cardinality({g} \X (1..Total)) = Cardinality({g}) * Cardinality(1..Total)
      BY <2>2, FS_Product
    <3> QED BY <2>2, <3>1
  <2>4. Total <= Cardinality(AllLines)
    BY <1>3, <1>6, <2>1, <2>3, FS_Subset
  <2> QED BY <1>3, <1>4, <1>5, <2>4, FS_CardinalityType
<1>8. Total' = Total /\ AllLines' = AllLines \cup {<<g, n + 1>>} /\ <<g, n + 1>> \notin AllLines
  <2>1. Total' = Total
    BY DEF Total
  <2>2. ASSUME NEW f \in Sem!Files, NEW k \in 1..Total
        PROVE  k <= Len(fp'[f]) <=> k <= Len(fp[f]) \/ (f = g /\ k = n + 1)
    BY <1>3, <1>4, <1>7 DEF n
  <2>3. \A l \in Sem!Files \X (1..Total) :
          /\ l[1] \in Sem!Files /\ l[2] \in 1..Total
          /\ l = <<g, n + 1>> <=> l[1] = g /\ l[2] = n + 1
    OBVIOUS
  <2>4. <<g, n + 1>> \in Sem!Files \X (1..Total) /\ ~(n + 1 <= n)
    BY <1>3, <1>4, <1>7
  <2>5. \A l \in Sem!Files \X (1..Total) :
          l[2] <= Len(fp'[l[1]]) <=> l[2] <= Len(fp[l[1]]) \/ l = <<g, n + 1>>
    BY <2>2, <2>3
  <2>6. AllLines' = {l \in Sem!Files \X (1..Total) : l[2] <= Len(fp'[l[1]])}
    BY <2>1 DEF AllLines
  <2>7. AllLines' = AllLines \cup {<<g, n + 1>>}
    BY <2>4, <2>5, <2>6 DEF AllLines
  <2>8. <<g, n + 1>> \notin AllLines
    BY <2>4 DEF AllLines, n
  <2> QED BY <2>1, <2>7, <2>8
<1>9. Cardinality(AllLines') = Cardinality(Passed(Printed)')
  <2>1. Cardinality(AllLines \cup {<<g, n + 1>>}) = Cardinality(AllLines) + 1
    BY <1>6, <1>8, FS_AddElement
  <2>2. Cardinality(Passed(Printed) \cup {d}) = Cardinality(Passed(Printed)) + 1
    BY <1>2, <1>5, FS_AddElement
  <2> QED BY <1>2, <1>4, <1>8, <2>1, <2>2
<1>10. \A f \in Sem!Files : Len(fp'[f]) <= Total
  BY <1>3, <1>4, <1>7 DEF SemTally
<1> QED BY <1>9, <1>10

LEMMA SemTallyStep ==
  ASSUME SemBase, SemTally, Sem!Next
  PROVE  SemTally'
<1>0. /\ app' = app /\ Sem!Ids' = Sem!Ids /\ Sem!Files' = Sem!Files
      /\ Sem!Counts' = Sem!Counts /\ Sem!Writes' = Sem!Writes /\ Total' = Total
      /\ SemTypes /\ SemWhere /\ SemMutex
  BY SemUnchanged DEF SemBase, Total
<1>1. fp' = fp => AllLines' = AllLines
  BY <1>0 DEF AllLines
<1>2. ASSUME fp' = fp, counter' = counter,
             Sem!Counts => Passed(Stored)' = Passed(Stored),
             Sem!Writes => Passed(Printed)' = Passed(Printed)
      PROVE  SemTally'
  BY <1>0, <1>1, <1>2 DEF SemTally
<1>3. CASE Sem!Create
  <2>1. /\ main + 1 \in Sem!Ids /\ Moved(main + 1, Sem!Top, 1, 1)
        /\ fp' = fp /\ counter' = counter
    BY <1>0, <1>3, SemCreateMoves
  <2>2. round[main + 1] = 0
    <3>1. main + 1 > main
      BY <1>0, SemKinds DEF SemTypes
    <3> QED BY <1>0, <2>1, <3>1 DEF SemWhere
  <2>3. Sem!Top \notin Printed /\ (Sem!Counts => Sem!Top \notin Stored)
    BY SemTop DEF Printed, Stored
  <2>4. ASSUME NEW places, Sem!Top \notin places PROVE Passed(places)' = Passed(places)
    <3>1. 1 = round[main + 1] + 1
      BY <2>2
    <3> QED BY <1>0, <2>1, <2>2, <2>4, <3>1, SemPassedSame
  <2>5. /\ Passed(Printed)' = Passed(Printed)
        /\ Sem!Counts => Passed(Stored)' = Passed(Stored)
    BY <2>3, <2>4
  <2> QED BY <1>2, <2>1, <2>5
<1>4. CASE Sem!Join
  BY <1>0, <1>2, <1>4 DEF Sem!Join, Passed, Turns
<1>5. ASSUME NEW t \in Sem!Ids, Sem!Thread(t) PROVE SemTally'
  <2>1. /\ Sem!Lock(t) => Moved(t, "read", round[t], register[t])
        /\ Sem!ReadCounter(t) => Moved(t, "store", round[t], counter)
        /\ Sem!StoreCounter(t) => Moved(t, "unlock", round[t], register[t])
        /\ Sem!ReadAndUnlock(t) /\ Sem!Writes => Moved(t, "wait", round[t], counter)
        /\ Sem!ReadAndUnlock(t) /\ ~Sem!Writes => Moved(t, NextPlace(t), NextIndex(t), counter)
        /\ Sem!Wait(t) => Moved(t, "print", round[t], register[t])
        /\ Sem!WriteLine(t) => Moved(t, "post", round[t], register[t])
        /\ Sem!Post(t) => Moved(t, NextPlace(t), NextIndex(t), register[t])
        /\ round[t] \in 1..Rounds[app]
    BY <1>0, <1>5, SemMoves
  <2>2. \/ /\ NextIndex(t) = round[t] + 1
           /\ NextPlace(t) \notin Printed /\ (Sem!Counts => NextPlace(t) \notin Stored)
        \/ NextIndex(t) = round[t] /\ NextPlace(t) = "ended"
    <3>1. Sem!Top \notin Printed /\ (Sem!Counts => Sem!Top \notin Stored)
      BY SemTop DEF Printed, Stored
    <3> QED BY <3>1 DEF NextPlace, NextIndex
  <2>3. ASSUME NEW l, NEW v, Moved(t, l, round[t], v),
               fp' = fp, counter' = counter,
               l \in Stored <=> place[t] \in Stored,
               l \in Printed <=> place[t] \in Printed
        PROVE  SemTally'
    <3>1. Passed(Stored)' = Passed(Stored) /\ Passed(Printed)' = Passed(Printed)
      BY <1>0, <2>3, SemPassedSame
    <3> QED BY <1>2, <2>3, <3>1
  <2>4. CASE Sem!Lock(t)
    BY <2>1, <2>3, <2>4 DEF Sem!Lock, Stored, Printed
  <2>5. CASE Sem!ReadCounter(t)
    BY <2>1, <2>3, <2>5 DEF Sem!ReadCounter, Stored, Printed
  <2>6. CASE Sem!StoreCounter(t)
    <3>1. /\ counter' = counter + 1 /\ fp' = fp /\ place[t] = "store" /\ counter \in Nat
      BY <1>0, <2>6 DEF Sem!StoreCounter, SemMutex, SemTypes
    <3>2. /\ Passed(Stored)' = Passed(Stored) \cup {<<t, round[t]>>}
          /\ <<t, round[t]>> \in Turns \ Passed(Stored)
      BY <1>0, <2>1, <2>6, <3>1, SemPassedMore DEF Stored
    <3>3. Passed(Printed)' = Passed(Printed)
      BY <1>0, <2>1, <2>6, <3>1, SemPassedSame DEF Printed
    <3>4. IsFiniteSet(Passed(Stored))
      BY <1>0, SemTurns, FS_Subset DEF Passed
    <3>5. Cardinality(Passed(Stored)') = Cardinality(Passed(Stored)) + 1
      BY <3>2, <3>4, FS_AddElement
    <3> QED BY <1>0, <1>1, <3>1, <3>3, <3>5 DEF SemTally
  <2>7. CASE Sem!ReadAndUnlock(t)
    <3>1. fp' = fp /\ counter' = counter /\ place[t] = "unlock"
      BY <2>7 DEF Sem!ReadAndUnlock
    <3>2. CASE Sem!Writes
      BY <2>1, <2>3, <2>7, <3>1, <3>2 DEF Stored, Printed
    <3>3. CASE ~Sem!Writes
      <4>1. Sem!Counts => Passed(Stored)' = Passed(Stored)
        BY <1>0, <2>1, <2>2, <2>7, <3>1, <3>3, SemPassedSame DEF Stored
      <4> QED BY <1>2, <3>1, <3>3, <4>1
    <3> QED BY <3>2, <3>3
  <2>8. CASE Sem!Wait(t)
    BY <2>1, <2>3, <2>8 DEF Sem!Wait, Stored, Printed
  <2>9. CASE Sem!WriteLine(t)
    <3>1. counter' = counter /\ place[t] = "print" /\ Sem!Writes
      BY <1>0, <2>9 DEF Sem!WriteLine, SemWhere
    <3>2. Passed(Stored)' = Passed(Stored)
      BY <1>0, <2>1, <2>9, <3>1, SemPassedSame DEF Stored
    <3>3. /\ \A f \in Sem!Files : Len(fp'[f]) <= Total
          /\ Cardinality(AllLines') = Cardinality(Passed(Printed)')
      BY <1>0, <2>1, <2>9, <3>1, SemTallyLine
    <3> QED BY <1>0, <3>1, <3>2, <3>3 DEF SemTally
  <2>10. CASE Sem!Post(t)
    <3>1. fp' = fp /\ counter' = counter /\ place[t] = "post"
      BY <2>10 DEF Sem!Post
    <3>2. Passed(Printed)' = Passed(Printed)
      BY <1>0, <2>1, <2>2, <2>10, <3>1, SemPassedSame DEF Printed
    <3>3. Sem!Counts => Passed(Stored)' = Passed(Stored)
      BY <1>0, <2>1, <2>2, <2>10, <3>1, SemPassedSame DEF Stored
    <3> QED BY <1>2, <3>1, <3>2, <3>3
  <2> QED BY <1>5, <2>4, <2>5, <2>6, <2>7, <2>8, <2>9, <2>10 DEF Sem!Thread
<1> QED BY <1>3, <1>4, <1>5 DEF Sem!Next

-----------------------------------------------------------------------------
(* What the threads' invariants give *)

LEMMA SemCardinality == \A S : Sem!Cardinality(S) = Cardinality(S)
  BY DEF Sem!Cardinality, Cardinality

\* What tells a line from the others.
SemId(l) == IF Sem!Counts THEN fp[l[1]][l[2]].value ELSE fp[l[1]][l[2]]

LEMMA SemLinesOnce ==
  ASSUME SemBase, SemText
  PROVE  \A a, b \in AllLines : a # b => SemId(a) # SemId(b)
<1> SUFFICES ASSUME NEW a \in AllLines, NEW b \in AllLines, a # b
             PROVE  SemId(a) # SemId(b)
  OBVIOUS
<1> USE DEF SemText
<1>0. SemTypes
  BY DEF SemBase
<1>1. ASSUME NEW l \in AllLines
      PROVE  /\ l = <<l[1], l[2]>> /\ l[1] \in Sem!Files /\ l[2] \in 1..Len(fp[l[1]])
             /\ l[2] \in Nat
             /\ fp[l[1]][l[2]] = Line(l[1], l[2])
             /\ Line(l[1], l[2]).value \in Nat
  <2>1. l = <<l[1], l[2]>> /\ l[1] \in Sem!Files /\ l[2] \in 1..Total /\ l[2] <= Len(fp[l[1]])
    BY DEF AllLines
  <2>2. Len(fp[l[1]]) \in Nat /\ Total \in Nat
    BY <1>0, <2>1, SemTurns DEF SemTypes
  <2>3. l[2] \in 1..Len(fp[l[1]]) /\ l[2] \in Nat
    BY <2>1, <2>2
  <2> QED BY <1>0, <2>1, <2>3, SemLineType DEF Line
<1>2. CASE Sem!Counts
  <2>1. CASE a[1] # b[1]
    BY <1>1, <1>2, <2>1 DEF SemValues, SemId
  <2>2. CASE a[1] = b[1]
    <3>1. a[2] # b[2]
      BY <1>1, <2>2
    <3> QED BY <1>1, <1>2, <2>2, <3>1 DEF SemValues, SemId
  <2> QED BY <2>1, <2>2
<1>3. CASE ~Sem!Counts
  <2>1. a[1] = 0 /\ b[1] = 0
    BY <1>1, <1>3 DEF Sem!Counts, Sem!Files
  <2>2. a[2] < b[2] \/ b[2] < a[2]
    BY <1>1, <2>1
  <2> DEFINE la == Line(0, a[2])
             lb == Line(0, b[2])
  <2>3. la.thread = lb.thread => la.value < lb.value \/ lb.value < la.value
    BY <1>1, <2>1, <2>2 DEF SemAscends
  <2>4. la.value \in Nat /\ lb.value \in Nat /\ SemId(a) = la /\ SemId(b) = lb
    BY <1>1, <1>3, <2>1 DEF SemId
  <2> HIDE DEF la, lb
  <2> QED BY <2>3, <2>4
<1> QED BY <1>2, <1>3

LEMMA SemAllPassed ==
  ASSUME SemBase, SemTally, Sem!Joined
  PROVE  /\ Sem!Counts => counter = Total
         /\ Sem!Writes => Cardinality(AllLines) = Total
<1>1. SemTypes /\ SemWhere
  BY DEF SemBase
<1>2. \A t \in Sem!Ids : place[t] = "ended" /\ round[t] = Rounds[app]
  <2>1. \A t \in Sem!Ids : t + Threads[app] <= main
    BY <1>1, SemKinds DEF Sem!Joined, Sem!Ids
  <2> QED BY <1>1, <2>1 DEF SemWhere
<1>3. \A d \in Turns : d[1] \in Sem!Ids /\ d[2] \in 1..Rounds[app]
  BY DEF Turns
<1>4. \A d \in Turns : d[2] < round[d[1]] \/ d[2] = round[d[1]]
  BY <1>1, <1>2, <1>3, SemKinds
<1>5. Passed(Stored) = Turns /\ Passed(Printed) = Turns
  BY <1>2, <1>3, <1>4 DEF Passed, Stored, Printed
<1> QED BY <1>1, <1>5, SemTurns DEF SemTally

LEMMA SemValuesOnce ==
  ASSUME SemBase, SemText, SemTally
  PROVE  Sem!ValuesOnce
<1>0. SemTypes
  BY DEF SemBase
<1>1. \A a, b \in AllLines : a # b => SemId(a) # SemId(b)
  BY SemLinesOnce
<1>2. ASSUME Sem!Joined, app = "sem_write" PROVE {SemId(l) : l \in AllLines} = 1..Total
  <2>1. Sem!Counts /\ Sem!Writes /\ Total \in Nat /\ counter = Total /\ Cardinality(AllLines) = Total
    BY <1>0, <1>2, SemAllPassed, SemTurns DEF Sem!Counts, Sem!Writes
  <2>2. ASSUME NEW l \in AllLines PROVE SemId(l) \in 1..Total
    <3>1. l[1] \in Sem!Files /\ l[2] \in 1..Total /\ l[2] <= Len(fp[l[1]])
      BY DEF AllLines
    <3>2. Len(fp[l[1]]) \in Nat
      BY <1>0, <3>1 DEF SemTypes
    <3>3. l[2] \in 1..Len(fp[l[1]])
      BY <2>1, <3>1, <3>2
    <3> QED BY <2>1, <3>1, <3>3 DEF SemText, SemValues, SemId, Line
  <2> DEFINE h == [l \in AllLines |-> SemId(l)]
  <2>3. h \in Injection(AllLines, 1..Total)
    BY <1>1, <2>2 DEF Injection, IsInjective
  <2>4. IsFiniteSet(1..Total) /\ Cardinality(1..Total) = Total
    BY <2>1, UpTo
  <2>5. h \in Surjection(AllLines, 1..Total)
    BY <2>1, <2>3, <2>4, FS_Injection
  <2>6. \A n \in 1..Total : \E l \in AllLines : h[l] = n
    BY <2>5 DEF Surjection
  <2> QED BY <2>2, <2>6
<1> DEFINE Written == {l \in {<<f, k>> : f \in Sem!Files, k \in 1..Total} : l[2] <= Len(fp[l[1]])}
<1>3. Written = AllLines
  BY DEF AllLines
<1>4. Sem!Joined => /\ Sem!Counts => counter = Total
                    /\ Sem!Writes => Sem!Cardinality(AllLines) = Total
  BY SemAllPassed, SemCardinality
<1> HIDE DEF Written
<1>5. /\ \A a, b \in Written : a # b => SemId(a) # SemId(b)
      /\ Sem!Joined => /\ Sem!Counts => counter = Total
                       /\ Sem!Writes => Sem!Cardinality(Written) = Total
                       /\ app = "sem_write" => {SemId(l) : l \in Written} = 1..Total
  BY <1>1, <1>2, <1>3, <1>4
<1> QED BY <1>5 DEF Sem!ValuesOnce, SemId, Total, Written

LEMMA SemFewOvertake ==
  ASSUME SemBase, SemText
  PROVE  Sem!FewOvertake
<1>0. SemTypes
  BY DEF SemBase
<1> SUFFICES ASSUME NEW f \in Sem!Files, NEW k \in 1..Len(fp[f])
             PROVE  LET Later == {l \in (k + 1)..Len(fp[f]) : fp[f][l].value <= fp[f][k].value}
                    IN  /\ \A l \in Later : fp[f][l].thread # fp[f][k].thread
                        /\ app = "sem_write" => Cardinality(Later) < Threads[app]
  BY SemCardinality DEF Sem!FewOvertake
<1> DEFINE Later == {l \in (k + 1)..Len(fp[f]) : fp[f][l].value <= fp[f][k].value}
           who == Line(f, k).thread
<1>1. Len(fp[f]) \in Nat /\ k \in Nat
  BY <1>0 DEF SemTypes
<1>2. \A l \in Later : /\ l \in 1..Len(fp[f]) /\ k < l
                       /\ Line(f, l).value <= Line(f, k).value
                       /\ Line(f, l).value \in Nat /\ Line(f, l).thread \in Sem!Ids
  BY <1>0, <1>1, SemLineType DEF Line
<1>3. Line(f, k).value \in Nat /\ who \in Sem!Ids
  BY <1>0, SemLineType
<1> HIDE DEF Later, who
<1>4. ASSUME NEW l \in Later PROVE Line(f, l).thread # who
  <2>1. Line(f, l).thread = who => Line(f, k).value < Line(f, l).value
    BY <1>2 DEF SemText, SemAscends, who
  <2> QED BY <1>2, <1>3, <2>1
<1>5. ASSUME app = "sem_write" PROVE Cardinality(Later) < Threads[app]
  <2>0. Sem!Counts
    BY <1>5 DEF Sem!Counts
  <2>1. ASSUME NEW l \in Later, NEW m \in Later, l < m
        PROVE  Line(f, l).thread # Line(f, m).thread
    <3>1. Line(f, l).value # Line(f, k).value
      BY <1>1, <1>2, <2>0 DEF SemText, SemValues
    <3>2. Line(f, l).value < Line(f, k).value
      BY <1>2, <1>3, <3>1
    <3>3. Line(f, m).thread = Line(f, l).thread => Line(f, k).value < Line(f, m).value
      BY <1>2, <2>0, <2>1, <3>2 DEF SemText, SemOvertakes
    <3> QED BY <1>2, <1>3, <3>3
  <2>2. \A l, m \in Later : l # m => l < m \/ m < l
    BY <1>1, <1>2
  <2> DEFINE h == [l \in Later |-> Line(f, l).thread]
             Others == Sem!Ids \ {who}
  <2>3. h \in [Later -> Others]
    BY <1>2, <1>4
  <2>4. h \in Injection(Later, Others)
    BY <2>1, <2>2, <2>3 DEF Injection, IsInjective
  <2>5. Threads[app] \in Nat /\ IsFiniteSet(Sem!Ids) /\ Cardinality(Sem!Ids) = Threads[app]
    BY <1>0, SemKinds, UpTo DEF Sem!Ids
  <2>6. IsFiniteSet(Others) /\ Cardinality(Others) = Threads[app] - 1
    BY <1>3, <2>5, FS_RemoveElement
  <2>7. IsFiniteSet(Later) /\ Cardinality(Later) <= Threads[app] - 1
    BY <2>4, <2>6, FS_Injection
  <2> QED BY <2>5, <2>7, FS_CardinalityType
<1> QED BY <1>4, <1>5 DEF Line, Later, who

-----------------------------------------------------------------------------
(* What a thread has read *)

SemRegs ==
  /\ \A t \in Sem!Ids : register[t] <= counter \/ register[t] <= 1
  /\ ~Sem!Counts => counter = 0

LEMMA SemInitRegs == Sem!Init => SemRegs
<1> SUFFICES ASSUME Sem!Init PROVE SemRegs
  OBVIOUS
<1> QED BY DEF Sem!Init, SemRegs

LEMMA SemRegsStep ==
  ASSUME SemBase, SemRegs, Sem!Next
  PROVE  SemRegs'
<1>0. /\ app' = app /\ Sem!Ids' = Sem!Ids /\ Sem!Counts' = Sem!Counts
      /\ SemTypes /\ SemWhere /\ SemMutex
  BY SemUnchanged DEF SemBase
<1>1. ASSUME NEW t \in Sem!Ids, NEW l, NEW i, NEW v, Moved(t, l, i, v), counter' = counter,
             v = counter \/ v = register[t] \/ v = 1
      PROVE  SemRegs'
  <2>1. \A u \in Sem!Ids : register[u] \in Nat /\ register'[u] \in Nat /\ counter \in Nat
    BY <1>0, <1>1 DEF SemTypes, Moved
  <2> QED BY <1>0, <1>1, <2>1 DEF SemRegs, Moved
<1>2. CASE Sem!Create
  BY <1>0, <1>1, <1>2, SemCreateMoves
<1>3. CASE Sem!Join
  BY <1>0, <1>3 DEF SemRegs, Sem!Join
<1>4. ASSUME NEW t \in Sem!Ids, Sem!Thread(t) PROVE SemRegs'
  <2>1. /\ Sem!Lock(t) => Moved(t, "read", round[t], register[t])
        /\ Sem!ReadCounter(t) => Moved(t, "store", round[t], counter)
        /\ Sem!StoreCounter(t) => Moved(t, "unlock", round[t], register[t])
        /\ Sem!ReadAndUnlock(t) /\ Sem!Writes => Moved(t, "wait", round[t], counter)
        /\ Sem!ReadAndUnlock(t) /\ ~Sem!Writes => Moved(t, NextPlace(t), NextIndex(t), counter)
        /\ Sem!Wait(t) => Moved(t, "print", round[t], register[t])
        /\ Sem!WriteLine(t) => Moved(t, "post", round[t], register[t])
        /\ Sem!Post(t) => Moved(t, NextPlace(t), NextIndex(t), register[t])
    BY <1>0, <1>4, SemMoves
  <2>2. CASE Sem!StoreCounter(t)
    <3>1. counter' = counter + 1 /\ Sem!Counts /\ counter \in Nat
      BY <1>0, <2>2 DEF Sem!StoreCounter, SemMutex, SemWhere, SemTypes
    <3>2. \A u \in Sem!Ids : register'[u] = register[u] /\ register[u] \in Nat
      BY <1>0, <2>1, <2>2 DEF Moved, SemTypes
    <3> QED BY <1>0, <3>1, <3>2 DEF SemRegs
  <2>3. CASE ~Sem!StoreCounter(t)
    <3>1. counter' = counter
      BY <1>4, <2>3 DEF Sem!Thread, Sem!Lock, Sem!ReadCounter, Sem!ReadAndUnlock, Sem!Wait,
                        Sem!WriteLine, Sem!Post
    <3> QED BY <1>1, <1>4, <2>1, <2>3, <3>1 DEF Sem!Thread
  <2> QED BY <2>2, <2>3
<1> QED BY <1>2, <1>3, <1>4 DEF Sem!Next

SemInv == SemBase /\ SemText /\ SemTally /\ SemRegs

LEMMA SemStutter ==
  ASSUME SemInv, UNCHANGED semVars
  PROVE  SemInv'
<1>1. /\ app' = app /\ main' = main /\ place' = place /\ round' = round /\ register' = register
      /\ counter' = counter /\ cnt_mutex' = cnt_mutex /\ sem' = sem /\ fp' = fp
  BY DEF semVars
<1>2. SemBase' = SemBase
  BY <1>1 DEF SemBase, SemTypes, SemWhere, SemMutex, SemFileLocks, SemLines, File,
              Sem!Ids, Sem!Files, Sem!Counts, Sem!Writes, Sem!FileOf, Sem!Val
<1>3. SemText' = SemText
  BY <1>1 DEF SemText, SemValues, SemAscends, SemOvertakes, Holds, Line,
              Sem!Ids, Sem!Files, Sem!Counts, Sem!FileOf
<1>4. SemTally' = SemTally
  BY <1>1 DEF SemTally, Passed, Turns, Total, AllLines,
              Sem!Ids, Sem!Files, Sem!Counts, Sem!Writes
<1>5. SemRegs' = SemRegs
  BY <1>1 DEF SemRegs, Sem!Ids, Sem!Counts
<1> QED BY <1>2, <1>3, <1>4, <1>5 DEF SemInv

LEMMA SemTypeOK ==
  ASSUME SemInv
  PROVE  Sem!TypeOK
<1>1. SemTypes /\ SemTally /\ SemRegs
  BY DEF SemInv, SemBase
<1>2. ASSUME NEW t \in Sem!Ids PROVE register[t] \in 0..Total
  <2>1. Total \in Nat /\ Total >= 1
    <3>1. Threads[app] \in Nat /\ Rounds[app] \in Nat /\ Threads[app] >= 1 /\ Rounds[app] >= 1
      BY <1>1, SemKinds DEF Sem!Ids
    <3>2. 1 * Rounds[app] <= Threads[app] * Rounds[app]
      BY <3>1, MultiplesGrow
    <3> QED BY <1>1, <3>1, <3>2, SemTurns DEF Total
  <2>2. register[t] \in Nat /\ counter \in Nat
    BY <1>1 DEF SemTypes
  <2>3. counter <= Total
    <3>1. CASE Sem!Counts
      <4>1. Passed(Stored) \in SUBSET Turns
        BY DEF Passed
      <4> QED BY <1>1, <3>1, <4>1, SemTurns, FS_Subset DEF SemTally
    <3>2. CASE ~Sem!Counts
      BY <1>1, <2>1, <3>2 DEF SemRegs
    <3> QED BY <3>1, <3>2
  <2> QED BY <1>1, <2>1, <2>2, <2>3 DEF SemRegs
<1> QED BY <1>1, <1>2 DEF Sem!TypeOK, SemTypes, SemPlaces, SemTally, Total

-----------------------------------------------------------------------------
(* The divided loops of Partition *)

\* The odd numbers up to n, where the part of thread t begins, and the products
\* that a row has been through when its thread is done with it.
Half(n) == (n + 1) \div 2
Bound(t) == IF t = NUM_THREADS THEN size ELSE t * Part!Chunk
RoundsDone == IF rounds < MULTIPLICATIONS THEN rounds + 1 ELSE rounds

PartTypes ==
  /\ job \in {"count", "product"} /\ size \in Nat
  /\ created \in 0..NUM_THREADS /\ joined \in 0..created
  /\ cursor \in [Part!Workers -> 0..(size + 2)]
  /\ count \in [Part!Workers -> 0..size]
  /\ total \in Nat /\ copied \in 0..size /\ rounds \in 0..MULTIPLICATIONS
  /\ temp \in [Part!Rows -> 0..MULTIPLICATIONS]
  /\ result \in [Part!Rows -> 0..MULTIPLICATIONS]

\* What has been done when main is at one of its steps.
PartPhases ==
  /\ joined > 0 => created = NUM_THREADS
  /\ copied > 0 => joined = NUM_THREADS
  /\ job = "count" => rounds = 0 /\ copied = 0
  /\ rounds = MULTIPLICATIONS => joined = NUM_THREADS /\ copied = size
  /\ \A t \in Part!Workers : t < joined => ~Part!InRange(t)

\* A thread has counted the odd numbers between its bound and its cursor,
\* main those up to the bound of the threads it has joined.
PartCounts ==
  job = "count" =>
    /\ \A t \in Part!Workers :
         /\ t >= created => count[t] = 0
         /\ t < created => /\ cursor[t] = 2 * (Half(Bound(t)) + count[t]) + 1
                           /\ Half(Bound(t)) + count[t] <= Half(Bound(t + 1))
    /\ total = Half(Bound(joined))

\* The rows behind the cursors are multiplied, those before main's are copied.
PartRows ==
  job = "product" =>
    /\ \A t \in Part!Workers : t < created =>
         /\ Bound(t) <= cursor[t] /\ cursor[t] <= Bound(t + 1)
         /\ \A r \in Part!Rows : Bound(t) <= r /\ r < cursor[t] => temp[r] = RoundsDone
    /\ \A r \in Part!Rows : result[r] = IF r < copied THEN RoundsDone ELSE RoundsDone - 1

PartInv == PartTypes /\ PartPhases /\ PartCounts /\ PartRows

\* The parts follow one another from 0 to the size and leave nothing out.
LEMMA PartChunk ==
  ASSUME size \in Nat
  PROVE  Part!Chunk \in Nat /\ NUM_THREADS * Part!Chunk <= size
  BY PartitionAssumption DEF Part!Chunk

LEMMA PartOf ==
  ASSUME NEW c \in Nat, NEW n \in Nat, NEW r \in Nat, r < n * c
  PROVE  \E t \in Nat : t < n /\ t * c <= r /\ r < (t + 1) * c
<1>1. c > 0 /\ n > 0
  BY MultiplesGrow
<1> DEFINE t == r \div c
<1>2. t \in Nat /\ t * c <= r /\ r < (t + 1) * c
  BY <1>1
<1>3. t < n
  <2> SUFFICES ASSUME n <= t PROVE FALSE
    BY <1>2
  <2>1. n * c <= t * c
    BY <1>2, MultiplesGrow
  <2> HIDE DEF t
  <2> QED BY <1>2, <2>1, Multiples
<1> QED BY <1>2, <1>3

LEMMA PartBounds ==
  ASSUME size \in Nat
  PROVE  /\ NUM_THREADS \in Nat /\ NUM_THREADS > 0 /\ Bound(0) = 0 /\ Bound(NUM_THREADS) = size
         /\ \A t \in 0..NUM_THREADS : Bound(t) \in Nat /\ Bound(t) <= size
         /\ \A t \in Part!Workers :
              /\ t \in Nat /\ t < NUM_THREADS /\ t + 1 \in 0..NUM_THREADS /\ t \in 0..NUM_THREADS
              /\ Bound(t) <= Bound(t + 1) /\ Part!End(t) = Bound(t + 1)
              /\ job = "product" => Part!First(t) = Bound(t)
              /\ job = "count" => Part!First(t) = 2 * Half(Bound(t)) + 1
         /\ \A r \in Part!Rows : \E t \in Part!Workers : Bound(t) <= r /\ r < Bound(t + 1)
<1> DEFINE c == Part!Chunk
<1>1. c \in Nat /\ NUM_THREADS \in Nat /\ NUM_THREADS > 0 /\ NUM_THREADS * c <= size
  BY PartChunk, PartitionAssumption
<1>2. \A t \in Part!Workers : /\ t \in Nat /\ t < NUM_THREADS /\ t + 1 \in 0..NUM_THREADS
                              /\ t \in 0..NUM_THREADS
  BY <1>1 DEF Part!Workers
<1>3. ASSUME NEW t \in 0..NUM_THREADS PROVE t * c \in Nat /\ t * c <= size
  <2>1. t * c <= NUM_THREADS * c /\ t * c \in Nat /\ NUM_THREADS * c \in Nat
    BY <1>1, MultiplesGrow, Multiples
  <2> QED BY <1>1, <2>1
<1> HIDE DEF c
<1>4. ASSUME NEW t \in 0..NUM_THREADS PROVE Bound(t) \in Nat /\ Bound(t) <= size
  BY <1>3, <1>4 DEF Bound, c
<1>5. Bound(0) = 0 /\ Bound(NUM_THREADS) = size
  BY <1>1, Multiples DEF Bound, c
<1>6. ASSUME NEW t \in Part!Workers
      PROVE  /\ Bound(t) <= Bound(t + 1) /\ Part!End(t) = Bound(t + 1)
             /\ job = "product" => Part!First(t) = Bound(t)
             /\ job = "count" => Part!First(t) = 2 * Half(Bound(t)) + 1
  <2>1. t * c \in Nat /\ t * c <= size /\ (t + 1) * c = t * c + c /\ Bound(t) = t * c
    BY <1>1, <1>2, <1>3, Multiples DEF Bound, c
  <2>2. Bound(t) <= Bound(t + 1)
    BY <1>1, <2>1 DEF Bound, c
  <2>3. Part!End(t) = Bound(t + 1)
    BY <1>1, <1>2 DEF Part!End, Bound
  <2>4. job = "product" => Part!First(t) = Bound(t)
    BY <2>1 DEF Part!First, c
  <2>5. job = "count" => Part!First(t) = 2 * Half(Bound(t)) + 1
    <3> DEFINE b == t * c
    <3>1. job = "count" => Part!First(t) = IF (b + 1) % 2 = 0 THEN b + 2 ELSE b + 1
      BY <2>1 DEF Part!First, c
    <3>2. b \in Nat /\ Bound(t) = b
      BY <2>1
    <3> HIDE DEF b
    <3>3. (IF (b + 1) % 2 = 0 THEN b + 2 ELSE b + 1) = 2 * ((b + 1) \div 2) + 1
      BY <3>2
    <3> QED BY <3>1, <3>2, <3>3 DEF Half
  <2> QED BY <2>2, <2>3, <2>4, <2>5
<1>7. ASSUME NEW r \in Part!Rows PROVE \E t \in Part!Workers : Bound(t) <= r /\ r < Bound(t + 1)
  <2>0. r \in Nat /\ r < size /\ NUM_THREADS - 1 \in Nat
    BY <1>1 DEF Part!Rows
  <2>1. CASE r < (NUM_THREADS - 1) * c
    <3>1. PICK t \in Nat : t < NUM_THREADS - 1 /\ t * c <= r /\ r < (t + 1) * c
      BY <1>1, <2>0, <2>1, PartOf
    <3>2. t \in Part!Workers /\ t # NUM_THREADS /\ t + 1 # NUM_THREADS
      BY <1>1, <3>1 DEF Part!Workers
    <3> QED BY <3>1, <3>2 DEF Bound, c
  <2>2. CASE ~(r < (NUM_THREADS - 1) * c)
    <3>1. /\ NUM_THREADS - 1 \in Part!Workers /\ NUM_THREADS - 1 # NUM_THREADS
          /\ NUM_THREADS - 1 + 1 = NUM_THREADS
      BY <1>1 DEF Part!Workers
    <3>2. (NUM_THREADS - 1) * c \in Nat
      BY <1>1, <2>0, Multiples
    <3>3. Bound(NUM_THREADS - 1) = (NUM_THREADS - 1) * c /\ Bound(NUM_THREADS - 1 + 1) = size
      BY <3>1 DEF Bound, c
    <3> QED BY <2>0, <2>2, <3>1, <3>2, <3>3
  <2> QED BY <2>1, <2>2
<1> QED BY <1>1, <1>2, <1>4, <1>5, <1>6, <1>7

LEMMA PartInit == Part!Init => PartInv
<1> SUFFICES ASSUME Part!Init PROVE PartInv
  OBVIOUS
<1>1. /\ size \in Nat /\ MULTIPLICATIONS \in Nat /\ MULTIPLICATIONS > 0
      /\ NUM_THREADS \in Nat /\ NUM_THREADS > 0
  BY PartitionAssumption DEF Part!Init
<1>2. PartTypes
  BY <1>1 DEF PartTypes, Part!Init
<1>3. PartPhases
  <2>1. \A t \in Part!Workers : ~(t < 0)
    BY <1>1 DEF Part!Workers
  <2> QED BY <1>1, <2>1 DEF PartPhases, Part!Init
<1>4. PartCounts /\ PartRows
  <2>1. Bound(0) = 0 /\ \A t \in Part!Workers : ~(t < 0)
    BY <1>1, PartBounds DEF Part!Workers
  <2>2. \A r \in Part!Rows : ~(r < 0)
    BY <1>1 DEF Part!Rows
  <2>3. total = 0 /\ joined = 0 /\ created = 0 /\ copied = 0 /\ rounds = 0
        /\ (\A t \in Part!Workers : count[t] = 0) /\ (\A r \in Part!Rows : result[r] = 0)
    BY DEF Part!Init
  <2>4. PartCounts
    BY <2>1, <2>3 DEF PartCounts, Half
  <2>5. PartRows
    BY <1>1, <2>1, <2>2, <2>3 DEF PartRows, RoundsDone
  <2> QED BY <2>4, <2>5
<1> QED BY <1>2, <1>3, <1>4 DEF PartInv

LEMMA PartSame ==
  ASSUME Part!Next
  PROVE  /\ job' = job /\ size' = size /\ Part!Workers' = Part!Workers /\ Part!Rows' = Part!Rows
         /\ Part!Chunk' = Part!Chunk
         /\ \A t : Bound(t)' = Bound(t) /\ Part!End(t)' = Part!End(t)
<1>1. job' = job /\ size' = size
  BY DEF Part!Next, Part!Create, Part!Join, Part!CopyRow, Part!NextMatrix, Part!CountNext, Part!MulRow
<1> QED BY <1>1 DEF Part!Workers, Part!Rows, Part!Chunk, Bound, Part!End

LEMMA PartCreateStep ==
  ASSUME PartInv, Part!Create, Part!Next
  PROVE  PartInv'
<1> USE DEF PartInv
<1>0. /\ job' = job /\ size' = size /\ Part!Workers' = Part!Workers /\ Part!Rows' = Part!Rows
      /\ \A t : Bound(t)' = Bound(t) /\ Part!End(t)' = Part!End(t)
      /\ NUM_THREADS \in Nat /\ NUM_THREADS > 0
  BY PartSame, PartitionAssumption
<1>1. /\ created \in Nat /\ created < NUM_THREADS /\ created' = created + 1 /\ joined = 0
      /\ created \in Part!Workers /\ joined' = joined /\ total' = total
      /\ copied' = copied /\ rounds' = rounds /\ temp' = temp /\ result' = result
      /\ size \in Nat
  BY <1>0 DEF Part!Create, PartTypes, PartPhases, Part!Workers
<1> DEFINE w == created
<1>2. /\ cursor' = [cursor EXCEPT ![w] = Part!First(w)] /\ count' = [count EXCEPT ![w] = 0]
  BY DEF Part!Create
<1>3. /\ Bound(w) \in Nat /\ Bound(w) <= Bound(w + 1) /\ Bound(w + 1) \in Nat /\ Bound(w + 1) <= size
      /\ job = "product" => Part!First(w) = Bound(w)
      /\ job = "count" => Part!First(w) = 2 * Half(Bound(w)) + 1
  BY <1>1, PartBounds
<1>4. Part!First(w) \in 0..(size + 2)
  <2>1. CASE job = "product"
    BY <1>1, <1>3, <2>1
  <2>2. CASE job = "count"
    BY <1>1, <1>3, <2>2 DEF Half
  <2> QED BY <2>1, <2>2 DEF PartTypes
<1>5. PartTypes'
  BY <1>0, <1>1, <1>2, <1>4 DEF PartTypes
<1>6. /\ cursor'[w] = Part!First(w) /\ count'[w] = 0
      /\ \A t \in Part!Workers : t # w => cursor'[t] = cursor[t] /\ count'[t] = count[t]
      /\ \A t \in Part!Workers : t \in Nat /\ (t < created' <=> t < created \/ t = w)
  BY <1>0, <1>1, <1>2 DEF PartTypes, Part!Workers
<1> HIDE DEF w
<1>7. PartPhases'
  <2>1. \A t \in Part!Workers : ~(t < joined')
    BY <1>1, <1>6
  <2> QED BY <1>0, <1>1, <2>1 DEF PartPhases
<1>8. PartCounts'
  <2> SUFFICES ASSUME job = "count" PROVE PartCounts'
    BY <1>0 DEF PartCounts
  <2>1. ASSUME NEW t \in Part!Workers
        PROVE  /\ t >= created' => count'[t] = 0
               /\ t < created' => /\ cursor'[t] = 2 * (Half(Bound(t)) + count'[t]) + 1
                                  /\ Half(Bound(t)) + count'[t] <= Half(Bound(t + 1))
    <3>1. CASE t = w
      <4>1. Half(Bound(w)) \in Nat /\ Half(Bound(w)) <= Half(Bound(w + 1))
        BY <1>3 DEF Half
      <4> QED BY <1>3, <1>6, <3>1, <4>1
    <3>2. CASE t # w
      BY <1>1, <1>6, <3>2 DEF PartCounts
    <3> QED BY <3>1, <3>2
  <2> QED BY <1>0, <1>1, <2>1 DEF PartCounts, Half
<1>9. PartRows'
  <2> SUFFICES ASSUME job = "product" PROVE PartRows'
    BY <1>0 DEF PartRows
  <2>1. \A r \in Part!Rows : ~(Bound(w) <= r /\ r < Bound(w))
    BY <1>3 DEF Part!Rows
  <2>2. RoundsDone' = RoundsDone
    BY <1>1 DEF RoundsDone
  <2>3. ASSUME NEW t \in Part!Workers, t < created'
        PROVE  /\ Bound(t) <= cursor'[t] /\ cursor'[t] <= Bound(t + 1)
               /\ \A r \in Part!Rows : Bound(t) <= r /\ r < cursor'[t] => temp'[r] = RoundsDone
    <3>1. CASE t = w
      BY <1>3, <1>6, <2>1, <3>1
    <3>2. CASE t # w
      BY <1>1, <1>6, <2>3, <3>2 DEF PartRows
    <3> QED BY <3>1, <3>2
  <2> QED BY <1>0, <1>1, <2>2, <2>3 DEF PartRows
<1> QED BY <1>5, <1>7, <1>8, <1>9

LEMMA PartCountStep ==
  ASSUME PartInv, NEW w \in Part!Workers, Part!CountNext(w), Part!Next
  PROVE  PartInv'
<1> USE DEF PartInv
<1>0. /\ job' = job /\ size' = size /\ Part!Workers' = Part!Workers /\ Part!Rows' = Part!Rows
      /\ \A t : Bound(t)' = Bound(t) /\ Part!End(t)' = Part!End(t)
      /\ NUM_THREADS \in Nat /\ NUM_THREADS > 0
  BY PartSame, PartitionAssumption
<1>1. /\ job = "count" /\ w < created /\ cursor[w] <= Part!End(w)
      /\ created' = created /\ joined' = joined /\ total' = total
      /\ copied' = copied /\ rounds' = rounds /\ temp' = temp /\ result' = result
      /\ size \in Nat /\ cursor[w] \in Nat /\ count[w] \in Nat
  BY DEF Part!CountNext, PartTypes, Part!InRange
<1>2. cursor' = [cursor EXCEPT ![w] = cursor[w] + 2] /\ count' = [count EXCEPT ![w] = count[w] + 1]
  BY DEF Part!CountNext
<1>3. /\ Bound(w) \in Nat /\ Bound(w + 1) \in Nat /\ Bound(w + 1) <= size
      /\ Part!End(w) = Bound(w + 1)
      /\ cursor[w] = 2 * (Half(Bound(w)) + count[w]) + 1
  BY <1>1, PartBounds DEF PartCounts
<1>4. Half(Bound(w)) \in Nat /\ Half(Bound(w + 1)) \in Nat
      /\ 2 * Half(Bound(w + 1)) <= Bound(w + 1) + 1 /\ Bound(w + 1) <= 2 * Half(Bound(w + 1))
  BY <1>3 DEF Half
<1>5. Half(Bound(w)) + count[w] + 1 <= Half(Bound(w + 1))
  BY <1>1, <1>3, <1>4
<1>6. cursor[w] + 2 \in 0..(size + 2) /\ count[w] + 1 \in 0..size
  BY <1>1, <1>3, <1>4, <1>5
<1>7. PartTypes'
  BY <1>0, <1>1, <1>2, <1>6 DEF PartTypes
<1>8. /\ cursor'[w] = cursor[w] + 2 /\ count'[w] = count[w] + 1
      /\ \A t \in Part!Workers : t # w => cursor'[t] = cursor[t] /\ count'[t] = count[t]
  BY <1>2 DEF PartTypes
<1>9. PartPhases'
  <2>1. ASSUME NEW t \in Part!Workers, t < joined PROVE ~(cursor'[t] <= Part!End(t))
    <3>1. ~(cursor[t] <= Part!End(t))
      BY <1>1, <2>1 DEF PartPhases, Part!InRange
    <3> QED BY <1>1, <1>8, <3>1
  <2>2. \A t : Part!InRange(t)' <=> cursor'[t] <= Part!End(t)
    BY <1>0, <1>1 DEF Part!InRange
  <2> QED BY <1>0, <1>1, <2>1, <2>2 DEF PartPhases
<1>10. PartCounts'
  <2>1. ASSUME NEW t \in Part!Workers
        PROVE  /\ t >= created' => count'[t] = 0
               /\ t < created' => /\ cursor'[t] = 2 * (Half(Bound(t)) + count'[t]) + 1
                                  /\ Half(Bound(t)) + count'[t] <= Half(Bound(t + 1))
    <3>1. CASE t = w
      <4>1. ~(w >= created)
        BY <1>1 DEF PartTypes, Part!Workers
      <4> QED BY <1>1, <1>3, <1>4, <1>5, <1>8, <3>1, <4>1
    <3>2. CASE t # w
      BY <1>1, <1>8, <3>2 DEF PartCounts
    <3> QED BY <3>1, <3>2
  <2> QED BY <1>0, <1>1, <2>1 DEF PartCounts, Half
<1>11. PartRows'
  BY <1>0, <1>1 DEF PartRows
<1> QED BY <1>7, <1>9, <1>10, <1>11

LEMMA PartMulStep ==
  ASSUME PartInv, NEW w \in Part!Workers, Part!MulRow(w), Part!Next
  PROVE  PartInv'
<1> USE DEF PartInv
<1>0. /\ job' = job /\ size' = size /\ Part!Workers' = Part!Workers /\ Part!Rows' = Part!Rows
      /\ \A t : Bound(t)' = Bound(t) /\ Part!End(t)' = Part!End(t)
      /\ NUM_THREADS \in Nat /\ NUM_THREADS > 0
  BY PartSame, PartitionAssumption
<1> DEFINE i == cursor[w]
<1>1. /\ job = "product" /\ w < created /\ i < Part!End(w)
      /\ created' = created /\ joined' = joined /\ total' = total /\ count' = count
      /\ copied' = copied /\ rounds' = rounds /\ result' = result
      /\ size \in Nat /\ i \in Nat
  BY DEF Part!MulRow, PartTypes, Part!InRange
<1>2. cursor' = [cursor EXCEPT ![w] = i + 1] /\ temp' = [temp EXCEPT ![i] = result[i] + 1]
  BY DEF Part!MulRow
<1>3. /\ Bound(w) \in Nat /\ Bound(w + 1) \in Nat /\ Bound(w + 1) <= size
      /\ Part!End(w) = Bound(w + 1) /\ Bound(w) <= i
  BY <1>1, PartBounds DEF PartRows
<1> HIDE DEF i
<1>4. i \in Part!Rows /\ i + 1 \in 0..(size + 2)
  BY <1>1, <1>3 DEF Part!Rows
<1>5. ~(w < joined) /\ joined # NUM_THREADS /\ copied = 0 /\ rounds < MULTIPLICATIONS
  <2>1. ~(w < joined)
    BY <1>1 DEF PartPhases, Part!InRange, i
  <2>2. joined # NUM_THREADS
    BY <2>1 DEF Part!Workers, PartTypes
  <2> QED BY <2>1, <2>2, PartitionAssumption DEF PartPhases, PartTypes
<1>6. /\ RoundsDone = rounds + 1 /\ rounds \in Nat /\ RoundsDone \in 0..MULTIPLICATIONS
      /\ result[i] + 1 = RoundsDone
  <2>1. RoundsDone = rounds + 1 /\ rounds \in Nat /\ RoundsDone \in 0..MULTIPLICATIONS
    BY <1>5, PartitionAssumption DEF RoundsDone, PartTypes
  <2>2. result[i] = RoundsDone - 1
    BY <1>1, <1>4, <1>5 DEF PartRows, Part!Rows
  <2> QED BY <2>1, <2>2
<1>7. /\ cursor'[w] = i + 1 /\ \A t \in Part!Workers : t # w => cursor'[t] = cursor[t]
      /\ temp'[i] = RoundsDone /\ \A r \in Part!Rows : r # i => temp'[r] = temp[r]
      /\ temp' \in [Part!Rows -> 0..MULTIPLICATIONS]
      /\ cursor' \in [Part!Workers -> 0..(size + 2)]
  BY <1>2, <1>4, <1>6 DEF PartTypes
<1>8. PartTypes'
  BY <1>0, <1>1, <1>7 DEF PartTypes
<1>9. PartPhases'
  <2>1. \A t \in Part!Workers : t < joined => (Part!InRange(t)' <=> Part!InRange(t))
    BY <1>0, <1>1, <1>5, <1>7 DEF Part!InRange
  <2> QED BY <1>0, <1>1, <2>1 DEF PartPhases
<1>10. PartCounts'
  BY <1>0, <1>1 DEF PartCounts
<1>11. PartRows'
  <2>1. ASSUME NEW t \in Part!Workers, t < created
        PROVE  /\ Bound(t) <= cursor'[t] /\ cursor'[t] <= Bound(t + 1)
               /\ \A r \in Part!Rows : Bound(t) <= r /\ r < cursor'[t] => temp'[r] = RoundsDone
    <3>1. CASE t = w
      <4>1. \A r \in Part!Rows : r < i + 1 => r < i \/ r = i
        BY <1>1 DEF Part!Rows
      <4>2. \A r \in Part!Rows : Bound(w) <= r /\ r < i => temp[r] = RoundsDone
        BY <1>1 DEF PartRows, i
      <4> QED BY <1>1, <1>3, <1>7, <3>1, <4>1, <4>2
    <3>2. CASE t # w
      BY <1>1, <1>7, <2>1, <3>2 DEF PartRows
    <3> QED BY <3>1, <3>2
  <2>2. RoundsDone' = RoundsDone
    BY <1>1 DEF RoundsDone
  <2> QED BY <1>0, <1>1, <2>1, <2>2 DEF PartRows
<1> QED BY <1>8, <1>9, <1>10, <1>11

LEMMA PartJoinStep ==
  ASSUME PartInv, Part!Join, Part!Next
  PROVE  PartInv'
<1> USE DEF PartInv
<1>0. /\ job' = job /\ size' = size /\ Part!Workers' = Part!Workers /\ Part!Rows' = Part!Rows
      /\ \A t : Bound(t)' = Bound(t) /\ Part!End(t)' = Part!End(t)
      /\ NUM_THREADS \in Nat /\ NUM_THREADS > 0
  BY PartSame, PartitionAssumption
<1>1. /\ created = NUM_THREADS /\ joined < NUM_THREADS /\ ~Part!InRange(joined)
      /\ joined' = joined + 1 /\ joined \in Nat /\ joined \in Part!Workers
      /\ total' = total + count[joined] /\ total \in Nat /\ count[joined] \in Nat
      /\ created' = created /\ cursor' = cursor /\ count' = count /\ copied' = copied
      /\ rounds' = rounds /\ temp' = temp /\ result' = result /\ copied = 0
      /\ rounds < MULTIPLICATIONS /\ size \in Nat
  BY <1>0, PartitionAssumption DEF Part!Join, PartTypes, PartPhases, Part!Workers
<1>2. PartTypes'
  BY <1>0, <1>1 DEF PartTypes
<1>3. PartPhases'
  <2>1. \A t \in Part!Workers : t < joined + 1 => t < joined \/ t = joined
    BY <1>1 DEF Part!Workers
  <2>2. \A t \in Part!Workers : t < joined' => ~Part!InRange(t)'
    BY <1>0, <1>1, <2>1 DEF PartPhases, Part!InRange
  <2> QED BY <1>0, <1>1, <2>2 DEF PartPhases
<1>4. PartCounts'
  <2> SUFFICES ASSUME job = "count" PROVE PartCounts'
    BY <1>0 DEF PartCounts
  <2> DEFINE lo == Bound(joined)
             hi == Bound(joined + 1)
  <2>1. lo \in Nat /\ hi \in Nat /\ Part!End(joined) = hi
    BY <1>1, PartBounds
  <2>2. /\ cursor[joined] > hi /\ cursor[joined] = 2 * (Half(lo) + count[joined]) + 1
        /\ Half(lo) + count[joined] <= Half(hi) /\ total = Half(lo)
    <3>1. cursor[joined] \in Nat
      BY <1>1 DEF PartTypes
    <3> QED BY <1>1, <2>1, <3>1 DEF PartCounts, Part!InRange
  <2> HIDE DEF lo, hi
  <2>3. total' = Half(hi)
    <3>1. Half(lo) \in Nat /\ Half(hi) \in Nat /\ 2 * Half(hi) <= hi + 1
      BY <2>1 DEF Half
    <3>2. ~(Half(lo) + count[joined] < Half(hi))
      BY <1>1, <2>1, <2>2, <3>1
    <3> QED BY <1>1, <2>2, <3>1, <3>2
  <2>4. total' = Half(Bound(joined + 1))
    BY <2>3 DEF hi
  <2> QED BY <1>0, <1>1, <2>4 DEF PartCounts, Half
<1>5. PartRows'
  BY <1>0, <1>1 DEF PartRows, RoundsDone
<1> QED BY <1>2, <1>3, <1>4, <1>5

\* When all threads are done, so are all rows.
LEMMA PartAllRows ==
  ASSUME PartInv, job = "product", joined = NUM_THREADS
  PROVE  \A r \in Part!Rows : temp[r] = RoundsDone
<1> USE DEF PartInv
<1> SUFFICES ASSUME NEW r \in Part!Rows PROVE temp[r] = RoundsDone
  OBVIOUS
<1>1. size \in Nat /\ created = NUM_THREADS /\ NUM_THREADS \in Nat /\ NUM_THREADS > 0
  BY PartitionAssumption DEF PartTypes, PartPhases
<1>2. PICK t \in Part!Workers : Bound(t) <= r /\ r < Bound(t + 1)
  BY <1>1, PartBounds
<1>3. t < created /\ t < joined /\ Part!End(t) = Bound(t + 1) /\ Bound(t + 1) \in Nat /\ r \in Nat
      /\ cursor[t] \in Nat
  BY <1>1, PartBounds DEF Part!Rows, PartTypes
<1>4. ~(cursor[t] < Bound(t + 1))
  BY <1>3 DEF PartPhases, Part!InRange
<1> QED BY <1>2, <1>3, <1>4 DEF PartRows

LEMMA PartCopyStep ==
  ASSUME PartInv, Part!CopyRow, Part!Next
  PROVE  PartInv'
<1> USE DEF PartInv
<1>0. /\ job' = job /\ size' = size /\ Part!Workers' = Part!Workers /\ Part!Rows' = Part!Rows
      /\ \A t : Bound(t)' = Bound(t) /\ Part!End(t)' = Part!End(t)
  BY PartSame
<1>1. /\ job = "product" /\ joined = NUM_THREADS /\ copied < size /\ copied' = copied + 1
      /\ result' = [result EXCEPT ![copied] = temp[copied]]
      /\ copied \in Part!Rows /\ copied \in Nat /\ size \in Nat
      /\ created' = created /\ joined' = joined /\ cursor' = cursor /\ count' = count
      /\ total' = total /\ rounds' = rounds /\ temp' = temp
  BY DEF Part!CopyRow, PartTypes, Part!Rows
<1>2. temp[copied] = RoundsDone /\ temp[copied] \in 0..MULTIPLICATIONS
  BY <1>1, PartAllRows DEF PartTypes
<1>3. /\ result' \in [Part!Rows -> 0..MULTIPLICATIONS]
      /\ result'[copied] = RoundsDone /\ \A r \in Part!Rows : r # copied => result'[r] = result[r]
  BY <1>1, <1>2 DEF PartTypes
<1>4. PartTypes'
  BY <1>0, <1>1, <1>3 DEF PartTypes
<1>5. PartPhases'
  <2>1. rounds # MULTIPLICATIONS
    BY <1>1 DEF PartPhases
  <2> QED BY <1>0, <1>1, <2>1 DEF PartPhases, Part!InRange
<1>6. PartCounts'
  BY <1>0, <1>1 DEF PartCounts
<1>7. PartRows'
  <2>1. \A r \in Part!Rows : r < copied + 1 <=> r < copied \/ r = copied
    BY <1>1 DEF Part!Rows
  <2>2. \A r \in Part!Rows : result'[r] = IF r < copied + 1 THEN RoundsDone ELSE RoundsDone - 1
    BY <1>1, <1>3, <2>1 DEF PartRows
  <2>3. RoundsDone' = RoundsDone
    BY <1>1 DEF RoundsDone
  <2> QED BY <1>0, <1>1, <2>2, <2>3 DEF PartRows
<1> QED BY <1>4, <1>5, <1>6, <1>7

LEMMA PartMatrixStep ==
  ASSUME PartInv, Part!NextMatrix, Part!Next
  PROVE  PartInv'
<1> USE DEF PartInv
<1>0. /\ job' = job /\ size' = size /\ Part!Workers' = Part!Workers /\ Part!Rows' = Part!Rows
      /\ \A t : Bound(t)' = Bound(t) /\ Part!End(t)' = Part!End(t)
      /\ NUM_THREADS \in Nat /\ NUM_THREADS > 0
      /\ MULTIPLICATIONS \in Nat /\ MULTIPLICATIONS > 0
  BY PartSame, PartitionAssumption
<1>1. /\ job = "product" /\ joined = NUM_THREADS /\ copied = size /\ rounds < MULTIPLICATIONS
      /\ rounds' = rounds + 1 /\ rounds \in Nat /\ size \in Nat
      /\ cursor' = cursor /\ count' = count /\ total' = total /\ temp' = temp /\ result' = result
  BY DEF Part!NextMatrix, PartTypes
<1>2. /\ RoundsDone = rounds + 1
      /\ \A r \in Part!Rows : temp[r] = rounds + 1 /\ result[r] = rounds + 1
  <2>1. RoundsDone = rounds + 1
    BY <1>1 DEF RoundsDone
  <2>2. \A r \in Part!Rows : result[r] = RoundsDone
    BY <1>1 DEF PartRows, Part!Rows
  <2> QED BY <1>1, <2>1, <2>2, PartAllRows
<1>3. CASE rounds + 1 < MULTIPLICATIONS
  <2>1. created' = 0 /\ joined' = 0 /\ copied' = 0 /\ RoundsDone' = rounds + 2
    BY <1>1, <1>3 DEF Part!NextMatrix, RoundsDone
  <2>2. \A t \in Part!Workers : ~(t < 0)
    BY <1>0 DEF Part!Workers
  <2>3. \A r \in Part!Rows : ~(r < 0)
    BY <1>1 DEF Part!Rows
  <2>4. PartTypes'
    BY <1>0, <1>1, <1>3, <2>1 DEF PartTypes
  <2>5. PartPhases'
    BY <1>0, <1>1, <1>3, <2>1, <2>2 DEF PartPhases
  <2>6. PartCounts'
    BY <1>0, <1>1 DEF PartCounts
  <2>7. PartRows'
    <3>1. \A r \in Part!Rows : result'[r] = RoundsDone' - 1
      BY <1>0, <1>1, <1>2, <2>1
    <3> QED BY <1>0, <1>1, <2>1, <2>2, <2>3, <3>1 DEF PartRows
  <2> QED BY <2>4, <2>5, <2>6, <2>7
<1>4. CASE ~(rounds + 1 < MULTIPLICATIONS)
  <2>1. /\ created' = created /\ joined' = joined /\ copied' = copied
        /\ rounds' = MULTIPLICATIONS /\ RoundsDone' = RoundsDone
    BY <1>0, <1>1, <1>2, <1>4 DEF Part!NextMatrix, RoundsDone
  <2>2. PartTypes'
    BY <1>0, <1>1, <2>1 DEF PartTypes
  <2>3. PartPhases'
    BY <1>0, <1>1, <2>1 DEF PartPhases, Part!InRange
  <2>4. PartCounts'
    BY <1>0, <1>1 DEF PartCounts
  <2>5. PartRows'
    BY <1>0, <1>1, <2>1 DEF PartRows
  <2> QED BY <2>2, <2>3, <2>4, <2>5
<1> QED BY <1>3, <1>4

LEMMA PartStep ==
  ASSUME PartInv, Part!Next
  PROVE  PartInv'
  BY PartCreateStep, PartCountStep, PartMulStep, PartJoinStep, PartCopyStep, PartMatrixStep
     DEF Part!Next

\* There are Half(n) odd numbers up to n: 1, 3, ..., 2 Half(n) - 1.
LEMMA OddNumbers ==
  ASSUME NEW n \in Nat
  PROVE  Cardinality({m \in 1..n : m % 2 = 1}) = Half(n)
<1> DEFINE Odd == {m \in 1..n : m % 2 = 1}
           h == [k \in 1..Half(n) |-> 2 * k - 1]
<1>1. Half(n) \in Nat
  BY DEF Half
<1>2. ASSUME NEW k \in 1..Half(n) PROVE h[k] \in Odd /\ h[k] = 2 * k - 1
  BY DEF Half
<1>3. ASSUME NEW m \in Odd PROVE \E k \in 1..Half(n) : h[k] = m
  <2>1. m \in Nat /\ m % 2 = 1 /\ m > 0 /\ m <= n
    OBVIOUS
  <2>2. (m + 1) \div 2 \in 1..Half(n) /\ 2 * ((m + 1) \div 2) - 1 = m
    BY <2>1 DEF Half
  <2> QED BY <2>2
<1>4. h \in Injection(1..Half(n), Odd)
  <2>1. h \in [1..Half(n) -> Odd]
    BY <1>2
  <2>2. \A k, j \in 1..Half(n) : h[k] = h[j] => k = j
    BY <1>1
  <2> QED BY <2>1, <2>2 DEF Injection, IsInjective
<1>5. h \in Surjection(1..Half(n), Odd)
  BY <1>2, <1>3 DEF Surjection
<1>6. ExistsBijection(1..Half(n), Odd)
  BY <1>4, <1>5 DEF ExistsBijection, Bijection
<1> QED BY <1>1, <1>6, UpTo, FS_Bijection

LEMMA PartCardinality == \A S : Part!Cardinality(S) = Cardinality(S)
  BY DEF Part!Cardinality, Cardinality

LEMMA PartProductIsWhole ==
  ASSUME PartInv
  PROVE  Part!ProductIsWhole
<1>1. PartTypes /\ PartPhases /\ PartCounts /\ PartRows /\ size \in Nat
  BY DEF PartInv, PartTypes
<1>2. ASSUME joined = NUM_THREADS, job = "count"
      PROVE  total = Part!Cardinality({n \in 1..size : n % 2 = 1})
  <2>1. Bound(NUM_THREADS) = size
    BY DEF Bound
  <2> QED BY <1>1, <1>2, <2>1, OddNumbers, PartCardinality DEF PartCounts
<1>3. ASSUME joined = NUM_THREADS, job # "count"
      PROVE  \A r \in Part!Rows : /\ temp[r] = RoundsDone
                                  /\ result[r] = IF r < copied THEN RoundsDone ELSE RoundsDone - 1
  <2>1. job = "product"
    BY <1>1, <1>3 DEF PartTypes
  <2> QED BY <1>1, <1>3, <2>1, PartAllRows DEF PartRows
<1> QED BY <1>2, <1>3 DEF Part!ProductIsWhole, RoundsDone

LEMMA PartTypeOK ==
  ASSUME PartInv
  PROVE  Part!TypeOK
  BY DEF PartInv, PartTypes, Part!TypeOK

-----------------------------------------------------------------------------
(* The trees of DirScan *)

\* What is above a node, without recursion: a directory of the base, or none.
UpTree == [n \in Dir!Names |->
             IF n = "base" THEN {}
             ELSE IF Dir!Parent[n] = "base" THEN {"base"} ELSE {"base", Dir!Parent[n]}]

LEMMA DirNames ==
  /\ "base" \in Dir!Names /\ Dir!Dirs \subseteq Dir!Names
  /\ "base" \in Dir!Dirs /\ "Test1" \in Dir!Dirs /\ "foreign" \in Dir!Names
  /\ Dir!Parent["Test1"] = "base" /\ Dir!Parent["foreign"] = "Test1"
  /\ "foreign" \notin Dir!Dirs
  /\ \A n \in Dir!Names \ {"base"} :
       /\ Dir!Parent[n] \in Dir!Dirs
       /\ Dir!Parent[n] # "base" => n \notin Dir!Dirs /\ Dir!Parent[Dir!Parent[n]] = "base"
       /\ n \in DOMAIN Dir!Parent
  BY DEF Dir!Names, Dir!Dirs, Dir!Parent

LEMMA DirAbove == Dir!Above = UpTree
<1> DEFINE F(f) == [n \in Dir!Names |->
                      IF n = "base" THEN {} ELSE {Dir!Parent[n]} \cup f[Dir!Parent[n]]]
<1>1. UpTree = F(UpTree)
  <2>1. ASSUME NEW n \in Dir!Names
        PROVE  UpTree[n] = IF n = "base" THEN {} ELSE {Dir!Parent[n]} \cup UpTree[Dir!Parent[n]]
    <3>1. CASE n = "base"
      BY <3>1 DEF UpTree
    <3>2. CASE n # "base"
      <4>1. Dir!Parent[n] \in Dir!Names /\ "base" \in Dir!Names
        BY <3>2, DirNames
      <4>2. CASE Dir!Parent[n] = "base"
        BY <3>2, <4>1, <4>2 DEF UpTree
      <4>3. CASE Dir!Parent[n] # "base"
        <5>1. Dir!Parent[Dir!Parent[n]] = "base"
          BY <3>2, <4>3, DirNames
        <5>2. UpTree[Dir!Parent[n]] = {"base"} /\ UpTree[n] = {"base", Dir!Parent[n]}
          BY <3>2, <4>1, <4>3, <5>1 DEF UpTree
        <5> QED BY <3>2, <5>2
      <4> QED BY <4>2, <4>3
    <3> QED BY <3>1, <3>2
  <2> QED BY <2>1 DEF UpTree
<1>2. ASSUME NEW f, f = F(f) PROVE f = UpTree
  <2>1. f["base"] = {}
    BY <1>2, DirNames
  <2>2. \A n \in Dir!Names : n # "base" => f[n] = {Dir!Parent[n]} \cup f[Dir!Parent[n]]
    BY <1>2
  <2>3. \A n \in Dir!Names : n # "base" /\ Dir!Parent[n] = "base" => f[n] = {"base"}
    BY <2>1, <2>2
  <2>4. \A n \in Dir!Names : n # "base" /\ Dir!Parent[n] # "base" => f[n] = {"base", Dir!Parent[n]}
    BY <2>2, <2>3, DirNames
  <2>5. \A n \in Dir!Names : f[n] = UpTree[n]
    BY <2>1, <2>3, <2>4 DEF UpTree
  <2>6. f = [n \in Dir!Names |-> f[n]] /\ UpTree = [n \in Dir!Names |-> UpTree[n]]
    BY <1>2 DEF UpTree
  <2> QED BY <2>5, <2>6
<1>3. Dir!Above = CHOOSE f : f = F(f)
  BY DEF Dir!Above
<1> HIDE DEF F
<1> QED BY <1>1, <1>2, <1>3

Calls == [op : {"mkdir", "open", "chmod"}, node : Dir!Names, perms : SUBSET Dir!RWX]

\* The first N calls of the table T.
Starts(s, T, N) == s \in Seq(Calls) /\ Len(s) = N /\ \A j \in 1..N : s[j] = T[j]

LEMMA AddPair ==
  ASSUME NEW T, NEW N \in Nat, NEW s, Starts(s, T, N), T[N + 1] \in Calls, T[N + 2] \in Calls
  PROVE  Starts(s \o <<T[N + 1], T[N + 2]>>, T, N + 2)
<1> DEFINE u == <<T[N + 1], T[N + 2]>>
<1>1. u \in Seq(Calls) /\ Len(u) = 2 /\ u[1] = T[N + 1] /\ u[2] = T[N + 2]
  OBVIOUS
<1> HIDE DEF u
<1>2. s \in Seq(Calls) /\ Len(s) = N /\ \A j \in 1..N : s[j] = T[j]
  BY DEF Starts
<1>3. /\ s \o u \in Seq(Calls) /\ Len(s \o u) = N + 2
      /\ \A i \in 1..(N + 2) : (s \o u)[i] = IF i <= N THEN s[i] ELSE u[i - N]
  <2>1. /\ s \o u \in Seq(Calls) /\ Len(s \o u) = Len(s) + Len(u)
        /\ \A i \in 1..(Len(s) + Len(u)) : (s \o u)[i] = IF i <= Len(s) THEN s[i] ELSE u[i - Len(s)]
    BY <1>1, <1>2, ConcatProperties
  <2>2. Len(s) = N /\ Len(u) = 2
    BY <1>1, <1>2
  <2> QED BY <2>1, <2>2
<1>4. ASSUME NEW i \in 1..(N + 2) PROVE (s \o u)[i] = T[i]
  <2>1. CASE i <= N
    BY <1>2, <1>3, <2>1
  <2>2. CASE i = N + 1
    <3>1. ~(i <= N) /\ i - N = 1
      BY <2>2
    <3> QED BY <1>1, <1>3, <2>2, <3>1
  <2>3. CASE i = N + 2
    <3>1. ~(i <= N) /\ i - N = 2
      BY <2>3
    <3> QED BY <1>1, <1>3, <2>3, <3>1
  <2>4. i <= N \/ i = N + 1 \/ i = N + 2
    OBVIOUS
  <2> QED BY <2>1, <2>2, <2>3, <2>4
<1>5. Starts(s \o u, T, N + 2)
  BY <1>3, <1>4 DEF Starts
<1> QED BY <1>5 DEF u

\* The plans, call by call.
TableBt1 ==
  <<Dir!Call("mkdir", "base", Dir!RWX),
    Dir!Call("chmod", "base", Dir!RWX),
    Dir!Call("open", "read_only", Dir!RW),
    Dir!Call("chmod", "read_only", Dir!R),
    Dir!Call("open", "read_write", Dir!RW),
    Dir!Call("chmod", "read_write", Dir!RW),
    Dir!Call("mkdir", "sub_dir1", Dir!RWX),
    Dir!Call("chmod", "sub_dir1", Dir!RWX),
    Dir!Call("open", "owner_read", Dir!RW),
    Dir!Call("chmod", "owner_read", Dir!R),
    Dir!Call("open", "executable", Dir!RW),
    Dir!Call("chmod", "executable", Dir!RWX),
    Dir!Call("mkdir", "sub_dir2", Dir!RWX),
    Dir!Call("chmod", "sub_dir2", Dir!RWX),
    Dir!Call("open", "read_only_2", Dir!RW),
    Dir!Call("chmod", "read_only_2", Dir!R),
    Dir!Call("open", "write_only", Dir!RW),
    Dir!Call("chmod", "write_only", {"w"})>>
TableBt2 ==
  <<Dir!Call("mkdir", "base", Dir!RWX),
    Dir!Call("chmod", "base", Dir!RWX),
    Dir!Call("mkdir", "Test1", Dir!RWX),
    Dir!Call("chmod", "Test1", Dir!RWX),
    Dir!Call("open", "abc", Dir!RW),
    Dir!Call("chmod", "abc", Dir!R),
    Dir!Call("open", "efg", Dir!RW),
    Dir!Call("chmod", "efg", Dir!RW),
    Dir!Call("chmod", "Test1", Dir!RW),
    Dir!Call("chmod", "base", Dir!RW)>>

LEMMA PlanOfBt1 == Starts(Dir!PlanBt1, TableBt1, 18)
<1> DEFINE T == TableBt1
           p1 == Dir!MakeDirectory("base", Dir!RWX)
           p2 == p1 \o Dir!CreateFile("read_only", Dir!R)
           p3 == p2 \o Dir!CreateFile("read_write", Dir!RW)
           p4 == p3 \o Dir!MakeDirectory("sub_dir1", Dir!RWX)
           p5 == p4 \o Dir!CreateFile("owner_read", Dir!R)
           p6 == p5 \o Dir!CreateFile("executable", Dir!RWX)
           p7 == p6 \o Dir!MakeDirectory("sub_dir2", Dir!RWX)
           p8 == p7 \o Dir!CreateFile("read_only_2", Dir!R)
           p9 == p8 \o Dir!CreateFile("write_only", {"w"})
<1>1. Dir!PlanBt1 = p9
  BY DEF Dir!PlanBt1
<1>2. /\ T[1] = Dir!Call("mkdir", "base", Dir!RWX) /\ T[2] = Dir!Call("chmod", "base", Dir!RWX)
      /\ T[3] = Dir!Call("open", "read_only", Dir!RW) /\ T[4] = Dir!Call("chmod", "read_only", Dir!R)
      /\ T[5] = Dir!Call("open", "read_write", Dir!RW) /\ T[6] = Dir!Call("chmod", "read_write", Dir!RW)
      /\ T[7] = Dir!Call("mkdir", "sub_dir1", Dir!RWX) /\ T[8] = Dir!Call("chmod", "sub_dir1", Dir!RWX)
      /\ T[9] = Dir!Call("open", "owner_read", Dir!RW) /\ T[10] = Dir!Call("chmod", "owner_read", Dir!R)
      /\ T[11] = Dir!Call("open", "executable", Dir!RW) /\ T[12] = Dir!Call("chmod", "executable", Dir!RWX)
      /\ T[13] = Dir!Call("mkdir", "sub_dir2", Dir!RWX) /\ T[14] = Dir!Call("chmod", "sub_dir2", Dir!RWX)
      /\ T[15] = Dir!Call("open", "read_only_2", Dir!RW) /\ T[16] = Dir!Call("chmod", "read_only_2", Dir!R)
      /\ T[17] = Dir!Call("open", "write_only", Dir!RW) /\ T[18] = Dir!Call("chmod", "write_only", {"w"})
  BY DEF TableBt1
<1>3. \A k \in 1..18 : T[k] \in Calls
  <2>1. \A f \in {"mkdir", "open", "chmod"}, m \in Dir!Names, q \in SUBSET Dir!RWX :
          Dir!Call(f, m, q) \in Calls
    BY DEF Calls, Dir!Call
  <2>2. {"base", "read_only", "read_write", "sub_dir1", "owner_read", "executable", "sub_dir2", "read_only_2", "write_only"} \subseteq Dir!Names
    BY DEF Dir!Names, Dir!Parent
  <2>3. Dir!R \in SUBSET Dir!RWX /\ Dir!RW \in SUBSET Dir!RWX /\ {"w"} \in SUBSET Dir!RWX
    BY DEF Dir!R, Dir!RW, Dir!RWX
  <2> HIDE DEF T
  <2>4. /\ T[1] \in Calls /\ T[2] \in Calls
        /\ T[3] \in Calls /\ T[4] \in Calls
        /\ T[5] \in Calls /\ T[6] \in Calls
        /\ T[7] \in Calls /\ T[8] \in Calls
        /\ T[9] \in Calls /\ T[10] \in Calls
        /\ T[11] \in Calls /\ T[12] \in Calls
        /\ T[13] \in Calls /\ T[14] \in Calls
        /\ T[15] \in Calls /\ T[16] \in Calls
        /\ T[17] \in Calls /\ T[18] \in Calls
    BY <1>2, <2>1, <2>2, <2>3
  <2> QED BY <2>4
<1> HIDE DEF T
<1>4. Starts(p1, T, 2)
  <2>1. p1 = <<T[1], T[2]>>
    BY <1>2 DEF Dir!MakeDirectory
  <2> HIDE DEF p1
  <2> QED BY <1>3, <2>1 DEF Starts
<1> HIDE DEF p1
<1>5. Starts(p2, T, 4)
  <2>1. p2 = p1 \o <<T[3], T[4]>>
    BY <1>2 DEF Dir!MakeDirectory, Dir!CreateFile
  <2> HIDE DEF p2
  <2> QED BY <1>3, <1>4, <2>1, AddPair
<1> HIDE DEF p2
<1>6. Starts(p3, T, 6)
  <2>1. p3 = p2 \o <<T[5], T[6]>>
    BY <1>2 DEF Dir!MakeDirectory, Dir!CreateFile
  <2> HIDE DEF p3
  <2> QED BY <1>3, <1>5, <2>1, AddPair
<1> HIDE DEF p3
<1>7. Starts(p4, T, 8)
  <2>1. p4 = p3 \o <<T[7], T[8]>>
    BY <1>2 DEF Dir!MakeDirectory, Dir!CreateFile
  <2> HIDE DEF p4
  <2> QED BY <1>3, <1>6, <2>1, AddPair
<1> HIDE DEF p4
<1>8. Starts(p5, T, 10)
  <2>1. p5 = p4 \o <<T[9], T[10]>>
    BY <1>2 DEF Dir!MakeDirectory, Dir!CreateFile
  <2> HIDE DEF p5
  <2> QED BY <1>3, <1>7, <2>1, AddPair
<1> HIDE DEF p5
<1>9. Starts(p6, T, 12)
  <2>1. p6 = p5 \o <<T[11], T[12]>>
    BY <1>2 DEF Dir!MakeDirectory, Dir!CreateFile
  <2> HIDE DEF p6
  <2> QED BY <1>3, <1>8, <2>1, AddPair
<1> HIDE DEF p6
<1>10. Starts(p7, T, 14)
  <2>1. p7 = p6 \o <<T[13], T[14]>>
    BY <1>2 DEF Dir!MakeDirectory, Dir!CreateFile
  <2> HIDE DEF p7
  <2> QED BY <1>3, <1>9, <2>1, AddPair
<1> HIDE DEF p7
<1>11. Starts(p8, T, 16)
  <2>1. p8 = p7 \o <<T[15], T[16]>>
    BY <1>2 DEF Dir!MakeDirectory, Dir!CreateFile
  <2> HIDE DEF p8
  <2> QED BY <1>3, <1>10, <2>1, AddPair
<1> HIDE DEF p8
<1>12. Starts(p9, T, 18)
  <2>1. p9 = p8 \o <<T[17], T[18]>>
    BY <1>2 DEF Dir!MakeDirectory, Dir!CreateFile
  <2> HIDE DEF p9
  <2> QED BY <1>3, <1>11, <2>1, AddPair
<1> HIDE DEF p9
<1> QED BY <1>1, <1>12 DEF T

LEMMA PlanOfBt2 == Starts(Dir!PlanBt2, TableBt2, 10)
<1> DEFINE T == TableBt2
           p1 == Dir!MakeDirectory("base", Dir!RWX)
           p2 == p1 \o Dir!MakeDirectory("Test1", Dir!RWX)
           p3 == p2 \o Dir!CreateFile("abc", Dir!R)
           p4 == p3 \o Dir!CreateFile("efg", Dir!RW)
           p5 == p4 \o <<Dir!Call("chmod", "Test1", Dir!RW), Dir!Call("chmod", "base", Dir!RW)>>
<1>1. Dir!PlanBt2 = p5
  BY DEF Dir!PlanBt2
<1>2. /\ T[1] = Dir!Call("mkdir", "base", Dir!RWX) /\ T[2] = Dir!Call("chmod", "base", Dir!RWX)
      /\ T[3] = Dir!Call("mkdir", "Test1", Dir!RWX) /\ T[4] = Dir!Call("chmod", "Test1", Dir!RWX)
      /\ T[5] = Dir!Call("open", "abc", Dir!RW) /\ T[6] = Dir!Call("chmod", "abc", Dir!R)
      /\ T[7] = Dir!Call("open", "efg", Dir!RW) /\ T[8] = Dir!Call("chmod", "efg", Dir!RW)
      /\ T[9] = Dir!Call("chmod", "Test1", Dir!RW) /\ T[10] = Dir!Call("chmod", "base", Dir!RW)
  BY DEF TableBt2
<1>3. \A k \in 1..10 : T[k] \in Calls
  <2>1. \A f \in {"mkdir", "open", "chmod"}, m \in Dir!Names, q \in SUBSET Dir!RWX :
          Dir!Call(f, m, q) \in Calls
    BY DEF Calls, Dir!Call
  <2>2. {"base", "Test1", "abc", "efg"} \subseteq Dir!Names
    BY DEF Dir!Names, Dir!Parent
  <2>3. Dir!R \in SUBSET Dir!RWX /\ Dir!RW \in SUBSET Dir!RWX /\ {"w"} \in SUBSET Dir!RWX
    BY DEF Dir!R, Dir!RW, Dir!RWX
  <2> HIDE DEF T
  <2>4. /\ T[1] \in Calls /\ T[2] \in Calls
        /\ T[3] \in Calls /\ T[4] \in Calls
        /\ T[5] \in Calls /\ T[6] \in Calls
        /\ T[7] \in Calls /\ T[8] \in Calls
        /\ T[9] \in Calls /\ T[10] \in Calls
    BY <1>2, <2>1, <2>2, <2>3
  <2> QED BY <2>4
<1> HIDE DEF T
<1>4. Starts(p1, T, 2)
  <2>1. p1 = <<T[1], T[2]>>
    BY <1>2 DEF Dir!MakeDirectory
  <2> HIDE DEF p1
  <2> QED BY <1>3, <2>1 DEF Starts
<1> HIDE DEF p1
<1>5. Starts(p2, T, 4)
  <2>1. p2 = p1 \o <<T[3], T[4]>>
    BY <1>2 DEF Dir!MakeDirectory, Dir!CreateFile
  <2> HIDE DEF p2
  <2> QED BY <1>3, <1>4, <2>1, AddPair
<1> HIDE DEF p2
<1>6. Starts(p3, T, 6)
  <2>1. p3 = p2 \o <<T[5], T[6]>>
    BY <1>2 DEF Dir!MakeDirectory, Dir!CreateFile
  <2> HIDE DEF p3
  <2> QED BY <1>3, <1>5, <2>1, AddPair
<1> HIDE DEF p3
<1>7. Starts(p4, T, 8)
  <2>1. p4 = p3 \o <<T[7], T[8]>>
    BY <1>2 DEF Dir!MakeDirectory, Dir!CreateFile
  <2> HIDE DEF p4
  <2> QED BY <1>3, <1>6, <2>1, AddPair
<1> HIDE DEF p4
<1>8. Starts(p5, T, 10)
  <2>1. p5 = p4 \o <<T[9], T[10]>>
    BY <1>2 DEF Dir!MakeDirectory, Dir!CreateFile
  <2> HIDE DEF p5
  <2> QED BY <1>3, <1>7, <2>1, AddPair
<1> HIDE DEF p5
<1> QED BY <1>1, <1>8 DEF T

\* Where a node stands in the plan first, and where it stands last.
FirstAt == IF program = "bt1"
  THEN [base |-> 1, read_only |-> 3, read_write |-> 5, sub_dir1 |-> 7, owner_read |-> 9,
        executable |-> 11, sub_dir2 |-> 13, read_only_2 |-> 15, write_only |-> 17]
  ELSE [base |-> 1, Test1 |-> 3, abc |-> 5, efg |-> 7]
LastAt == IF program = "bt1"
  THEN [base |-> 2, read_only |-> 4, read_write |-> 6, sub_dir1 |-> 8, owner_read |-> 10,
        executable |-> 12, sub_dir2 |-> 14, read_only_2 |-> 16, write_only |-> 18]
  ELSE [base |-> 10, Test1 |-> 9, abc |-> 6, efg |-> 8]

Planned == DOMAIN FirstAt

LEMMA PlanSize ==
  ASSUME program \in {"bt1", "bt2"}
  PROVE  /\ Dir!Plan \in Seq(Calls)
         /\ Len(Dir!Plan) = IF program = "bt1" THEN 18 ELSE 10
         /\ DOMAIN Dir!Plan = 1..Len(Dir!Plan)
         /\ \A k \in DOMAIN Dir!Plan :
              Dir!Plan[k] = IF program = "bt1" THEN TableBt1[k] ELSE TableBt2[k]
<1>1. CASE program = "bt1"
  <2>1. Dir!Plan = Dir!PlanBt1
    BY <1>1 DEF Dir!Plan
  <2>2. Dir!Plan \in Seq(Calls) /\ Len(Dir!Plan) = 18
    BY <2>1, PlanOfBt1 DEF Starts
  <2>3. DOMAIN Dir!Plan = 1..18
    BY <2>2, LenProperties
  <2>4. \A k \in 1..18 : Dir!Plan[k] = TableBt1[k]
    BY <2>1, PlanOfBt1 DEF Starts
  <2> QED BY <1>1, <2>2, <2>3, <2>4
<1>2. CASE program # "bt1"
  <2>1. Dir!Plan = Dir!PlanBt2
    BY <1>2 DEF Dir!Plan
  <2>2. Dir!Plan \in Seq(Calls) /\ Len(Dir!Plan) = 10
    BY <2>1, PlanOfBt2 DEF Starts
  <2>3. DOMAIN Dir!Plan = 1..10
    BY <2>2, LenProperties
  <2>4. \A k \in 1..10 : Dir!Plan[k] = TableBt2[k]
    BY <2>1, PlanOfBt2 DEF Starts
  <2> QED BY <1>2, <2>2, <2>3, <2>4
<1> QED BY <1>1, <1>2

\* A call that makes a node is the first of the node, and a chmod is not.
\* All permissions of directories are there until the last calls of bt2.
Fits(c, k) ==
  /\ c.node \in Planned
  /\ c.op \in {"mkdir", "open", "chmod"}
  /\ c.op = "chmod" => FirstAt[c.node] < k
  /\ c.op # "chmod" => FirstAt[c.node] = k
  /\ c.op = "open" => c.node \notin Dir!Dirs
  /\ c.op = "mkdir" => c.node \in Dir!Dirs
  /\ k <= LastAt[c.node]
  /\ c.perms \subseteq Dir!RWX
  /\ program = "bt1" /\ c.node \in Dir!Dirs => c.perms = Dir!RWX
  /\ program = "bt2" /\ c.node \in Dir!Dirs /\ k < 9 => c.perms = Dir!RWX
  /\ program = "bt2" /\ k = 9 => c.node = "Test1"
  /\ program = "bt2" /\ k = 10 => c.node = "base"

LEMMA PlanOrder ==
  ASSUME program \in {"bt1", "bt2"}
  PROVE  \A k \in DOMAIN Dir!Plan : Fits(Dir!Plan[k], k)
<1>0. \A f, n, p : /\ Dir!Call(f, n, p).op = f /\ Dir!Call(f, n, p).node = n
                   /\ Dir!Call(f, n, p).perms = p
  BY DEF Dir!Call
<1>1. CASE program = "bt1"
  <2>1. ASSUME NEW k \in 1..18 PROVE Fits(TableBt1[k], k)
    <3> DEFINE d == TableBt1[k]
    <3>1. /\ d.node \in Planned /\ d.op \in {"mkdir", "open", "chmod"}
          /\ d.op = "open" => d.node \notin Dir!Dirs
          /\ d.op = "mkdir" => d.node \in Dir!Dirs
      BY <1>1, <1>0, SMTT(60) DEF Planned, FirstAt, TableBt1, Dir!Dirs
    <3>2. /\ d.op = "chmod" => FirstAt[d.node] < k
          /\ d.op # "chmod" => FirstAt[d.node] = k
          /\ k <= LastAt[d.node]
      BY <1>1, <1>0, SMTT(60) DEF FirstAt, LastAt, TableBt1
    <3>3. /\ d.perms \subseteq Dir!RWX
          /\ program = "bt1" /\ d.node \in Dir!Dirs => d.perms = Dir!RWX
          /\ program = "bt2" /\ d.node \in Dir!Dirs /\ k < 9 => d.perms = Dir!RWX
      BY <1>1, <1>0, SMTT(60) DEF TableBt1, Dir!Dirs, Dir!R, Dir!RW, Dir!RWX
    <3>4. /\ program = "bt2" /\ k = 9 => d.node = "Test1"
          /\ program = "bt2" /\ k = 10 => d.node = "base"
      BY <1>1, <1>0, SMTT(60) DEF TableBt1
    <3> HIDE DEF d
    <3>5. Fits(d, k)
      BY <3>1, <3>2, <3>3, <3>4 DEF Fits
    <3> QED BY <3>5 DEF d
  <2> QED BY <2>1, <1>1, PlanSize
<1>2. CASE program = "bt2"
  <2>1. ASSUME NEW k \in 1..10 PROVE Fits(TableBt2[k], k)
    <3> DEFINE d == TableBt2[k]
    <3>1. /\ d.node \in Planned /\ d.op \in {"mkdir", "open", "chmod"}
          /\ d.op = "open" => d.node \notin Dir!Dirs
          /\ d.op = "mkdir" => d.node \in Dir!Dirs
      BY <1>2, <1>0, SMTT(60) DEF Planned, FirstAt, TableBt2, Dir!Dirs
    <3>2. /\ d.op = "chmod" => FirstAt[d.node] < k
          /\ d.op # "chmod" => FirstAt[d.node] = k
          /\ k <= LastAt[d.node]
      BY <1>2, <1>0, SMTT(60) DEF FirstAt, LastAt, TableBt2
    <3>3. /\ d.perms \subseteq Dir!RWX
          /\ program = "bt1" /\ d.node \in Dir!Dirs => d.perms = Dir!RWX
          /\ program = "bt2" /\ d.node \in Dir!Dirs /\ k < 9 => d.perms = Dir!RWX
      BY <1>2, <1>0, SMTT(60) DEF TableBt2, Dir!Dirs, Dir!R, Dir!RW, Dir!RWX
    <3>4. /\ program = "bt2" /\ k = 9 => d.node = "Test1"
          /\ program = "bt2" /\ k = 10 => d.node = "base"
      BY <1>2, <1>0, SMTT(60) DEF TableBt2
    <3> HIDE DEF d
    <3>5. Fits(d, k)
      BY <3>1, <3>2, <3>3, <3>4 DEF Fits
    <3> QED BY <3>5 DEF d
  <2> QED BY <2>1, <1>2, PlanSize
<1> QED BY <1>1, <1>2

LEMMA PlannedNodes ==
  ASSUME program \in {"bt1", "bt2"}
  PROVE  /\ "base" \in Planned /\ Planned \subseteq Dir!Names /\ FirstAt["base"] = 1
         /\ \A n \in Planned :
              /\ FirstAt[n] \in DOMAIN Dir!Plan /\ Dir!Plan[FirstAt[n]].node = n
              /\ LastAt[n] \in DOMAIN Dir!Plan /\ Dir!Plan[LastAt[n]].node = n
              /\ n # "base" => Dir!Parent[n] \in Planned /\ FirstAt[Dir!Parent[n]] < FirstAt[n]
              /\ n \notin Dir!Dirs => Dir!Plan[FirstAt[n]].op = "open"
<1>0. \A f, n, p : /\ Dir!Call(f, n, p).op = f /\ Dir!Call(f, n, p).node = n
                   /\ Dir!Call(f, n, p).perms = p
  BY DEF Dir!Call
<1>1. "base" \in Planned /\ Planned \subseteq Dir!Names /\ FirstAt["base"] = 1
  BY DEF Planned, FirstAt, Dir!Names, Dir!Parent
<1>2. CASE program = "bt1"
  <2>1. ASSUME NEW n \in Planned
        PROVE  /\ FirstAt[n] \in 1..18 /\ TableBt1[FirstAt[n]].node = n
               /\ LastAt[n] \in 1..18 /\ TableBt1[LastAt[n]].node = n
               /\ n # "base" => Dir!Parent[n] \in Planned /\ FirstAt[Dir!Parent[n]] < FirstAt[n]
               /\ n \notin Dir!Dirs => TableBt1[FirstAt[n]].op = "open"
    BY <1>2, <1>0, SMTT(60) DEF Planned, FirstAt, LastAt, TableBt1, Dir!Dirs, Dir!Parent
  <2> QED BY <2>1, <1>1, <1>2, PlanSize, SMTT(30)
<1>3. CASE program = "bt2"
  <2>1. ASSUME NEW n \in Planned
        PROVE  /\ FirstAt[n] \in 1..10 /\ TableBt2[FirstAt[n]].node = n
               /\ LastAt[n] \in 1..10 /\ TableBt2[LastAt[n]].node = n
               /\ n # "base" => Dir!Parent[n] \in Planned /\ FirstAt[Dir!Parent[n]] < FirstAt[n]
               /\ n \notin Dir!Dirs => TableBt2[FirstAt[n]].op = "open"
    BY <1>3, <1>0, SMTT(60) DEF Planned, FirstAt, LastAt, TableBt2, Dir!Dirs, Dir!Parent
  <2> QED BY <2>1, <1>1, <1>3, PlanSize, SMTT(30)
<1> QED BY <1>2, <1>3

\* A tree: what exists has its parents, and bt1 never leaves a directory that
\* its owner may not use.
IsTree(m) ==
  /\ m = [n \in DOMAIN m |-> m[n]]
  /\ DOMAIN m \subseteq Dir!Nodes
  /\ \A n \in DOMAIN m : m[n] \subseteq Dir!RWX
  /\ \A n \in DOMAIN m \ {"base"} : Dir!Parent[n] \in DOMAIN m
  /\ program = "bt1" => \A n \in DOMAIN m \cap Dir!Dirs : m[n] = Dir!RWX

\* The open directories are the base and perhaps one of its directories.
One(A) == <<[dir |-> "base", todo |-> A]>>
Two(A, d, B) == <<[dir |-> "base", todo |-> A], [dir |-> d, todo |-> B]>>

\* While the old tree is removed, all that is left of an open directory is
\* still to be read, and the directory may be used.
Cleaning ==
  phase = "setup" /\ stack # << >> =>
    /\ step = 1 /\ written = {}
    /\ "base" \in DOMAIN mode /\ mode["base"] = Dir!RWX
    /\ \/ stack = One(Dir!Entries(mode, "base"))
       \/ \E d \in (DOMAIN mode \cap Dir!Dirs) \ {"base"} :
            /\ mode[d] = Dir!RWX
            /\ stack = Two(Dir!Entries(mode, "base") \ {d}, d, Dir!Entries(mode, d))

\* While the new tree is made, there is in it what the plan has named so far,
\* with the permissions it gave last, and every file is written.
Drawing ==
  phase = "setup" /\ stack = << >> =>
    /\ step \in 1..(Len(Dir!Plan) + 1)
    /\ DOMAIN mode = {n \in Planned : FirstAt[n] < step}
    /\ \A k \in 1..(step - 1) :
         (\A l \in (k + 1)..(step - 1) : Dir!Plan[l].node # Dir!Plan[k].node)
           => mode[Dir!Plan[k].node] = Dir!Plan[k].perms
    /\ program = "bt1" \/ step <= 9 => \A d \in DOMAIN mode \cap Dir!Dirs : mode[d] = Dir!RWX
    /\ written = {n \in Planned : FirstAt[n] < step} \ Dir!Dirs

Visited == {d \in DOMAIN mode \cap Dir!Dirs : Dir!Found(mode, d) /\ Dir!Reachable(d)}
Seen == {n \in DOMAIN mode : n = "base" \/ Dir!Parent[n] \in Visited}

\* What a scan has to report and where it has to stop.
ToReport == {n \in Seen \ Dir!Dirs : Dir!Found(mode, n) /\ Dir!ReadOnly(n)}
ToBlock == {n \in Seen : ~Dir!Found(mode, n)} \cup ((Seen \cap Dir!Dirs) \ Visited)

\* What is still to be looked at with the directories s open: the entries not
\* yet read, and what is below them.
PendingIn(s) ==
  {n \in Seen : \/ \E k \in DOMAIN s : n \in s[k].todo
                \/ n # "base" /\ s # << >> /\ Dir!Parent[n] \in s[1].todo}

OpenInScan ==
  \/ stack = << >>
  \/ /\ "base" \in Visited
     /\ \E A \in SUBSET Dir!Entries(mode, "base") :
          \/ stack = One(A)
          \/ \E d \in Visited \ {"base"} : \E B \in SUBSET Dir!Entries(mode, d) :
               d \notin A /\ stack = Two(A, d, B)

\* The report and the list of blocked paths are exact for all but that.
Scanning ==
  /\ phase \in {"show", "scan"} => "base" \in DOMAIN mode
  /\ phase \in {"setup", "show"} => reported = {} /\ blocked = {}
  /\ phase \in {"idle", "show"} => stack = << >>
  /\ phase = "scan" =>
       /\ OpenInScan
       /\ reported = ToReport \ PendingIn(stack)
       /\ blocked = ToBlock \ PendingIn(stack)

DirState ==
  /\ program \in {"bt1", "bt2"} /\ root \in BOOLEAN
  /\ phase \in {"idle", "setup", "show", "scan"}
  /\ step \in 1..(Len(Dir!Plan) + 1)
  /\ written \cup reported \cup blocked \subseteq Dir!Nodes
  /\ IsTree(mode) /\ Cleaning /\ Drawing /\ Scanning
DirInv == exercise = "dir" => DirState

LEMMA PlanStays ==
  ASSUME program' = program
  PROVE  /\ Dir!Plan' = Dir!Plan /\ Dir!Nodes' = Dir!Nodes
         /\ Planned' = Planned /\ FirstAt' = FirstAt
         /\ \A m : IsTree(m)' <=> IsTree(m)
<1>1. Dir!Plan' = Dir!Plan
  BY DEF Dir!Plan
<1>2. Dir!Nodes' = Dir!Nodes
  BY <1>1 DEF Dir!Nodes
<1>3. FirstAt' = FirstAt
  BY DEF FirstAt
<1>4. Planned' = Planned
  BY <1>3 DEF Planned
<1> QED BY <1>1, <1>2, <1>3, <1>4 DEF IsTree

LEMMA NodesPlanned ==
  ASSUME program \in {"bt1", "bt2"}
  PROVE  /\ Dir!Nodes = Planned \cup (IF program = "bt1" THEN {} ELSE {"foreign"})
         /\ Dir!Nodes \subseteq Dir!Names /\ "base" \in Dir!Nodes
         /\ Planned = {Dir!Plan[k].node : k \in DOMAIN Dir!Plan}
<1>1. {Dir!Plan[k].node : k \in DOMAIN Dir!Plan} \subseteq Planned
  BY PlanOrder DEF Fits
<1>2. Planned \subseteq {Dir!Plan[k].node : k \in DOMAIN Dir!Plan}
  BY PlannedNodes
<1> QED BY <1>1, <1>2, PlannedNodes, DirNames DEF Dir!Nodes

\* Permissions decide what can be found, along the way up.
LEMMA FoundUp ==
  ASSUME NEW m, NEW n \in Dir!Names
  PROVE  Dir!Found(m, n) <=> /\ n # "base" => "base" \in DOMAIN m /\ Dir!Allowed(m, "base", "x")
                             /\ n # "base" /\ Dir!Parent[n] # "base" =>
                                  Dir!Parent[n] \in DOMAIN m /\ Dir!Allowed(m, Dir!Parent[n], "x")
BY DirAbove, DirNames DEF Dir!Found, UpTree

LEMMA WithIs ==
  \A m, n, p :
         /\ DOMAIN Dir!With(m, n, p) = DOMAIN m \cup {n}
         /\ Dir!With(m, n, p)[n] = p
         /\ \A k \in DOMAIN m : k # n => Dir!With(m, n, p)[k] = m[k]
BY DEF Dir!With

LEMMA WithSameEntries ==
  \A m, n, p : n \in DOMAIN m => \A d : Dir!Entries(Dir!With(m, n, p), d) = Dir!Entries(m, d)
BY DEF Dir!With, Dir!Entries

LEMMA WithoutIs ==
  \A m, n :
         /\ DOMAIN Dir!Without(m, n) = DOMAIN m \ {n}
         /\ \A k \in DOMAIN m : k # n => Dir!Without(m, n)[k] = m[k]
         /\ Dir!Without(m, n) = [k \in DOMAIN Dir!Without(m, n) |-> Dir!Without(m, n)[k]]
         /\ \A d : Dir!Entries(Dir!Without(m, n), d) = Dir!Entries(m, d) \ {n}
BY DEF Dir!Without, Dir!Restrict, Dir!Entries

LEMMA WithKeepsTree ==
  ASSUME program \in {"bt1", "bt2"}, NEW m, IsTree(m), NEW n \in Dir!Nodes,
         n # "base" => Dir!Parent[n] \in DOMAIN m,
         NEW p \in SUBSET Dir!RWX, program = "bt1" /\ n \in Dir!Dirs => p = Dir!RWX
  PROVE  IsTree(Dir!With(m, n, p))
<1> DEFINE w == Dir!With(m, n, p)
<1>1. /\ DOMAIN w = DOMAIN m \cup {n} /\ w[n] = p /\ \A k \in DOMAIN m : k # n => w[k] = m[k]
      /\ w = [k \in DOMAIN w |-> w[k]]
  BY DEF Dir!With
<1> HIDE DEF w
<1>2. DOMAIN w \subseteq Dir!Nodes /\ \A k \in DOMAIN w : w[k] \subseteq Dir!RWX
  BY <1>1 DEF IsTree
<1>3. \A k \in DOMAIN w \ {"base"} : Dir!Parent[k] \in DOMAIN w
  BY <1>1 DEF IsTree
<1>4. program = "bt1" => \A k \in DOMAIN w \cap Dir!Dirs : w[k] = Dir!RWX
  BY <1>1 DEF IsTree
<1>5. IsTree(w)
  BY <1>1, <1>2, <1>3, <1>4 DEF IsTree
<1> QED BY <1>5 DEF w

LEMMA WithoutKeepsTree ==
  ASSUME NEW m, IsTree(m), NEW n, Dir!Entries(m, n) = {}
  PROVE  IsTree(Dir!Without(m, n))
<1> DEFINE w == Dir!Without(m, n)
<1>1. /\ DOMAIN w = DOMAIN m \ {n} /\ \A k \in DOMAIN m : k # n => w[k] = m[k]
      /\ w = [k \in DOMAIN w |-> w[k]]
  BY WithoutIs
<1> HIDE DEF w
<1>2. DOMAIN w \subseteq Dir!Nodes /\ \A k \in DOMAIN w : w[k] \subseteq Dir!RWX
  BY <1>1 DEF IsTree
<1>3. \A k \in DOMAIN w \ {"base"} : Dir!Parent[k] \in DOMAIN w
  BY <1>1 DEF IsTree, Dir!Entries
<1>4. program = "bt1" => \A k \in DOMAIN w \cap Dir!Dirs : w[k] = Dir!RWX
  BY <1>1 DEF IsTree
<1>5. IsTree(w)
  BY <1>1, <1>2, <1>3, <1>4 DEF IsTree
<1> QED BY <1>5 DEF w

\* The base goes last.
LEMMA BaseGoesLast ==
  ASSUME program \in {"bt1", "bt2"}, NEW m, IsTree(m)
  PROVE  /\ "base" \notin DOMAIN m => DOMAIN m = {}
         /\ Dir!Entries(m, "base") = {} => DOMAIN m \subseteq {"base"}
         /\ \A n \in DOMAIN m : n \notin Dir!Dirs => Dir!Entries(m, n) = {}
         /\ \A n \in DOMAIN m : \A d : n \in Dir!Entries(m, d) => d \in DOMAIN m /\ d \in Dir!Dirs
<1>1. \A n \in DOMAIN m : n \in Dir!Names
  BY NodesPlanned DEF IsTree
<1>2. \A n \in DOMAIN m \ {"base"} : /\ Dir!Parent[n] \in DOMAIN m /\ Dir!Parent[n] \in Dir!Dirs
                                     /\ Dir!Parent[n] # "base" => Dir!Parent[Dir!Parent[n]] = "base"
  BY <1>1, DirNames DEF IsTree
<1> QED BY <1>2 DEF Dir!Entries

LEMMA AppendToOne == ASSUME NEW f, NEW g PROVE Append(<<f>>, g) = <<f, g>>
<1> DEFINE C == {f, g}
<1>1. <<f>> \in Seq(C) /\ <<f, g>> \in Seq(C) /\ g \in C /\ Append(<<f>>, g) \in Seq(C)
  OBVIOUS
<1>2. Len(Append(<<f>>, g)) = 2 /\ Append(<<f>>, g)[1] = f /\ Append(<<f>>, g)[2] = g
  BY <1>1, AppendProperties
<1>3. \A i \in 1..2 : Append(<<f>>, g)[i] = <<f, g>>[i]
  BY <1>2
<1> HIDE DEF C
<1> QED BY <1>1, <1>2, <1>3, SeqEqual

LEMMA FirstOfTwo == ASSUME NEW f, NEW g PROVE SubSeq(<<f, g>>, 1, 1) = <<f>>
<1> DEFINE C == {f, g}
           s == <<f, g>>
           t == SubSeq(s, 1, 1)
<1>1. <<f>> \in Seq(C) /\ s \in Seq(C) /\ Len(s) = 2 /\ s[1] = f
  OBVIOUS
<1> HIDE DEF C, s
<1>2. t \in Seq(C) /\ Len(t) = 1 /\ t[1] = f
  BY <1>1, SubSeqProperties
<1>3. \A i \in 1..1 : t[i] = <<f>>[i]
  BY <1>2
<1> HIDE DEF t
<1>4. t = <<f>>
  BY <1>1, <1>2, <1>3, SeqEqual
<1> QED BY <1>4 DEF t, s

LEMMA OpenOne ==
  ASSUME NEW A
  PROVE  /\ One(A) # << >> /\ Len(One(A)) = 1 /\ DOMAIN One(A) = {1}
         /\ One(A)[1].dir = "base" /\ One(A)[1].todo = A
         /\ Dir!Last(One(A)).dir = "base" /\ Dir!Last(One(A)).todo = A
         /\ Dir!Front(One(A)) = << >>
         /\ \A n : stack = One(A) => Dir!Rest(n) = One(A \ {n})
         /\ \A m, d : Append(One(A), Dir!Frame(m, d)) = Two(A, d, Dir!Entries(m, d))
<1> DEFINE f == [dir |-> "base", todo |-> A]
<1>1. One(A) = <<f>> /\ Len(One(A)) = 1 /\ DOMAIN One(A) = {1} /\ One(A)[1] = f
  BY DEF One
<1>2. Dir!Last(One(A)) = f
  BY <1>1 DEF Dir!Last
<1>3. Dir!Front(One(A)) = << >>
  BY <1>1 DEF Dir!Front
<1>4. \A n : [f EXCEPT !.todo = @ \ {n}] = [dir |-> "base", todo |-> A \ {n}]
  OBVIOUS
<1>5. ASSUME NEW n, stack = One(A) PROVE Dir!Rest(n) = One(A \ {n})
  <2>1. Dir!Rest(n) = Append(<< >>, [f EXCEPT !.todo = @ \ {n}])
    BY <1>2, <1>3, <1>5 DEF Dir!Rest
  <2> QED BY <2>1, <1>4 DEF One
<1>6. \A m, d : Append(One(A), Dir!Frame(m, d)) = Two(A, d, Dir!Entries(m, d))
  <2> TAKE m, d
  <2> DEFINE g == [dir |-> d, todo |-> Dir!Entries(m, d)]
  <2>1. Dir!Frame(m, d) = g /\ One(A) = <<f>> /\ Two(A, d, Dir!Entries(m, d)) = <<f, g>>
    BY DEF One, Two, Dir!Frame
  <2> HIDE DEF f, g
  <2> QED BY <2>1, AppendToOne
<1>7. f.dir = "base" /\ f.todo = A /\ One(A) # << >>
  BY <1>1
<1> HIDE DEF f
<1> QED BY <1>1, <1>2, <1>3, <1>5, <1>6, <1>7

LEMMA OpenTwo ==
  ASSUME NEW A, NEW d, NEW B
  PROVE  /\ Two(A, d, B) # << >> /\ Len(Two(A, d, B)) = 2 /\ DOMAIN Two(A, d, B) = {1, 2}
         /\ Two(A, d, B)[1].dir = "base" /\ Two(A, d, B)[1].todo = A
         /\ Two(A, d, B)[2].dir = d /\ Two(A, d, B)[2].todo = B
         /\ Dir!Last(Two(A, d, B)).dir = d /\ Dir!Last(Two(A, d, B)).todo = B
         /\ Dir!Front(Two(A, d, B)) = One(A)
         /\ \A n : stack = Two(A, d, B) => Dir!Rest(n) = Two(A, d, B \ {n})
<1> DEFINE f == [dir |-> "base", todo |-> A]
           g == [dir |-> d, todo |-> B]
           h(n) == [dir |-> d, todo |-> B \ {n}]
<1>1. /\ Two(A, d, B) = <<f, g>> /\ Len(Two(A, d, B)) = 2 /\ DOMAIN Two(A, d, B) = {1, 2}
      /\ Two(A, d, B)[1] = f /\ Two(A, d, B)[2] = g /\ One(A) = <<f>>
  BY DEF One, Two
<1>2. Dir!Last(Two(A, d, B)) = g
  BY <1>1 DEF Dir!Last
<1>3. Dir!Front(Two(A, d, B)) = <<f>>
  <2>1. Dir!Front(Two(A, d, B)) = SubSeq(<<f, g>>, 1, 1)
    BY <1>1 DEF Dir!Front
  <2> HIDE DEF f, g
  <2> QED BY <2>1, FirstOfTwo
<1>4. \A n : [g EXCEPT !.todo = @ \ {n}] = h(n)
  OBVIOUS
<1>5. ASSUME NEW n, stack = Two(A, d, B) PROVE Dir!Rest(n) = Two(A, d, B \ {n})
  <2>1. Dir!Rest(n) = Append(<<f>>, [g EXCEPT !.todo = @ \ {n}])
    BY <1>2, <1>3, <1>5 DEF Dir!Rest
  <2>2. Append(<<f>>, h(n)) = <<f, h(n)>>
    <3> HIDE DEF f, h
    <3> QED BY AppendToOne
  <2> QED BY <2>1, <2>2, <1>4 DEF Two
<1>7. f.dir = "base" /\ f.todo = A /\ g.dir = d /\ g.todo = B /\ Two(A, d, B) # << >>
  BY <1>1
<1> HIDE DEF f, g
<1> QED BY <1>1, <1>2, <1>3, <1>5, <1>7

LEMMA RobustKeeps ==
  ASSUME program \in {"bt1", "bt2"}, NEW m, IsTree(m), NEW n \in DOMAIN m
  PROVE  /\ IsTree(Dir!Robust(m, n)) /\ DOMAIN Dir!Robust(m, n) = DOMAIN m
         /\ \A k \in DOMAIN m : k # n => Dir!Robust(m, n)[k] = m[k]
         /\ \A d : Dir!Entries(Dir!Robust(m, n), d) = Dir!Entries(m, d)
         /\ n \in Dir!Dirs /\ Dir!Found(m, n) => Dir!Robust(m, n)[n] = Dir!RWX
<1>1. n \in Dir!Nodes /\ (n # "base" => Dir!Parent[n] \in DOMAIN m)
  BY DEF IsTree
<1>2. CASE Dir!Robust(m, n) = m
  <2>1. program = "bt1" \/ ~Dir!Found(m, n) \/ Dir!With(m, n, Dir!RWX) = m
    BY <1>2 DEF Dir!Robust, Dir!Chmod
  <2>2. n \in Dir!Dirs /\ Dir!Found(m, n) => m[n] = Dir!RWX
    BY <2>1, WithIs DEF IsTree
  <2> QED BY <1>2, <2>2
<1>3. CASE Dir!Robust(m, n) # m
  <2>1. Dir!Robust(m, n) = Dir!With(m, n, Dir!RWX)
    BY <1>3 DEF Dir!Robust, Dir!Chmod
  <2>2. IsTree(Dir!With(m, n, Dir!RWX))
    BY <1>1, WithKeepsTree
  <2>3. DOMAIN Dir!With(m, n, Dir!RWX) = DOMAIN m /\ Dir!With(m, n, Dir!RWX)[n] = Dir!RWX
    <3>1. DOMAIN Dir!With(m, n, Dir!RWX) = DOMAIN m \cup {n}
      BY WithIs
    <3>2. Dir!With(m, n, Dir!RWX)[n] = Dir!RWX
      BY WithIs
    <3> QED BY <3>1, <3>2
  <2>4. \A k \in DOMAIN m : k # n => Dir!With(m, n, Dir!RWX)[k] = m[k]
    BY WithIs
  <2>5. \A d : Dir!Entries(Dir!With(m, n, Dir!RWX), d) = Dir!Entries(m, d)
    BY WithSameEntries
  <2> QED BY <2>1, <2>2, <2>3, <2>4, <2>5
<1> QED BY <1>2, <1>3

\* A directory that can be found is opened, once its permissions are restored.
LEMMA CleanEnters ==
  ASSUME program \in {"bt1", "bt2"}, NEW m, IsTree(m), NEW d \in DOMAIN m,
         d \in Dir!Dirs, Dir!Found(m, d), NEW frames, Dir!EnterClean(m, d, frames)
  PROVE  /\ mode' = Dir!Robust(m, d) /\ mode'[d] = Dir!RWX
         /\ IsTree(mode') /\ DOMAIN mode' = DOMAIN m
         /\ \A k \in DOMAIN m : k # d => mode'[k] = m[k]
         /\ \A e : Dir!Entries(mode', e) = Dir!Entries(m, e)
         /\ stack' = Append(frames, Dir!Frame(mode', d))
<1> DEFINE r == Dir!Robust(m, d)
<1>1. /\ IsTree(r) /\ DOMAIN r = DOMAIN m /\ \A k \in DOMAIN m : k # d => r[k] = m[k]
      /\ \A e : Dir!Entries(r, e) = Dir!Entries(m, e)
      /\ r[d] = Dir!RWX
  BY RobustKeeps
<1>2. mode' = r /\ stack' = IF Dir!MayOpenDir(r, d) THEN Append(frames, Dir!Frame(r, d)) ELSE frames
  BY <1>1 DEF Dir!EnterClean, Dir!Frame
<1> HIDE DEF r
<1>3. d \in Dir!Names
  BY DirNames
<1>4. Dir!Found(r, d)
  <2>1. d # "base" => Dir!Parent[d] # d
    BY <1>3, DirNames
  <2>2. \A k \in DOMAIN m : k # d => (Dir!Allowed(r, k, "x") <=> Dir!Allowed(m, k, "x"))
    BY <1>1 DEF Dir!Allowed
  <2> QED BY <1>1, <1>3, <2>1, <2>2, FoundUp
<1>5. Dir!Allowed(r, d, "r")
  BY <1>1 DEF Dir!Allowed, Dir!RWX
<1>6. Dir!MayOpenDir(r, d)
  BY <1>1, <1>4, <1>5 DEF Dir!MayOpenDir
<1>7. stack' = Append(frames, Dir!Frame(r, d))
  BY <1>2, <1>6
<1> QED BY <1>1, <1>2, <1>7 DEF r

\* Below directories that may be used everything is found and may be removed.
LEMMA UnlinkSucceeds ==
  ASSUME program \in {"bt1", "bt2"}, NEW m, IsTree(m), NEW n \in DOMAIN m,
         n # "base" => m["base"] = Dir!RWX /\ m[Dir!Parent[n]] = Dir!RWX
  PROVE  Dir!Found(m, n) /\ Dir!Unlinked(m, n) = Dir!Without(m, n)
<1>1. n \in Dir!Names /\ (n # "base" => Dir!Parent[n] \in DOMAIN m)
  BY NodesPlanned DEF IsTree
<1>2. n # "base" => "base" \in DOMAIN m
  BY BaseGoesLast
<1>3. n # "base" => /\ Dir!Allowed(m, "base", "x") /\ Dir!Allowed(m, Dir!Parent[n], "x")
                    /\ Dir!Allowed(m, Dir!Parent[n], "w")
  BY DEF Dir!Allowed, Dir!RWX
<1>4. Dir!Found(m, n)
  BY <1>1, <1>2, <1>3, FoundUp
<1>5. Dir!MayChangeDir(m, n)
  BY <1>1, <1>3, <1>4 DEF Dir!MayChangeDir
<1> QED BY <1>4, <1>5 DEF Dir!Unlinked

LEMMA NothingMadeYet ==
  ASSUME program \in {"bt1", "bt2"}
  PROVE  {n \in Planned : FirstAt[n] < 1} = {}
BY PlannedNodes, PlanSize

LEMMA StartsDir ==
  ASSUME DirState, Dir!Start PROVE DirState'
<1> USE DEF DirState
<1>1. program \in {"bt1", "bt2"} /\ IsTree(mode)
  OBVIOUS
<1>2. /\ phase' = "setup" /\ step' = 1 /\ written' = {} /\ reported' = {} /\ blocked' = {}
      /\ Dir!EnterClean(mode, "base", << >>) /\ program' = program /\ root' = root
  BY DEF Dir!Start
<1>3. 1 \in 1..(Len(Dir!Plan) + 1)
  BY PlanSize
<1>4. Scanning'
  BY <1>2 DEF Scanning
<1>5. IsTree(mode') /\ Cleaning' /\ Drawing'
  <2>1. CASE "base" \in DOMAIN mode
    <3>1. Dir!Found(mode, "base")
      BY DirNames, FoundUp
    <3>2. /\ mode'["base"] = Dir!RWX /\ IsTree(mode') /\ "base" \in DOMAIN mode'
          /\ stack' = Append(<< >>, Dir!Frame(mode', "base"))
      <4> DEFINE none == << >>
      <4>1. Dir!EnterClean(mode, "base", none) /\ "base" \in Dir!Dirs
        BY <1>2, DirNames
      <4> HIDE DEF none
      <4>2. /\ mode'["base"] = Dir!RWX /\ IsTree(mode') /\ DOMAIN mode' = DOMAIN mode
            /\ stack' = Append(none, Dir!Frame(mode', "base"))
        BY <1>1, <2>1, <3>1, <4>1, CleanEnters
      <4> QED BY <4>2, <2>1 DEF none
    <3>3. stack' = One(Dir!Entries(mode', "base"))
      BY <3>2 DEF One, Dir!Frame
    <3>4. stack' # << >>
      BY <3>3, OpenOne
    <3> QED BY <1>2, <3>2, <3>3, <3>4 DEF Cleaning, Drawing
  <2>2. CASE "base" \notin DOMAIN mode
    <3>1. mode' = mode /\ stack' = << >>
      BY <1>2, <2>2 DEF Dir!EnterClean, Dir!Robust, Dir!Chmod, Dir!MayOpenDir
    <3>2. DOMAIN mode = {}
      BY <1>1, <2>2, BaseGoesLast
    <3>3. {n \in Planned : FirstAt[n] < step}' = {}
      BY <1>1, <1>2, NothingMadeYet, PlanStays
    <3>4. Drawing'
      BY <1>2, <1>3, <3>1, <3>2, <3>3, PlanStays DEF Drawing
    <3> QED BY <1>1, <1>2, <3>1, <3>4 DEF Cleaning
  <2> QED BY <2>1, <2>2
<1> QED BY <1>1, <1>2, <1>3, <1>4, <1>5, PlanStays

LEMMA CleansEntry ==
  ASSUME DirState, Dir!CleanEntry PROVE DirState'
<1> USE DEF DirState
<1>1. /\ program \in {"bt1", "bt2"} /\ IsTree(mode) /\ phase = "setup" /\ stack # << >>
      /\ program' = program /\ root' = root /\ phase' = phase /\ step' = step
      /\ written' = written /\ reported' = reported /\ blocked' = blocked
  BY DEF Dir!CleanEntry
<1> DEFINE E(d) == Dir!Entries(mode, d)
<1>2. /\ step = 1 /\ written = {} /\ "base" \in DOMAIN mode /\ mode["base"] = Dir!RWX
      /\ \/ stack = One(E("base"))
         \/ \E d \in (DOMAIN mode \cap Dir!Dirs) \ {"base"} :
              mode[d] = Dir!RWX /\ stack = Two(E("base") \ {d}, d, E(d))
  BY <1>1 DEF Cleaning
<1>3. PICK n \in Dir!Last(stack).todo :
        IF program = "bt1" THEN Dir!CleanBt1(n) ELSE Dir!CleanBt2(n)
  BY DEF Dir!CleanEntry
<1> DEFINE r == Dir!Robust(mode, n)
<1>4. IF n \in Dir!Dirs /\ Dir!Found(mode, n)
        THEN Dir!EnterClean(r, n, Dir!Rest(n))
        ELSE stack' = Dir!Rest(n) /\ mode' = Dir!Unlinked(r, n)
  <2>1. program = "bt1" => r = mode
    BY DEF Dir!Robust
  <2>2. CASE program = "bt1"
    BY <1>3, <2>1, <2>2 DEF Dir!CleanBt1
  <2>3. CASE program # "bt1"
    BY <1>3, <2>3 DEF Dir!CleanBt2
  <2> QED BY <2>2, <2>3
\* An entry of an open directory, which may be used.
<1>5. /\ n \in DOMAIN mode /\ n # "base" /\ n \in E(Dir!Parent[n]) /\ mode[Dir!Parent[n]] = Dir!RWX
      /\ \/ stack = One(E("base")) /\ Dir!Parent[n] = "base"
         \/ LET d == Dir!Parent[n]
            IN  /\ d \in (DOMAIN mode \cap Dir!Dirs) \ {"base"}
                /\ stack = Two(E("base") \ {d}, d, E(d))
  <2>1. CASE stack = One(E("base"))
    <3>1. n \in E("base")
      BY <1>3, <2>1, OpenOne
    <3> QED BY <1>2, <2>1, <3>1 DEF Dir!Entries
  <2>2. ASSUME NEW d \in (DOMAIN mode \cap Dir!Dirs) \ {"base"}, mode[d] = Dir!RWX,
               stack = Two(E("base") \ {d}, d, E(d))
        PROVE  /\ n \in DOMAIN mode /\ n # "base" /\ n \in E(Dir!Parent[n])
               /\ mode[Dir!Parent[n]] = Dir!RWX /\ Dir!Parent[n] = d
    <3>1. n \in E(d)
      BY <1>3, <2>2, OpenTwo
    <3> QED BY <2>2, <3>1 DEF Dir!Entries
  <2> QED BY <1>2, <2>1, <2>2
<1>6. /\ IsTree(r) /\ DOMAIN r = DOMAIN mode /\ \A k \in DOMAIN mode : k # n => r[k] = mode[k]
      /\ \A d : Dir!Entries(r, d) = E(d)
  BY <1>1, <1>5, RobustKeeps
<1>7. n \in Dir!Names /\ Dir!Parent[n] \in DOMAIN mode /\ Dir!Parent[n] # n
  BY <1>1, <1>5, NodesPlanned, DirNames DEF IsTree
<1>8. /\ Dir!Found(mode, n) /\ Dir!Found(r, n) /\ Dir!Unlinked(r, n) = Dir!Without(r, n)
  <2>1. r["base"] = Dir!RWX /\ r[Dir!Parent[n]] = Dir!RWX
    BY <1>2, <1>5, <1>6, <1>7
  <2>2. n \in DOMAIN r
    BY <1>5, <1>6
  <2>3. Dir!Found(mode, n)
    BY <1>1, <1>2, <1>5, UnlinkSucceeds
  <2> HIDE DEF r
  <2>4. Dir!Found(r, n) /\ Dir!Unlinked(r, n) = Dir!Without(r, n)
    BY <1>1, <1>6, <2>1, <2>2, UnlinkSucceeds
  <2> QED BY <2>3, <2>4
<1> HIDE DEF r
<1>9. IsTree(mode') /\ Cleaning' /\ stack' # << >>
  <2>1. CASE n \in Dir!Dirs
    <3>1. Dir!Parent[n] = "base" /\ stack = One(E("base"))
      BY <1>5, <1>7, <2>1, DirNames
    <3>2. Dir!Rest(n) = One(E("base") \ {n})
      BY <3>1, OpenOne
    <3>3. Dir!EnterClean(r, n, One(E("base") \ {n})) /\ n \in DOMAIN r
      BY <1>4, <1>5, <1>6, <1>8, <2>1, <3>2
    <3>4. /\ mode'[n] = Dir!RWX /\ IsTree(mode') /\ DOMAIN mode' = DOMAIN r
          /\ \A k \in DOMAIN r : k # n => mode'[k] = r[k]
          /\ \A e : Dir!Entries(mode', e) = Dir!Entries(r, e)
          /\ stack' = Append(One(E("base") \ {n}), Dir!Frame(mode', n))
      BY <1>1, <1>6, <1>8, <2>1, <3>3, CleanEnters
    <3>5. stack' = Two(E("base") \ {n}, n, Dir!Entries(mode', n))
      BY <3>4, OpenOne
    <3>6. stack' = Two(Dir!Entries(mode', "base") \ {n}, n, Dir!Entries(mode', n))
      BY <1>6, <3>4, <3>5
    <3>7. /\ n \in (DOMAIN mode' \cap Dir!Dirs) \ {"base"} /\ "base" \in DOMAIN mode'
          /\ mode'["base"] = Dir!RWX
      BY <1>2, <1>5, <1>6, <2>1, <3>4
    <3>8. stack' # << >>
      BY <3>6, OpenTwo
    <3> QED BY <1>1, <1>2, <3>4, <3>6, <3>7, <3>8 DEF Cleaning
  <2>2. CASE n \notin Dir!Dirs
    <3>1. stack' = Dir!Rest(n) /\ mode' = Dir!Without(r, n)
      BY <1>4, <1>8, <2>2
    <3>2. /\ DOMAIN mode' = DOMAIN mode \ {n} /\ \A k \in DOMAIN mode : k # n => mode'[k] = mode[k]
          /\ \A d : Dir!Entries(mode', d) = E(d) \ {n}
      <4>1. DOMAIN Dir!Without(r, n) = DOMAIN r \ {n}
        BY WithoutIs
      <4>2. \A k \in DOMAIN r : k # n => Dir!Without(r, n)[k] = r[k]
        BY WithoutIs
      <4>3. \A d : Dir!Entries(Dir!Without(r, n), d) = Dir!Entries(r, d) \ {n}
        BY WithoutIs
      <4> QED BY <1>6, <3>1, <4>1, <4>2, <4>3
    <3>3. Dir!Entries(r, n) = {}
      BY <1>1, <1>5, <1>6, <2>2, BaseGoesLast
    <3>4. IsTree(mode')
      BY <1>6, <3>1, <3>3, WithoutKeepsTree
    <3>5. "base" \in DOMAIN mode' /\ mode'["base"] = Dir!RWX
      BY <1>2, <1>5, <3>2
    <3>6. CASE stack = One(E("base")) /\ Dir!Parent[n] = "base"
      <4>1. stack' = One(Dir!Entries(mode', "base"))
        BY <3>1, <3>2, <3>6, OpenOne
      <4>2. stack' # << >>
        BY <4>1, OpenOne
      <4> QED BY <1>1, <1>2, <3>4, <3>5, <4>1, <4>2 DEF Cleaning
    <3>7. ASSUME NEW d \in (DOMAIN mode \cap Dir!Dirs) \ {"base"}, d = Dir!Parent[n],
                 stack = Two(E("base") \ {d}, d, E(d))
          PROVE  Cleaning' /\ stack' # << >>
      <4>1. stack' = Two(E("base") \ {d}, d, E(d) \ {n})
        <5> DEFINE A == E("base") \ {d}
                   B == E(d)
        <5>1. stack = Two(A, d, B)
          BY <3>7
        <5> HIDE DEF A, B
        <5>2. Dir!Rest(n) = Two(A, d, B \ {n})
          BY <5>1, OpenTwo
        <5> QED BY <3>1, <5>2 DEF A, B
      <4>2. n \notin E("base")
        BY <3>7 DEF Dir!Entries
      <4>3. Dir!Entries(mode', "base") \ {d} = E("base") \ {d}
        BY <3>2, <4>2
      <4>4. stack' = Two(Dir!Entries(mode', "base") \ {d}, d, Dir!Entries(mode', d))
        BY <3>2, <4>1, <4>3
      <4>5. d \in (DOMAIN mode' \cap Dir!Dirs) \ {"base"} /\ mode'[d] = Dir!RWX
        BY <1>5, <2>2, <3>2, <3>7
      <4>6. stack' # << >>
        BY <4>4, OpenTwo
      <4> QED BY <1>1, <1>2, <3>5, <4>4, <4>5, <4>6 DEF Cleaning
    <3> QED BY <1>5, <3>4, <3>6, <3>7
  <2> QED BY <2>1, <2>2
<1>10. Drawing' /\ Scanning'
  BY <1>1, <1>9 DEF Drawing, Scanning
<1> QED BY <1>1, <1>9, <1>10, PlanStays

LEMMA CleansDir ==
  ASSUME DirState, Dir!CleanDirDone PROVE DirState'
<1> USE DEF DirState
<1>1. /\ program \in {"bt1", "bt2"} /\ IsTree(mode) /\ phase = "setup" /\ stack # << >>
      /\ program' = program /\ root' = root /\ phase' = phase /\ step' = step
      /\ written' = written /\ reported' = reported /\ blocked' = blocked
      /\ Dir!Last(stack).todo = {} /\ stack' = Dir!Front(stack)
      /\ LET d == Dir!Last(stack).dir
         IN  mode' = IF Dir!Entries(mode, d) = {} THEN Dir!Unlinked(mode, d) ELSE mode
  BY DEF Dir!CleanDirDone
<1> DEFINE E(d) == Dir!Entries(mode, d)
<1>2. /\ step = 1 /\ written = {} /\ "base" \in DOMAIN mode /\ mode["base"] = Dir!RWX
      /\ \/ stack = One(E("base"))
         \/ \E d \in (DOMAIN mode \cap Dir!Dirs) \ {"base"} :
              mode[d] = Dir!RWX /\ stack = Two(E("base") \ {d}, d, E(d))
  BY <1>1 DEF Cleaning
<1>3. CASE stack = One(E("base"))
  <2>1. E("base") = {} /\ stack' = << >> /\ mode' = Dir!Unlinked(mode, "base")
    BY <1>1, <1>3, OpenOne
  <2>2. mode' = Dir!Without(mode, "base")
    BY <1>1, <1>2, <2>1, UnlinkSucceeds
  <2>3. DOMAIN mode' = {}
    <3>1. DOMAIN Dir!Without(mode, "base") = DOMAIN mode \ {"base"}
      BY WithoutIs
    <3>2. DOMAIN mode \subseteq {"base"}
      BY <1>1, <2>1, BaseGoesLast
    <3> QED BY <2>2, <3>1, <3>2
  <2>4. IsTree(mode')
    BY <1>1, <2>1, <2>2, WithoutKeepsTree
  <2>5. {k \in Planned : FirstAt[k] < step}' = {}
    BY <1>1, <1>2, NothingMadeYet, PlanStays
  <2>6. Drawing'
    BY <1>1, <1>2, <2>1, <2>3, <2>5, PlanStays DEF Drawing
  <2> QED BY <1>1, <2>1, <2>4, <2>6, PlanStays DEF Cleaning, Scanning
<1>4. ASSUME NEW d \in (DOMAIN mode \cap Dir!Dirs) \ {"base"}, mode[d] = Dir!RWX,
             stack = Two(E("base") \ {d}, d, E(d))
      PROVE  DirState'
  <2>1. E(d) = {} /\ stack' = One(E("base") \ {d}) /\ mode' = Dir!Unlinked(mode, d)
    BY <1>1, <1>4, OpenTwo
  <2>2. Dir!Parent[d] = "base"
    BY <1>4, DirNames
  <2>3. mode' = Dir!Without(mode, d)
    BY <1>1, <1>2, <2>1, <2>2, UnlinkSucceeds
  <2>4. IsTree(mode')
    BY <1>1, <2>1, <2>3, WithoutKeepsTree
  <2>5. /\ "base" \in DOMAIN mode' /\ mode'["base"] = Dir!RWX
        /\ Dir!Entries(mode', "base") = E("base") \ {d}
    <3>1. DOMAIN Dir!Without(mode, d) = DOMAIN mode \ {d}
      BY WithoutIs
    <3>2. \A k \in DOMAIN mode : k # d => Dir!Without(mode, d)[k] = mode[k]
      BY WithoutIs
    <3>3. Dir!Entries(Dir!Without(mode, d), "base") = Dir!Entries(mode, "base") \ {d}
      BY WithoutIs
    <3> QED BY <1>2, <1>4, <2>3, <3>1, <3>2, <3>3
  <2>6. stack' = One(Dir!Entries(mode', "base"))
    BY <2>1, <2>5
  <2>7. stack' # << >>
    BY <2>6, OpenOne
  <2>8. Cleaning'
    BY <1>1, <1>2, <2>5, <2>6 DEF Cleaning
  <2> QED BY <1>1, <2>4, <2>7, <2>8, PlanStays DEF Drawing, Scanning
<1> QED BY <1>2, <1>3, <1>4

\* Whatever the plan does next succeeds: the permissions on the way to the
\* node are all there until the last two calls.
LEMMA BuildsCall ==
  ASSUME DirState, Dir!Build
  PROVE  LET c == Dir!Plan[step]
         IN  /\ step \in DOMAIN Dir!Plan
             /\ mode' = Dir!With(mode, c.node, c.perms)
             /\ step' = step + 1 /\ phase' = phase /\ phase = "setup"
             /\ stack' = stack /\ stack = << >>
             /\ written' = IF c.op = "open" THEN written \cup {c.node} ELSE written
             /\ c.node \in Dir!Nodes /\ (c.node # "base" => Dir!Parent[c.node] \in DOMAIN mode)
<1> USE DEF DirState
<1> DEFINE c == Dir!Plan[step]
<1>1. /\ program \in {"bt1", "bt2"} /\ IsTree(mode) /\ phase = "setup" /\ stack = << >>
      /\ step <= Len(Dir!Plan) /\ stack' = stack
      /\ \/ c.op = "mkdir" /\ Dir!Mkdir(c) /\ written' = written
         \/ c.op = "open" /\ Dir!OpenAndWrite(c) /\ phase' = phase
         \/ /\ c.op = "chmod" /\ mode' = Dir!Chmod(mode, c.node, c.perms)
            /\ step' = step + 1 /\ phase' = phase /\ written' = written
  BY DEF Dir!Build, Dir!Building
<1>2. step \in DOMAIN Dir!Plan /\ step \in 1..Len(Dir!Plan)
  BY <1>1, PlanSize
<1>3. /\ c.node \in Planned /\ (c.op = "chmod" => FirstAt[c.node] < step)
      /\ (c.op # "chmod" => FirstAt[c.node] = step)
      /\ (program = "bt2" /\ step = 10 => c.node = "base")
  BY <1>1, <1>2, PlanOrder DEF Fits
<1>4. /\ DOMAIN mode = {n \in Planned : FirstAt[n] < step}
      /\ (program = "bt1" \/ step <= 9) => \A d \in DOMAIN mode \cap Dir!Dirs : mode[d] = Dir!RWX
  BY <1>1 DEF Drawing
<1>5. c.node \in Dir!Names /\ c.node \in Dir!Nodes
  BY <1>1, <1>3, NodesPlanned
<1>6. ASSUME c.node # "base" PROVE Dir!Parent[c.node] \in DOMAIN mode
  <2>1. Dir!Parent[c.node] \in Planned /\ FirstAt[Dir!Parent[c.node]] < FirstAt[c.node]
    BY <1>1, <1>3, <1>6, PlannedNodes
  <2>2. FirstAt[Dir!Parent[c.node]] \in Nat /\ FirstAt[c.node] \in Nat /\ step \in Nat
    <3>1. FirstAt[Dir!Parent[c.node]] \in DOMAIN Dir!Plan /\ FirstAt[c.node] \in DOMAIN Dir!Plan
      BY <1>1, <1>3, <2>1, PlannedNodes
    <3>2. DOMAIN Dir!Plan \subseteq Nat
      BY <1>1, PlanSize
    <3> QED BY <1>2, <3>1, <3>2
  <2>3. FirstAt[c.node] <= step
    BY <1>3, <2>2
  <2> QED BY <1>4, <2>1, <2>2, <2>3
<1>7. ASSUME c.node # "base" PROVE "base" \in DOMAIN mode
  BY <1>1, <1>6, <1>7, BaseGoesLast
<1>8. ASSUME c.node # "base" PROVE mode["base"] = Dir!RWX /\ mode[Dir!Parent[c.node]] = Dir!RWX
  <2>1. program = "bt1" \/ step <= 9
    BY <1>1, <1>2, <1>3, <1>8, PlanSize
  <2>2. Dir!Parent[c.node] \in Dir!Dirs /\ "base" \in Dir!Dirs
    BY <1>5, <1>8, DirNames
  <2> QED BY <1>4, <1>6, <1>7, <1>8, <2>1, <2>2
<1>9. Dir!Found(mode, c.node) /\ Dir!MayChangeDir(mode, c.node)
  <2>1. c.node # "base" => /\ Dir!Allowed(mode, "base", "x") /\ Dir!Allowed(mode, Dir!Parent[c.node], "x")
                           /\ Dir!Allowed(mode, Dir!Parent[c.node], "w")
    BY <1>8 DEF Dir!Allowed, Dir!RWX
  <2>2. Dir!Found(mode, c.node)
    BY <1>5, <1>6, <1>7, <2>1, FoundUp
  <2> QED BY <1>6, <2>1, <2>2 DEF Dir!MayChangeDir
<1> DEFINE w == Dir!With(mode, c.node, c.perms)
<1> HIDE DEF w
<1>10. mode' = w /\ step' = step + 1 /\ phase' = phase
       /\ written' = IF c.op = "open" THEN written \cup {c.node} ELSE written
  <2>1. CASE c.op = "mkdir" /\ Dir!Mkdir(c) /\ written' = written
    <3>1. c.node \notin DOMAIN mode
      BY <1>2, <1>3, <1>4, <2>1, PlanSize
    <3> QED BY <1>9, <2>1, <3>1 DEF Dir!Mkdir, w
  <2>2. CASE c.op = "open" /\ Dir!OpenAndWrite(c) /\ phase' = phase
    <3>1. c.node \notin DOMAIN mode
      BY <1>2, <1>3, <1>4, <2>2, PlanSize
    <3>2. Dir!MayWriteFile(c.node)
      BY <1>9, <3>1 DEF Dir!MayWriteFile
    <3> QED BY <2>2, <3>1, <3>2 DEF Dir!OpenAndWrite, w
  <2>3. CASE /\ c.op = "chmod" /\ mode' = Dir!Chmod(mode, c.node, c.perms)
             /\ step' = step + 1 /\ phase' = phase /\ written' = written
    <3>1. c.node \in DOMAIN mode
      BY <1>3, <1>4, <2>3
    <3> QED BY <1>9, <2>3, <3>1 DEF Dir!Chmod, w
  <2> QED BY <1>1, <2>1, <2>2, <2>3
<1> QED BY <1>1, <1>2, <1>5, <1>6, <1>10 DEF w

LEMMA BuildsTree ==
  ASSUME DirState, Dir!Build PROVE DirState'
<1> USE DEF DirState
<1> DEFINE c == Dir!Plan[step]
<1>1. /\ program \in {"bt1", "bt2"} /\ IsTree(mode) /\ root \in BOOLEAN
      /\ program' = program /\ root' = root /\ reported' = reported /\ blocked' = blocked
  BY DEF Dir!Build
<1>2. /\ step \in DOMAIN Dir!Plan /\ mode' = Dir!With(mode, c.node, c.perms)
      /\ step' = step + 1 /\ phase' = phase /\ phase = "setup"
      /\ stack' = stack /\ stack = << >>
      /\ written' = IF c.op = "open" THEN written \cup {c.node} ELSE written
      /\ c.node \in Dir!Nodes /\ (c.node # "base" => Dir!Parent[c.node] \in DOMAIN mode)
  BY BuildsCall
<1>3. /\ c.node \in Planned /\ (c.op = "chmod" => FirstAt[c.node] < step)
      /\ (c.op # "chmod" => FirstAt[c.node] = step)
      /\ (c.op = "open" => c.node \notin Dir!Dirs)
      /\ (c.op = "mkdir" => c.node \in Dir!Dirs)
      /\ c.op \in {"mkdir", "open", "chmod"} /\ c.perms \subseteq Dir!RWX
      /\ (program = "bt1" /\ c.node \in Dir!Dirs => c.perms = Dir!RWX)
      /\ (program = "bt2" /\ c.node \in Dir!Dirs /\ step < 9 => c.perms = Dir!RWX)
  BY <1>1, <1>2, PlanOrder DEF Fits
<1>4. /\ DOMAIN mode = {n \in Planned : FirstAt[n] < step}
      /\ (program = "bt1" \/ step <= 9) => \A d \in DOMAIN mode \cap Dir!Dirs : mode[d] = Dir!RWX
      /\ written = {n \in Planned : FirstAt[n] < step} \ Dir!Dirs
      /\ \A k \in 1..(step - 1) :
           (\A l \in (k + 1)..(step - 1) : Dir!Plan[l].node # Dir!Plan[k].node)
             => mode[Dir!Plan[k].node] = Dir!Plan[k].perms
  BY <1>2 DEF Drawing
<1>5. step \in Nat \ {0} /\ step \in 1..Len(Dir!Plan) /\ Len(Dir!Plan) \in Nat
  BY <1>1, <1>2, PlanSize
<1>6. \A n \in Planned : FirstAt[n] \in Nat /\ (FirstAt[n] = step => n = c.node)
  <2>1. \A n \in Planned : FirstAt[n] \in DOMAIN Dir!Plan /\ Dir!Plan[FirstAt[n]].node = n
    BY <1>1, PlannedNodes
  <2>2. DOMAIN Dir!Plan \subseteq Nat
    BY <1>1, PlanSize
  <2> QED BY <2>1, <2>2
<1> HIDE DEF c
<1>7. /\ DOMAIN mode' = DOMAIN mode \cup {c.node} /\ mode'[c.node] = c.perms
  <2>1. DOMAIN Dir!With(mode, c.node, c.perms) = DOMAIN mode \cup {c.node}
    BY WithIs
  <2>2. Dir!With(mode, c.node, c.perms)[c.node] = c.perms
    BY WithIs
  <2> QED BY <1>2, <2>1, <2>2
<1>8. \A k \in DOMAIN mode : k # c.node => mode'[k] = mode[k]
  <2>1. \A k \in DOMAIN mode : k # c.node => Dir!With(mode, c.node, c.perms)[k] = mode[k]
    BY WithIs
  <2> QED BY <1>2, <2>1
<1>9. IsTree(mode')
  BY <1>1, <1>2, <1>3, WithKeepsTree
<1>10. DOMAIN mode' = {n \in Planned : FirstAt[n] < step + 1}
  BY <1>3, <1>4, <1>5, <1>6, <1>7
<1>11. written' = {n \in Planned : FirstAt[n] < step + 1} \ Dir!Dirs
  BY <1>2, <1>3, <1>4, <1>5, <1>6
<1>12. (program = "bt1" \/ step + 1 <= 9) => \A d \in DOMAIN mode' \cap Dir!Dirs : mode'[d] = Dir!RWX
  BY <1>3, <1>1, <1>4, <1>5, <1>7, <1>8
<1>13. ASSUME NEW k \in 1..step,
              \A l \in (k + 1)..step : Dir!Plan[l].node # Dir!Plan[k].node
       PROVE  mode'[Dir!Plan[k].node] = Dir!Plan[k].perms
  <2>1. CASE k = step
    BY <1>7, <2>1 DEF c
  <2>2. CASE k # step
    <3>1. k \in 1..(step - 1) /\ step \in (k + 1)..step
          /\ \A l \in (k + 1)..(step - 1) : l \in (k + 1)..step
      BY <1>5, <2>2
    <3>2. Dir!Plan[k].node # c.node
      BY <1>13, <3>1 DEF c
    <3>3. mode[Dir!Plan[k].node] = Dir!Plan[k].perms
      BY <1>4, <1>13, <3>1
    <3>4. Dir!Plan[k].node \in DOMAIN mode
      <4>1. k \in DOMAIN Dir!Plan /\ k < step
        BY <1>1, <1>5, <3>1, PlanSize
      <4>2. Dir!Plan[k].node \in Planned /\ FirstAt[Dir!Plan[k].node] <= k
        BY <1>1, <4>1, PlanOrder, <1>6 DEF Fits
      <4> QED BY <1>4, <1>5, <1>6, <4>1, <4>2
    <3> QED BY <1>8, <3>2, <3>3, <3>4
  <2> QED BY <2>1, <2>2
<1>14. Drawing'
  <2>1. step' - 1 = step /\ step' \in 1..(Len(Dir!Plan) + 1)
    BY <1>2, <1>5
  <2>2. \A k \in 1..(step' - 1) :
           (\A l \in (k + 1)..(step' - 1) : Dir!Plan[l].node # Dir!Plan[k].node)
             => mode'[Dir!Plan[k].node] = Dir!Plan[k].perms
    BY <1>13, <2>1
  <2> QED BY <1>1, <1>2, <1>10, <1>11, <1>12, <2>1, <2>2, PlanStays DEF Drawing
<1>15. written' \cup reported' \cup blocked' \subseteq Dir!Nodes
  BY <1>1, <1>2
<1>16. step' \in 1..(Len(Dir!Plan) + 1)
  BY <1>2, <1>5
<1>17. Cleaning' /\ Scanning'
  BY <1>1, <1>2 DEF Cleaning, Scanning
<1> QED BY <1>1, <1>2, <1>9, <1>14, <1>15, <1>16, <1>17, PlanStays

\* The end of a setup.
LEMMA DirStateDraws ==
  ASSUME DirState PROVE Dir!TreeAsDrawn
<1> USE DEF DirState
<1>1. SUFFICES ASSUME Dir!Built PROVE mode = Dir!Drawn /\ written = Dir!PlannedFiles
  BY DEF Dir!TreeAsDrawn
<1>2. /\ program \in {"bt1", "bt2"} /\ IsTree(mode) /\ phase = "setup" /\ stack = << >>
      /\ step > Len(Dir!Plan) /\ step \in 1..(Len(Dir!Plan) + 1)
  BY <1>1 DEF Dir!Built
<1>3. step - 1 = Len(Dir!Plan) /\ Len(Dir!Plan) \in Nat /\ DOMAIN Dir!Plan = 1..Len(Dir!Plan)
  BY <1>2, PlanSize
<1>4. /\ DOMAIN mode = {n \in Planned : FirstAt[n] < step}
      /\ \A k \in 1..(step - 1) :
           (\A l \in (k + 1)..(step - 1) : Dir!Plan[l].node # Dir!Plan[k].node)
             => mode[Dir!Plan[k].node] = Dir!Plan[k].perms
      /\ written = {n \in Planned : FirstAt[n] < step} \ Dir!Dirs
  BY <1>2 DEF Drawing
<1>5. {n \in Planned : FirstAt[n] < step} = Planned
  BY <1>2, <1>3, PlannedNodes
<1>6. Planned = {Dir!Plan[k].node : k \in DOMAIN Dir!Plan}
  BY <1>2, NodesPlanned
<1>7. written = Dir!PlannedFiles
  BY <1>4, <1>5, <1>6 DEF Dir!PlannedFiles
<1> DEFINE Is(n, k) == Dir!Plan[k].node = n /\ \A l \in (k + 1)..Len(Dir!Plan) : Dir!Plan[l].node # n
           L(n) == CHOOSE k \in DOMAIN Dir!Plan : Is(n, k)
<1>8. ASSUME NEW n \in Planned PROVE mode[n] = Dir!Plan[L(n)].perms
  <2>1. LastAt[n] \in DOMAIN Dir!Plan /\ Dir!Plan[LastAt[n]].node = n
    BY <1>2, PlannedNodes
  <2>2. ASSUME NEW l \in (LastAt[n] + 1)..Len(Dir!Plan) PROVE Dir!Plan[l].node # n
    <3>1. l \in DOMAIN Dir!Plan /\ LastAt[n] \in Nat /\ ~(l <= LastAt[n])
      BY <1>3, <2>1
    <3>2. l <= LastAt[Dir!Plan[l].node]
      BY <1>2, <3>1, PlanOrder DEF Fits
    <3> QED BY <3>1, <3>2
  <2>3. \E k \in DOMAIN Dir!Plan : Is(n, k)
    BY <2>1, <2>2
  <2>4. L(n) \in DOMAIN Dir!Plan /\ Is(n, L(n))
    <3> HIDE DEF Is
    <3> QED BY <2>3
  <2> HIDE DEF L
  <2>5. L(n) \in 1..(step - 1) /\ \A l \in (L(n) + 1)..(step - 1) : Dir!Plan[l].node # Dir!Plan[L(n)].node
    BY <1>3, <2>4
  <2>6. mode[Dir!Plan[L(n)].node] = Dir!Plan[L(n)].perms
    BY <1>4, <2>5
  <2> QED BY <2>4, <2>6
<1>9. Dir!Drawn = [n \in Planned |-> Dir!Plan[L(n)].perms]
  BY <1>6 DEF Dir!Drawn
<1>10. mode = [n \in Planned |-> mode[n]]
  BY <1>2, <1>4, <1>5 DEF IsTree
<1> HIDE DEF L
<1>11. mode = Dir!Drawn
  BY <1>8, <1>9, <1>10
<1> QED BY <1>7, <1>11

LEMMA ScanStays ==
  ASSUME mode' = mode, root' = root
  PROVE  /\ Visited' = Visited /\ Seen' = Seen /\ ToReport' = ToReport /\ ToBlock' = ToBlock
         /\ \A s : PendingIn(s)' = PendingIn(s)
<1>1. \A n : Dir!Found(mode, n)' <=> Dir!Found(mode, n)
  BY DEF Dir!Found, Dir!Allowed
<1>2. \A n : Dir!Reachable(n)' <=> Dir!Reachable(n)
  BY DEF Dir!Reachable, Dir!Allowed
<1>3. \A n : Dir!ReadOnly(n)' <=> Dir!ReadOnly(n)
  BY DEF Dir!ReadOnly
<1>4. Visited' = Visited
  BY <1>1, <1>2 DEF Visited
<1>5. Seen' = Seen
  BY <1>4 DEF Seen
<1>6. ToReport' = ToReport
  BY <1>1, <1>3, <1>5 DEF ToReport
<1>7. ToBlock' = ToBlock
  BY <1>1, <1>4, <1>5 DEF ToBlock
<1> QED BY <1>4, <1>5, <1>6, <1>7 DEF PendingIn

LEMMA VisitedIs ==
  ASSUME program \in {"bt1", "bt2"}, IsTree(mode)
  PROVE  /\ Visited \subseteq DOMAIN mode \cap Dir!Dirs
         /\ \A d \in Visited : Dir!Found(mode, d) /\ "base" \in Visited
         /\ "base" \in Visited <=> Dir!MayOpenDir(mode, "base")
         /\ \A d \in (DOMAIN mode \cap Dir!Dirs) \ {"base"} :
              "base" \in Visited => (d \in Visited <=> Dir!MayOpenDir(mode, d))
<1>1. Dir!Found(mode, "base") /\ Dir!Above["base"] = {} /\ "base" \in Dir!Dirs
  BY DirNames, FoundUp, DirAbove DEF UpTree
<1>2. \A d \in Dir!Dirs : d \in Dir!Names /\ (d # "base" => Dir!Above[d] = {"base"})
  BY DirNames, DirAbove DEF UpTree
<1>3. "base" \in Visited <=> Dir!MayOpenDir(mode, "base")
  BY <1>1 DEF Visited, Dir!Reachable, Dir!MayOpenDir
<1>4. \A d \in Visited : Dir!Found(mode, d) /\ "base" \in Visited
  BY <1>1, <1>2 DEF Visited, Dir!Reachable, Dir!Found
<1>5. \A d \in (DOMAIN mode \cap Dir!Dirs) \ {"base"} :
        "base" \in Visited => (d \in Visited <=> Dir!MayOpenDir(mode, d))
  BY <1>1, <1>2 DEF Visited, Dir!Reachable, Dir!MayOpenDir
<1> QED BY <1>3, <1>4, <1>5 DEF Visited

\* Nothing pending is left when nothing is open, and the end is exact.
LEMMA NothingPending == PendingIn(<< >>) = {}
BY DEF PendingIn

LEMMA DirStateIsExact ==
  ASSUME DirState PROVE Dir!ScanIsExact
<1>1. SUFFICES ASSUME phase = "scan", stack = << >>
               PROVE  LET V == {d \in DOMAIN mode \cap Dir!Dirs : Dir!Found(mode, d) /\ Dir!Reachable(d)}
                          S == {n \in DOMAIN mode : n = "base" \/ Dir!Parent[n] \in V}
                      IN  /\ reported = {n \in S \ Dir!Dirs : Dir!Found(mode, n) /\ Dir!ReadOnly(n)}
                          /\ blocked = {n \in S : ~Dir!Found(mode, n)} \cup ((S \cap Dir!Dirs) \ V)
  BY DEF Dir!ScanIsExact
<1>2. reported = ToReport /\ blocked = ToBlock
  BY <1>1, NothingPending DEF DirState, Scanning
<1> QED BY <1>2 DEF ToReport, ToBlock, Seen, Visited

LEMMA EndsSetup ==
  ASSUME DirState, Dir!SetupDone PROVE DirState'
<1> USE DEF DirState
<1>1. /\ program \in {"bt1", "bt2"} /\ phase = "setup" /\ stack = << >> /\ step > Len(Dir!Plan)
      /\ phase' = "show" /\ program' = program /\ root' = root /\ mode' = mode /\ step' = step
      /\ stack' = stack /\ written' = written /\ reported' = reported /\ blocked' = blocked
  BY DEF Dir!SetupDone, Dir!Built
<1>2. "base" \in DOMAIN mode
  <2>1. 1 < step /\ FirstAt["base"] = 1 /\ "base" \in Planned
    BY <1>1, PlanSize, PlannedNodes
  <2> QED BY <1>1, <2>1 DEF Drawing
<1>3. Cleaning' /\ Drawing' /\ Scanning'
  BY <1>1, <1>2 DEF Cleaning, Drawing, Scanning
<1> QED BY <1>1, <1>3, PlanStays

LEMMA EndsDir ==
  ASSUME DirState, Dir!Ends PROVE DirState'
<1> USE DEF DirState
<1>1. /\ phase' = "idle" /\ stack' = << >> /\ program' = program /\ root' = root /\ mode' = mode /\ step' = step
      /\ written' = written /\ reported' = reported /\ blocked' = blocked
  BY DEF Dir!Ends
<1>2. Cleaning' /\ Drawing' /\ Scanning'
  BY <1>1 DEF Cleaning, Drawing, Scanning
<1> QED BY <1>1, <1>2, PlanStays

LEMMA UserChangesDir ==
  ASSUME DirState, Dir!UserChanges PROVE DirState'
<1> USE DEF DirState
<1>1. /\ program = "bt2" /\ phase \in {"idle", "show"} /\ IsTree(mode)
      /\ program' = program /\ root' = root /\ phase' = phase /\ step' = step /\ stack' = stack
      /\ written' = written /\ reported' = reported /\ blocked' = blocked
  BY DEF Dir!UserChanges
<1>2. PICK p \in UserModes :
        \/ \E n \in DOMAIN mode : mode' = Dir!With(mode, n, p)
        \/ "Test1" \in DOMAIN mode /\ phase = "idle" /\ mode' = Dir!With(mode, "foreign", p)
  BY DEF Dir!UserChanges
<1>3. p \in SUBSET Dir!RWX
  BY UserModesAssumption DEF Dir!RWX
<1>4. \E n \in Dir!Nodes : /\ mode' = Dir!With(mode, n, p)
                           /\ n # "base" => Dir!Parent[n] \in DOMAIN mode
  <2>1. CASE \E n \in DOMAIN mode : mode' = Dir!With(mode, n, p)
    BY <1>1, <2>1 DEF IsTree
  <2>2. CASE "Test1" \in DOMAIN mode /\ mode' = Dir!With(mode, "foreign", p)
    BY <1>1, <2>2, NodesPlanned, DirNames
  <2> QED BY <1>2, <2>1, <2>2
<1>5. PICK n \in Dir!Nodes : /\ mode' = Dir!With(mode, n, p)
                             /\ n # "base" => Dir!Parent[n] \in DOMAIN mode
  BY <1>4
<1>6. IsTree(mode')
  BY <1>1, <1>3, <1>5, WithKeepsTree
<1>7. DOMAIN mode \subseteq DOMAIN mode'
  <2>1. DOMAIN Dir!With(mode, n, p) = DOMAIN mode \cup {n}
    BY WithIs
  <2> QED BY <1>5, <2>1
<1>8. Cleaning' /\ Drawing' /\ Scanning'
  BY <1>1, <1>7 DEF Cleaning, Drawing, Scanning
<1> QED BY <1>1, <1>6, <1>8, PlanStays

LEMMA BeginsScan ==
  ASSUME DirState, Dir!BeginScan PROVE DirState'
<1> USE DEF DirState
<1>1. /\ program \in {"bt1", "bt2"} /\ IsTree(mode) /\ phase = "show" /\ phase' = "scan"
      /\ Dir!EnterScan("base", << >>) /\ program' = program /\ root' = root /\ mode' = mode
      /\ step' = step /\ written' = written /\ reported' = reported
  BY DEF Dir!BeginScan
<1>2. /\ "base" \in DOMAIN mode /\ reported = {} /\ blocked = {} /\ "base" \in Seen
      /\ "base" \in Dir!Dirs
  BY <1>1, DirNames DEF Scanning, Seen
<1>3. \A n \in DOMAIN mode : n \in Dir!Names /\ n \in Dir!Nodes
  BY <1>1, NodesPlanned DEF IsTree
<1>4. OpenInScan' /\ reported' = ToReport \ PendingIn(stack') /\ blocked' = ToBlock \ PendingIn(stack')
  <2>1. CASE Dir!MayOpenDir(mode, "base")
    <3> DEFINE A == Dir!Entries(mode, "base")
    <3>1. stack' = One(A) /\ blocked' = blocked
      BY <1>1, <2>1 DEF Dir!EnterScan, One, Dir!Frame
    <3>2. "base" \in Visited
      BY <1>1, <2>1, VisitedIs
    <3>3. OpenInScan'
      BY <1>1, <3>1, <3>2, ScanStays DEF OpenInScan
    <3>4. ASSUME NEW n \in Seen, n # "base" PROVE n \in PendingIn(stack')
      <4>1. n \in A \/ Dir!Parent[n] \in A
        <5>1. n \in DOMAIN mode /\ Dir!Parent[n] \in Visited /\ Dir!Parent[n] \in DOMAIN mode
          BY <1>1, <3>4, VisitedIs DEF Seen
        <5>2. Dir!Parent[n] # "base" => Dir!Parent[Dir!Parent[n]] = "base"
          BY <1>3, <3>4, <5>1, DirNames
        <5> QED BY <3>4, <5>1, <5>2 DEF Dir!Entries
      <4>2. /\ DOMAIN stack' = {1} /\ stack'[1].todo = A /\ stack' # << >>
        BY <3>1, OpenOne
      <4> QED BY <3>4, <4>1, <4>2 DEF PendingIn
    <3>5. Dir!Found(mode, "base")
      BY <2>1 DEF Dir!MayOpenDir
    <3>6. ToReport \subseteq PendingIn(stack') /\ ToBlock \subseteq PendingIn(stack')
      BY <1>2, <3>2, <3>4, <3>5 DEF ToReport, ToBlock
    <3> QED BY <1>1, <1>2, <3>1, <3>3, <3>6
  <2>2. CASE ~Dir!MayOpenDir(mode, "base")
    <3>1. stack' = << >> /\ blocked' = blocked \cup {"base"}
      BY <1>1, <2>2 DEF Dir!EnterScan
    <3>2. Visited = {}
      BY <1>1, <2>2, VisitedIs
    <3>3. Seen = {"base"}
      BY <1>2, <3>2 DEF Seen
    <3>4. ToReport = {} /\ ToBlock = {"base"}
      BY <1>2, <3>2, <3>3 DEF ToReport, ToBlock
    <3> QED BY <1>1, <1>2, <3>1, <3>4, NothingPending DEF OpenInScan
  <2> QED BY <2>1, <2>2
<1>5. Scanning'
  BY <1>1, <1>2, <1>4, ScanStays DEF Scanning
<1>6. blocked' \subseteq Dir!Nodes
  <2>1. ToBlock \subseteq DOMAIN mode
    BY DEF ToBlock, Seen
  <2> QED BY <1>3, <1>4, <2>1
<1>7. Cleaning' /\ Drawing'
  BY <1>1 DEF Cleaning, Drawing
<1> QED BY <1>1, <1>5, <1>6, <1>7, PlanStays

LEMMA PendingOne ==
  ASSUME NEW A
  PROVE  PendingIn(One(A)) = {n \in Seen : n \in A \/ (n # "base" /\ Dir!Parent[n] \in A)}
<1>1. DOMAIN One(A) = {1} /\ One(A)[1].todo = A /\ One(A) # << >>
  BY OpenOne
<1> QED BY <1>1 DEF PendingIn

LEMMA PendingTwo ==
  ASSUME NEW A, NEW d, NEW B
  PROVE  PendingIn(Two(A, d, B)) =
           {n \in Seen : n \in A \/ n \in B \/ (n # "base" /\ Dir!Parent[n] \in A)}
<1>1. /\ DOMAIN Two(A, d, B) = {1, 2} /\ Two(A, d, B) # << >>
      /\ Two(A, d, B)[1].todo = A /\ Two(A, d, B)[2].todo = B
  BY OpenTwo
<1> QED BY <1>1 DEF PendingIn

\* An entry is judged, and then no longer pending.
LEMMA ScansEntry ==
  ASSUME DirState, Dir!ScanEntry PROVE DirState'
<1> USE DEF DirState
<1>1. /\ program \in {"bt1", "bt2"} /\ IsTree(mode) /\ phase = "scan" /\ stack # << >>
      /\ program' = program /\ root' = root /\ mode' = mode /\ phase' = phase
      /\ step' = step /\ written' = written
  BY DEF Dir!ScanEntry
<1>2. PICK n \in Dir!Last(stack).todo :
        Dir!StatFails(n) \/ Dir!ScanSubdir(n) \/ Dir!ScanFile(n)
  BY DEF Dir!ScanEntry
<1> DEFINE E(d) == Dir!Entries(mode, d)
           opened == Dir!Found(mode, n) /\ n \in Dir!Dirs /\ Dir!MayOpenDir(mode, n)
<1>3. /\ OpenInScan /\ reported = ToReport \ PendingIn(stack) /\ blocked = ToBlock \ PendingIn(stack)
      /\ "base" \in DOMAIN mode
  BY <1>1 DEF Scanning
<1>4. stack' = IF opened THEN Append(Dir!Rest(n), Dir!Frame(mode, n)) ELSE Dir!Rest(n)
  BY <1>2 DEF Dir!StatFails, Dir!ScanSubdir, Dir!ScanFile, Dir!EnterScan
<1>5. /\ reported' = IF Dir!Found(mode, n) /\ n \notin Dir!Dirs /\ Dir!ReadOnly(n)
                       THEN reported \cup {n} ELSE reported
      /\ blocked' = IF ~Dir!Found(mode, n) \/ (n \in Dir!Dirs /\ ~Dir!MayOpenDir(mode, n))
                      THEN blocked \cup {n} ELSE blocked
  BY <1>2 DEF Dir!StatFails, Dir!ScanSubdir, Dir!ScanFile, Dir!EnterScan
<1>6. /\ "base" \in Visited
      /\ \E A \in SUBSET E("base") :
           \/ stack = One(A)
           \/ \E d \in Visited \ {"base"} : \E B \in SUBSET E(d) : d \notin A /\ stack = Two(A, d, B)
  BY <1>1, <1>3 DEF OpenInScan
<1>7. PICK A \in SUBSET E("base") :
        \/ stack = One(A)
        \/ \E d \in Visited \ {"base"} : \E B \in SUBSET E(d) : d \notin A /\ stack = Two(A, d, B)
  BY <1>6
<1> HIDE DEF opened
<1>8. /\ n \in Seen /\ n # "base" /\ n \in DOMAIN mode /\ n \in PendingIn(stack)
      /\ PendingIn(stack') = PendingIn(stack) \ {n} /\ OpenInScan'
  <2>1. CASE stack = One(A)
    <3>1. n \in A /\ n \in DOMAIN mode /\ n # "base" /\ Dir!Parent[n] = "base" /\ n \in Seen
      <4>1. n \in A
        BY <1>2, <2>1, OpenOne
      <4> QED BY <1>6, <4>1 DEF Dir!Entries, Seen
    <3>2. Dir!Rest(n) = One(A \ {n})
      BY <2>1, OpenOne
    <3>3. PendingIn(stack) = {m \in Seen : m \in A \/ (m # "base" /\ Dir!Parent[m] \in A)}
      BY <2>1, PendingOne
    <3>4. CASE opened
      <4>1. n \in Visited /\ n \in Dir!Dirs
        BY <1>1, <1>6, <3>1, <3>4, VisitedIs DEF opened
      <4>2. stack' = Two(A \ {n}, n, E(n))
        BY <1>4, <3>2, <3>4, OpenOne
      <4>3. PendingIn(stack') =
              {m \in Seen : m \in A \ {n} \/ m \in E(n) \/ (m # "base" /\ Dir!Parent[m] \in A \ {n})}
        BY <4>2, PendingTwo
      <4>4. Dir!Parent[n] # n
        BY <3>1
      <4>5. \A m \in Seen : m \in E(n) <=> m # "base" /\ Dir!Parent[m] = n
        BY DEF Dir!Entries, Seen
      <4>6. \A m \in Seen : m # "base" /\ Dir!Parent[m] \in A => m # n
        <5>1. "base" \notin A
          BY DEF Dir!Entries
        <5> QED BY <3>1, <5>1
      <4>7. PendingIn(stack') = PendingIn(stack) \ {n}
        BY <3>1, <3>3, <4>3, <4>4, <4>5, <4>6
      <4>8. OpenInScan'
        <5>1. A \ {n} \in SUBSET E("base") /\ n \in Visited \ {"base"} /\ E(n) \in SUBSET E(n)
              /\ n \notin A \ {n}
          BY <3>1, <4>1
        <5> QED BY <1>1, <1>6, <4>2, <5>1, ScanStays DEF OpenInScan
      <4> QED BY <3>1, <3>3, <4>7, <4>8
    <3>5. CASE ~opened
      <4>1. n \notin Visited
        BY <1>1, <1>6, <3>1, <3>5, VisitedIs DEF opened
      <4>2. stack' = One(A \ {n})
        BY <1>4, <3>2, <3>5
      <4>3. PendingIn(stack') = {m \in Seen : m \in A \ {n} \/ (m # "base" /\ Dir!Parent[m] \in A \ {n})}
        BY <4>2, PendingOne
      <4>4. \A m \in Seen : m # "base" => Dir!Parent[m] # n
        BY <4>1 DEF Seen
      <4>5. \A m \in Seen : m # "base" /\ Dir!Parent[m] \in A => m # n
        <5>1. "base" \notin A
          BY DEF Dir!Entries
        <5> QED BY <3>1, <5>1
      <4>6. PendingIn(stack') = PendingIn(stack) \ {n}
        BY <3>1, <3>3, <4>3, <4>4, <4>5
      <4>7. OpenInScan'
        BY <1>1, <1>6, <4>2, ScanStays DEF OpenInScan
      <4> QED BY <3>1, <3>3, <4>6, <4>7
    <3> QED BY <3>4, <3>5
  <2>2. ASSUME NEW d \in Visited \ {"base"}, NEW B \in SUBSET E(d), d \notin A,
               stack = Two(A, d, B)
        PROVE  /\ n \in Seen /\ n # "base" /\ n \in DOMAIN mode /\ n \in PendingIn(stack)
               /\ PendingIn(stack') = PendingIn(stack) \ {n} /\ OpenInScan'
    <3>1. n \in B /\ n \in DOMAIN mode /\ n # "base" /\ Dir!Parent[n] = d /\ n \in Seen
      <4>1. n \in B
        BY <1>2, <2>2, OpenTwo
      <4> QED BY <2>2, <4>1 DEF Dir!Entries, Seen
    <3>2. n \notin Dir!Dirs
      <4>1. n \in Dir!Names
        BY <1>1, <3>1, NodesPlanned DEF IsTree
      <4> QED BY <2>2, <3>1, <4>1, DirNames
    <3>3. stack' = Two(A, d, B \ {n})
      <4>1. Dir!Rest(n) = Two(A, d, B \ {n})
        BY <2>2, OpenTwo
      <4> QED BY <1>4, <3>2, <4>1 DEF opened
    <3>4. /\ PendingIn(stack) = {m \in Seen : m \in A \/ m \in B \/ (m # "base" /\ Dir!Parent[m] \in A)}
          /\ PendingIn(stack') =
               {m \in Seen : m \in A \/ m \in B \ {n} \/ (m # "base" /\ Dir!Parent[m] \in A)}
      BY <2>2, <3>3, PendingTwo
    <3>5. n \notin A
      BY <2>2, <3>1 DEF Dir!Entries
    <3>6. PendingIn(stack') = PendingIn(stack) \ {n} /\ n \in PendingIn(stack)
      BY <2>2, <3>1, <3>4, <3>5
    <3>7. OpenInScan'
      <4>1. B \ {n} \in SUBSET E(d)
        OBVIOUS
      <4> QED BY <1>1, <1>6, <2>2, <3>3, <4>1, ScanStays DEF OpenInScan
    <3> QED BY <3>1, <3>6, <3>7
  <2> QED BY <1>7, <2>1, <2>2
<1>9. n \in Dir!Dirs => (n \in Visited <=> Dir!MayOpenDir(mode, n))
  BY <1>1, <1>6, <1>8, VisitedIs
<1>10. n \in Dir!Nodes
  BY <1>1, <1>8 DEF IsTree
<1>11. reported' = ToReport \ PendingIn(stack')
  <2>1. n \in ToReport <=> Dir!Found(mode, n) /\ n \notin Dir!Dirs /\ Dir!ReadOnly(n)
    BY <1>8 DEF ToReport
  <2> QED BY <1>3, <1>5, <1>8, <2>1
<1>12. blocked' = ToBlock \ PendingIn(stack')
  <2>1. n \in ToBlock <=> ~Dir!Found(mode, n) \/ (n \in Dir!Dirs /\ ~Dir!MayOpenDir(mode, n))
    BY <1>8, <1>9 DEF ToBlock
  <2> QED BY <1>3, <1>5, <1>8, <2>1
<1>13. Scanning'
  BY <1>1, <1>3, <1>8, <1>11, <1>12, ScanStays DEF Scanning
<1>14. reported' \cup blocked' \subseteq Dir!Nodes
  BY <1>5, <1>10
<1>15. Cleaning' /\ Drawing'
  BY <1>1 DEF Cleaning, Drawing
<1> QED BY <1>1, <1>13, <1>14, <1>15, PlanStays

LEMMA ScansDir ==
  ASSUME DirState, Dir!ScanDirDone PROVE DirState'
<1> USE DEF DirState
<1>1. /\ program \in {"bt1", "bt2"} /\ IsTree(mode) /\ phase = "scan" /\ stack # << >>
      /\ program' = program /\ root' = root /\ mode' = mode /\ phase' = phase
      /\ step' = step /\ written' = written /\ reported' = reported /\ blocked' = blocked
      /\ Dir!Last(stack).todo = {} /\ stack' = Dir!Front(stack)
  BY DEF Dir!ScanDirDone
<1> DEFINE E(d) == Dir!Entries(mode, d)
<1>2. /\ OpenInScan /\ reported = ToReport \ PendingIn(stack) /\ blocked = ToBlock \ PendingIn(stack)
      /\ "base" \in DOMAIN mode
  BY <1>1 DEF Scanning
<1>3. PICK A \in SUBSET E("base") :
        /\ "base" \in Visited
        /\ \/ stack = One(A)
           \/ \E d \in Visited \ {"base"} : \E B \in SUBSET E(d) : d \notin A /\ stack = Two(A, d, B)
  BY <1>1, <1>2 DEF OpenInScan
<1>4. PendingIn(stack') = PendingIn(stack) /\ OpenInScan'
  <2>1. CASE stack = One(A)
    <3>1. A = {} /\ stack' = << >>
      BY <1>1, <2>1, OpenOne
    <3>2. PendingIn(stack) = {}
      BY <2>1, <3>1, PendingOne
    <3> QED BY <3>1, <3>2, NothingPending DEF OpenInScan
  <2>2. ASSUME NEW d \in Visited \ {"base"}, NEW B \in SUBSET E(d), stack = Two(A, d, B)
        PROVE  PendingIn(stack') = PendingIn(stack) /\ OpenInScan'
    <3>1. B = {} /\ stack' = One(A)
      BY <1>1, <2>2, OpenTwo
    <3>2. PendingIn(stack') = PendingIn(stack)
      <4>1. PendingIn(One(A)) = {n \in Seen : n \in A \/ (n # "base" /\ Dir!Parent[n] \in A)}
        BY PendingOne
      <4>2. PendingIn(stack) = {n \in Seen : n \in A \/ n \in B \/ (n # "base" /\ Dir!Parent[n] \in A)}
        BY <2>2, PendingTwo
      <4> QED BY <3>1, <4>1, <4>2
    <3>3. OpenInScan'
      BY <1>1, <1>3, <3>1, ScanStays DEF OpenInScan
    <3> QED BY <3>2, <3>3
  <2> QED BY <1>3, <2>1, <2>2
<1>5. Scanning'
  BY <1>1, <1>2, <1>4, ScanStays DEF Scanning
<1>6. Cleaning' /\ Drawing'
  BY <1>1 DEF Cleaning, Drawing
<1> QED BY <1>1, <1>5, <1>6, PlanStays

LEMMA DirStutters ==
  ASSUME DirState, UNCHANGED dirVars PROVE DirState'
<1>1. /\ program' = program /\ root' = root /\ mode' = mode /\ phase' = phase /\ step' = step
      /\ stack' = stack /\ written' = written /\ reported' = reported /\ blocked' = blocked
  BY DEF dirVars
<1>2. Cleaning' /\ Drawing' /\ Scanning' /\ IsTree(mode')
  BY <1>1, PlanStays, ScanStays DEF DirState, Cleaning, Drawing, Scanning, OpenInScan
<1> QED BY <1>1, <1>2, PlanStays DEF DirState

LEMMA DirStarts ==
  ASSUME Dir!Init PROVE DirState
<1>1. /\ program \in {"bt1", "bt2"} /\ root \in BOOLEAN /\ mode = << >> /\ phase = "idle"
      /\ step = 1 /\ stack = << >> /\ written = {} /\ reported = {} /\ blocked = {}
  BY DEF Dir!Init
<1>2. DOMAIN mode = {} /\ mode = [n \in DOMAIN mode |-> mode[n]]
  BY <1>1
<1>3. IsTree(mode)
  BY <1>2 DEF IsTree
<1>4. 1 \in 1..(Len(Dir!Plan) + 1)
  BY <1>1, PlanSize
<1> QED BY <1>1, <1>3, <1>4 DEF DirState, Cleaning, Drawing, Scanning

LEMMA DirSteps ==
  ASSUME DirState, Dir!Next PROVE DirState'
<1>1. CASE Dir!Start
  BY <1>1, StartsDir
<1>2. CASE Dir!CleanEntry
  BY <1>2, CleansEntry
<1>3. CASE Dir!CleanDirDone
  BY <1>3, CleansDir
<1>4. CASE Dir!Build
  BY <1>4, BuildsTree
<1>5. CASE Dir!SetupDone
  BY <1>5, EndsSetup
<1>6. CASE Dir!BeginScan
  BY <1>6, BeginsScan
<1>7. CASE Dir!ScanEntry
  BY <1>7, ScansEntry
<1>8. CASE Dir!ScanDirDone
  BY <1>8, ScansDir
<1>9. CASE Dir!Ends
  BY <1>9, EndsDir
<1>10. CASE Dir!UserChanges
  BY <1>10, UserChangesDir
<1> QED BY <1>1, <1>2, <1>3, <1>4, <1>5, <1>6, <1>7, <1>8, <1>9, <1>10 DEF Dir!Next

LEMMA DirIsTyped ==
  ASSUME DirState PROVE Dir!TypeOK
<1> USE DEF DirState
<1>1. \A k \in DOMAIN stack : /\ stack[k].dir \in Dir!Dirs
                              /\ stack[k].todo \subseteq Dir!Entries(mode, stack[k].dir)
  <2> DEFINE E(d) == Dir!Entries(mode, d)
  <2>1. ASSUME NEW A \in SUBSET E("base"), stack = One(A)
        PROVE  \A k \in DOMAIN stack : /\ stack[k].dir \in Dir!Dirs
                                       /\ stack[k].todo \subseteq E(stack[k].dir)
    BY <2>1, OpenOne, DirNames
  <2>2. ASSUME NEW A \in SUBSET E("base"), NEW d \in Dir!Dirs, NEW B \in SUBSET E(d),
               stack = Two(A, d, B)
        PROVE  \A k \in DOMAIN stack : /\ stack[k].dir \in Dir!Dirs
                                       /\ stack[k].todo \subseteq E(stack[k].dir)
    BY <2>2, OpenTwo, DirNames
  <2>3. CASE stack = << >>
    BY <2>3
  <2>4. CASE stack # << >> /\ phase = "setup"
    <3>1. \/ stack = One(E("base"))
          \/ \E d \in (DOMAIN mode \cap Dir!Dirs) \ {"base"} : stack = Two(E("base") \ {d}, d, E(d))
      BY <2>4 DEF Cleaning
    <3>2. ASSUME NEW d \in (DOMAIN mode \cap Dir!Dirs) \ {"base"}, stack = Two(E("base") \ {d}, d, E(d))
          PROVE  \A k \in DOMAIN stack : /\ stack[k].dir \in Dir!Dirs
                                         /\ stack[k].todo \subseteq E(stack[k].dir)
      <4> DEFINE A == E("base") \ {d}
      <4>1. A \in SUBSET E("base") /\ d \in Dir!Dirs /\ E(d) \in SUBSET E(d) /\ stack = Two(A, d, E(d))
        BY <3>2
      <4> HIDE DEF A, E
      <4> QED BY <2>2, <4>1
    <3>3. CASE stack = One(E("base"))
      <4>1. E("base") \in SUBSET E("base")
        OBVIOUS
      <4> QED BY <2>1, <3>3, <4>1
    <3> QED BY <3>1, <3>2, <3>3
  <2>5. CASE stack # << >> /\ phase = "scan"
    BY <2>1, <2>2, <2>5 DEF Scanning, OpenInScan, Visited
  <2>6. stack # << >> => phase \in {"setup", "scan"}
    BY DEF Scanning
  <2> QED BY <2>3, <2>4, <2>5, <2>6
<1> QED BY <1>1 DEF Dir!TypeOK, IsTree

-----------------------------------------------------------------------------
(* The processes: UnixChat, PipeChildren and Reaper *)

ChatInv ==
  /\ state \in [Chat!Procs -> {"off", "bind", "accept", "chat", "closing", "ended"}]
  /\ ending \in [Chat!Procs -> {"none", "stdin", "eof", "pipe", "kill", "refused"}]
  /\ \A p \in Chat!Procs : ending[p] = "none" <=> state[p] # "ended"
  /\ sent \in [Chat!Procs -> 0..MaxLines]
  /\ shown \in [Chat!Procs -> 0..MaxLines]
  /\ peer \in Clients \cup {"none"}
  /\ backlog \in Seq(Clients)

LEMMA ChatStarts == ASSUME Chat!Init PROVE ChatInv
BY ProcessAssumption DEF Chat!Init, ChatInv

LEMMA ChatTypes == ASSUME ChatInv PROVE Chat!TypeOK
BY DEF ChatInv, Chat!TypeOK

LEMMA ChatSteps ==
  ASSUME ChatInv, Chat!Next PROVE ChatInv'
<1> USE DEF ChatInv
<1>0. "server" \in Chat!Procs /\ Clients \subseteq Chat!Procs
  BY DEF Chat!Procs
<1>1. ASSUME NEW p \in Chat!Procs, state[p] # "ended", Chat!Goto(p, "bind") \/ Chat!Goto(p, "accept")
             \/ Chat!Goto(p, "chat") \/ Chat!Goto(p, "closing"), ending' = ending
      PROVE  /\ state' \in [Chat!Procs -> {"off", "bind", "accept", "chat", "closing", "ended"}]
             /\ \A q \in Chat!Procs : ending'[q] = "none" <=> state'[q] # "ended"
  BY <1>1 DEF Chat!Goto
<1>2. ASSUME NEW p \in Chat!Procs, NEW why \in {"stdin", "eof", "pipe", "kill", "refused"},
             Chat!End(p, why)
      PROVE  /\ state' \in [Chat!Procs -> {"off", "bind", "accept", "chat", "closing", "ended"}]
             /\ ending' \in [Chat!Procs -> {"none", "stdin", "eof", "pipe", "kill", "refused"}]
             /\ \A q \in Chat!Procs : ending'[q] = "none" <=> state'[q] # "ended"
  BY <1>2 DEF Chat!End, Chat!Goto
<1>3. CASE Chat!Unlink
  BY <1>0, <1>1, <1>3 DEF Chat!Unlink
<1>4. CASE Chat!BindAndListen
  BY <1>0, <1>1, <1>4 DEF Chat!BindAndListen
<1>5. CASE Chat!Accept
  <2>1. Head(backlog) \in Clients /\ Tail(backlog) \in Seq(Clients)
    BY <1>5, HeadTailProperties DEF Chat!Accept
  <2> QED BY <1>0, <1>1, <1>5, <2>1 DEF Chat!Accept
<1>6. ASSUME NEW c \in Clients, Chat!Connect(c) PROVE ChatInv'
  <2>1. Append(backlog, c) \in Seq(Clients)
    BY <1>6, AppendProperties
  <2>2. backlog' \in Seq(Clients)
    BY <1>6, <2>1 DEF Chat!Connect
  <2>3. CASE Chat!Goto(c, "chat") /\ ending' = ending
    BY <1>0, <1>1, <1>6, <2>2, <2>3 DEF Chat!Connect
  <2>4. CASE Chat!End(c, "refused")
    BY <1>0, <1>2, <1>6, <2>2, <2>4 DEF Chat!Connect
  <2> QED BY <1>6, <2>3, <2>4 DEF Chat!Connect
<1>7. ASSUME NEW p \in Chat!Procs, Chat!Receive(p) PROVE ChatInv'
  <2>1. Chat!Other(p) \in Chat!Procs
    BY <1>0, <1>7 DEF Chat!Receive, Chat!Paired, Chat!Other
  <2>2. shown[p] + 1 \in 0..MaxLines
    BY <1>7, <2>1, ProcessAssumption DEF Chat!Receive
  <2>3. shown' \in [Chat!Procs -> 0..MaxLines]
    BY <1>7, <2>2 DEF Chat!Receive
  <2> QED BY <1>7, <2>3 DEF Chat!Receive
<1>8. ASSUME NEW p \in Chat!Procs, Chat!HangUp(p) PROVE ChatInv'
  BY <1>2, <1>8 DEF Chat!HangUp
<1>9. ASSUME NEW p \in Chat!Procs, Chat!Return(p) PROVE ChatInv'
  BY <1>2, <1>9 DEF Chat!Return
<1>10. ASSUME NEW p \in Chat!Procs, Chat!Type(p) PROVE ChatInv'
  <2>1. CASE Chat!End(p, "pipe") /\ sent' = sent
    BY <1>2, <1>10, <2>1 DEF Chat!Type
  <2>2. CASE sent' = [sent EXCEPT ![p] = @ + 1] /\ state' = state /\ ending' = ending
    <3>1. sent[p] + 1 \in 0..MaxLines
      BY <1>10, ProcessAssumption DEF Chat!Type
    <3>2. sent' \in [Chat!Procs -> 0..MaxLines]
      BY <2>2, <3>1
    <3> QED BY <1>10, <2>2, <3>2 DEF Chat!Type
  <2> QED BY <1>10, <2>1, <2>2 DEF Chat!Type
<1>11. ASSUME NEW p \in Chat!Procs, Chat!EndOfInput(p) PROVE ChatInv'
  BY <1>1, <1>11 DEF Chat!EndOfInput
<1>12. ASSUME NEW p \in Chat!Procs, Chat!Interrupt(p) PROVE ChatInv'
  BY <1>2, <1>12 DEF Chat!Interrupt
<1> QED BY <1>3, <1>4, <1>5, <1>6, <1>7, <1>8, <1>9, <1>10, <1>11, <1>12
           DEF Chat!Next, Chat!ServerStart, Chat!Thread

PastWrite == {c \in Pipe!Kids : child[c] \in {"close1", "zombie", "reaped"}}

\* Each value in the pipe or printed is that of a child past its write.
PipeInv ==
  /\ boss \in {"fork", "sleep", "read", "wait", "done", "failed"}
  /\ child \in [Pipe!Kids -> {"none", "close0", "write", "close1", "zombie", "reaped"}]
  /\ readers \cup writers \subseteq {0} \cup Pipe!Forked
  /\ fifo \in Seq(Nat) /\ received \in Seq(Nat)
  /\ Len(fifo) + Len(received) <= Cardinality(PastWrite)

LEMMA PipeCounts ==
  /\ IsFiniteSet(Pipe!Kids) /\ Cardinality(Pipe!Kids) = CHILDREN
  /\ \A S \in SUBSET Pipe!Kids :
       /\ IsFiniteSet(S) /\ Cardinality(S) \in Nat /\ Cardinality(S) <= CHILDREN
       /\ \A c \in Pipe!Kids \ S : Cardinality(S \cup {c}) = Cardinality(S) + 1
<1>1. IsFiniteSet(Pipe!Kids) /\ Cardinality(Pipe!Kids) = CHILDREN
  BY ProcessAssumption, FS_Interval DEF Pipe!Kids
<1>2. ASSUME NEW S \in SUBSET Pipe!Kids
      PROVE  /\ IsFiniteSet(S) /\ Cardinality(S) \in Nat /\ Cardinality(S) <= CHILDREN
             /\ \A c \in Pipe!Kids \ S : Cardinality(S \cup {c}) = Cardinality(S) + 1
  <2>1. IsFiniteSet(S) /\ Cardinality(S) <= CHILDREN
    BY <1>1, FS_Subset
  <2>2. Cardinality(S) \in Nat
    BY <2>1, FS_CardinalityType
  <2> QED BY <2>1, <2>2, FS_AddElement
<1> QED BY <1>1, <1>2

LEMMA PipeStarts == ASSUME Pipe!Init PROVE PipeInv
<1>1. /\ boss = "fork" /\ child = [c \in Pipe!Kids |-> "none"] /\ readers = {0} /\ writers = {0}
      /\ fifo = << >> /\ received = << >>
  BY DEF Pipe!Init
<1>2. fifo \in Seq(Nat) /\ received \in Seq(Nat) /\ Len(fifo) + Len(received) = 0
  BY <1>1
<1>3. Cardinality(PastWrite) \in Nat
  BY PipeCounts DEF PastWrite
<1> QED BY <1>1, <1>2, <1>3 DEF PipeInv

LEMMA PipeTypes == ASSUME PipeInv PROVE Pipe!TypeOK
<1>1. Cardinality(PastWrite) \in Nat /\ Cardinality(PastWrite) <= CHILDREN
  BY PipeCounts DEF PastWrite
<1>2. Len(fifo) + Len(received) <= CHILDREN
  BY <1>1, ProcessAssumption DEF PipeInv
<1> QED BY <1>2 DEF PipeInv, Pipe!TypeOK

LEMMA PipeSteps ==
  ASSUME PipeInv, Pipe!Next PROVE PipeInv'
<1> USE DEF PipeInv
<1> DEFINE Labels == {"none", "close0", "write", "close1", "zombie", "reaped"}
<1>0. Cardinality(PastWrite) \in Nat
  BY PipeCounts DEF PastWrite
<1>1. ASSUME NEW c \in Pipe!Kids, NEW l \in Labels \ {"none"}, Pipe!Goto(c, l)
      PROVE  /\ child' \in [Pipe!Kids -> Labels] /\ Pipe!Forked' = Pipe!Forked \cup {c}
             /\ child[c] \notin {"close1", "zombie", "reaped"} /\ l \notin {"close1", "zombie", "reaped"}
                  => PastWrite' = PastWrite
             /\ l \in {"close1", "zombie", "reaped"} => PastWrite' = PastWrite \cup {c}
  <2>1. /\ child' \in [Pipe!Kids -> Labels] /\ child'[c] = l
        /\ \A k \in Pipe!Kids : k # c => child'[k] = child[k]
    BY <1>1 DEF Pipe!Goto
  <2>2. Pipe!Forked' = Pipe!Forked \cup {c}
    BY <1>1, <2>1 DEF Pipe!Forked
  <2>3. PastWrite' = {k \in Pipe!Kids : child'[k] \in {"close1", "zombie", "reaped"}}
    BY DEF PastWrite
  <2> QED BY <1>1, <2>1, <2>2, <2>3 DEF PastWrite
<1>2. \A c \in Pipe!Kids : /\ c \in PastWrite => Cardinality(PastWrite \cup {c}) = Cardinality(PastWrite)
                           /\ c \notin PastWrite => Cardinality(PastWrite \cup {c}) = Cardinality(PastWrite) + 1
  <2>1. PastWrite \in SUBSET Pipe!Kids
    BY DEF PastWrite
  <2>2. \A c \in PastWrite : PastWrite \cup {c} = PastWrite
    OBVIOUS
  <2> QED BY <2>1, <2>2, PipeCounts
<1>3. ASSUME NEW c \in Pipe!Kids, Pipe!Fork(c) PROVE PipeInv'
  BY <1>1, <1>3 DEF Pipe!Fork
<1>4. CASE Pipe!ForkFails
  BY <1>4 DEF Pipe!ForkFails, Pipe!Forked, PastWrite
<1>5. ASSUME NEW c \in Pipe!Kids, Pipe!CloseRead(c) PROVE PipeInv'
  BY <1>1, <1>5 DEF Pipe!CloseRead
<1>6. ASSUME NEW c \in Pipe!Kids, Pipe!Write(c) PROVE PipeInv'
  <2>1. c \notin PastWrite /\ c \in Nat
    BY <1>6, ProcessAssumption DEF Pipe!Write, PastWrite, Pipe!Kids
  <2>2. Append(fifo, c * 100) \in Seq(Nat) /\ Len(Append(fifo, c * 100)) = Len(fifo) + 1
    BY <2>1, AppendProperties
  <2>3. Cardinality(PastWrite \cup {c}) = Cardinality(PastWrite) + 1
    BY <1>2, <2>1
  <2>4. /\ fifo' \in Seq(Nat) /\ Len(fifo') \in Nat /\ Len(fifo') <= Len(fifo) + 1
        /\ Pipe!Goto(c, "zombie") \/ Pipe!Goto(c, "close1")
        /\ writers' \subseteq writers /\ readers' = readers /\ boss' = boss /\ received' = received
    <3>1. readers' = readers /\ boss' = boss /\ received' = received
      BY <1>6 DEF Pipe!Write
    <3>2. Len(fifo) \in Nat
      OBVIOUS
    <3>3. CASE readers = {}
      BY <1>6, <3>1, <3>2, <3>3 DEF Pipe!Write
    <3>4. CASE readers # {}
      <4>1. Pipe!Goto(c, "close1") /\ fifo' = Append(fifo, c * 100) /\ writers' = writers
        BY <1>6, <3>4 DEF Pipe!Write
      <4>2. fifo' \in Seq(Nat) /\ Len(fifo') = Len(fifo) + 1
        BY <2>2, <4>1
      <4> QED BY <3>1, <3>2, <4>1, <4>2
    <3> QED BY <3>3, <3>4
  <2>5. /\ child' \in [Pipe!Kids -> Labels] /\ Pipe!Forked' = Pipe!Forked \cup {c}
        /\ PastWrite' = PastWrite \cup {c}
    BY <1>1, <2>4
  <2>6. Cardinality(PastWrite') = Cardinality(PastWrite) + 1
    BY <2>3, <2>5
  <2>7. Len(fifo') + Len(received') <= Cardinality(PastWrite')
    BY <1>0, <2>4, <2>6
  <2> QED BY <2>4, <2>5, <2>7
<1>7. ASSUME NEW c \in Pipe!Kids, Pipe!CloseWrite(c) \/ Pipe!WaitChild(c) PROVE PipeInv'
  <2>1. c \in PastWrite /\ \E l \in {"zombie", "reaped"} : Pipe!Goto(c, l)
    BY <1>7 DEF Pipe!CloseWrite, Pipe!WaitChild, PastWrite
  <2>2. child' \in [Pipe!Kids -> Labels] /\ Pipe!Forked' = Pipe!Forked \cup {c} /\ PastWrite' = PastWrite
    <3>1. PICK l \in {"zombie", "reaped"} : Pipe!Goto(c, l)
      BY <2>1
    <3>2. /\ child' \in [Pipe!Kids -> Labels] /\ Pipe!Forked' = Pipe!Forked \cup {c}
          /\ PastWrite' = PastWrite \cup {c}
      BY <1>1, <3>1
    <3> QED BY <2>1, <3>2
  <2> QED BY <1>7, <2>2 DEF Pipe!CloseWrite, Pipe!WaitChild
<1>8. CASE Pipe!SleepThenRead \/ Pipe!EndOfFile \/ Pipe!NoChildLeft
  BY <1>8 DEF Pipe!SleepThenRead, Pipe!EndOfFile, Pipe!NoChildLeft, Pipe!Forked, PastWrite
<1>9. CASE Pipe!Read
  <2>1. Head(fifo) \in Nat /\ Tail(fifo) \in Seq(Nat) /\ Len(Tail(fifo)) = Len(fifo) - 1
    BY <1>9, HeadTailProperties DEF Pipe!Read
  <2>2. /\ Append(received, Head(fifo)) \in Seq(Nat)
        /\ Len(Append(received, Head(fifo))) = Len(received) + 1
    BY <2>1, AppendProperties
  <2>3. Len(fifo') + Len(received') = Len(fifo) + Len(received)
    BY <1>9, <2>1, <2>2 DEF Pipe!Read
  <2> QED BY <1>9, <2>1, <2>2, <2>3 DEF Pipe!Read, Pipe!Forked, PastWrite
<1> QED BY <1>3, <1>4, <1>5, <1>6, <1>7, <1>8, <1>9 DEF Pipe!Next, Pipe!Parent, Pipe!Child

ReapInv ==
  /\ parent \in {"fork", "pause", "failed"}
  /\ kid \in [Reap!Kids -> {"none", "running", "zombie", "reaped"}]
  /\ sigchld \in BOOLEAN /\ in_handler \in BOOLEAN

LEMMA ReapSteps ==
  ASSUME ReapInv, Reap!Next PROVE ReapInv'
<1> USE DEF ReapInv
<1>1. CASE Reap!Main
  BY <1>1 DEF Reap!Main, Reap!Fork
<1>2. CASE Reap!ForkFails
  BY <1>2 DEF Reap!ForkFails
<1>3. CASE Reap!Handler
  BY <1>3 DEF Reap!Handler, Reap!EnterHandler, Reap!LeaveHandler, Reap!Collect
<1>4. CASE \E c \in Reap!Kids : Reap!Exit(c)
  BY <1>4 DEF Reap!Exit
<1> QED BY <1>1, <1>2, <1>3, <1>4 DEF Reap!Next

-----------------------------------------------------------------------------
(* The specification of the exercises *)

LEMMA PartStutter ==
  ASSUME PartInv, UNCHANGED partVars
  PROVE  PartInv'
  BY DEF partVars, PartInv, PartTypes, PartPhases, PartCounts, PartRows, Bound, RoundsDone,
         Part!Workers, Part!Rows, Part!Chunk, Part!InRange, Part!End

TurnProofs == INSTANCE PingPongProofs WITH
  pc <- place_in_run, pending <- usr1, i <- iteration,
  counter <- next_counter, file <- shared_txt

\* What is known of the turns: PingPong's theorems, told of these variables.
TurnState ==
  /\ TurnProofs!Inv /\ TurnProofs!PrintInv
  /\ "r" \notin FailingOpens => TurnProofs!CountingInv

LEMMA TurnStarts == Turn!Init => TurnState
<1>1. Turn!Init => TurnProofs!Init
  BY DEF Turn!Init, TurnProofs!Init, Turn!Procs, TurnProofs!Procs
<1> QED
  BY <1>1, TurnProofs!InitInv, TurnProofs!PrintInit, TurnProofs!CountingInit,
     IterationsAssumption, FailingOpensAssumption
  DEF TurnState

LEMMA TurnMoves == Turn!Next => TurnProofs!Next
  BY DEF Turn!Next, Turn!Step, Turn!Start, Turn!CheckTurn, Turn!Suspend, Turn!TakeTurn,
         Turn!ReadCounter, Turn!WriteLine, Turn!WriteFails, Turn!Yield, Turn!Exit,
         Turn!WaitAndPrint, Turn!Kill, Turn!Handler, Turn!Goto, Turn!LastCounters,
         Turn!Line, Turn!Partner, Turn!Procs,
         TurnProofs!Next, TurnProofs!Step, TurnProofs!Start, TurnProofs!CheckTurn,
         TurnProofs!Suspend, TurnProofs!TakeTurn, TurnProofs!ReadCounter,
         TurnProofs!WriteLine, TurnProofs!WriteFails, TurnProofs!Yield, TurnProofs!Exit,
         TurnProofs!WaitAndPrint, TurnProofs!Kill, TurnProofs!Handler, TurnProofs!Goto,
         TurnProofs!LastCounters, TurnProofs!Line, TurnProofs!Partner, TurnProofs!Procs

LEMMA TurnSteps ==
  ASSUME TurnState, Turn!Next \/ UNCHANGED turnVars PROVE TurnState'
<1>1. [TurnProofs!Next]_TurnProofs!vars
  BY TurnMoves DEF turnVars, TurnProofs!vars
<1> QED
  BY <1>1, TurnProofs!StepInv, TurnProofs!PrintStep, TurnProofs!CountingStep,
     IterationsAssumption, FailingOpensAssumption
  DEF TurnState

LEMMA TurnMeans ==
  ASSUME TurnState PROVE Turn!TypeOK /\ Turn!OneTurn /\ Turn!PrintsWholeFile
<1>1. TurnProofs!TypeOK /\ TurnProofs!OneTurn /\ TurnProofs!PrintsWholeFile
  BY DEF TurnState, TurnProofs!Inv, TurnProofs!PrintInv
<1> QED
  BY <1>1
  DEF Turn!TypeOK, Turn!OneTurn, Turn!PrintsWholeFile, Turn!GaveUp, Turn!Holds,
      Turn!Working, Turn!Partner, Turn!Procs, TurnProofs!TypeOK, TurnProofs!OneTurn,
      TurnProofs!PrintsWholeFile, TurnProofs!GaveUp, TurnProofs!Holds,
      TurnProofs!Working, TurnProofs!Partner, TurnProofs!Procs

\* Each step of the turns is one of the log, or leaves the file alone.
LEMMA TurnLogs ==
  ASSUME "r" \notin FailingOpens, TurnState, Turn!Next \/ UNCHANGED turnVars
  PROVE  [Turn!Log!AppendNext]_shared_txt
<1>1. [TurnProofs!Next]_TurnProofs!vars
  BY TurnMoves DEF turnVars, TurnProofs!vars
<1>2. [TurnProofs!Log!AppendNext]_shared_txt
  BY <1>1, TurnProofs!LogStep, IterationsAssumption, FailingOpensAssumption DEF TurnState
<1> QED
  BY <1>2 DEF Turn!Log!AppendNext, Turn!Log!Line, Turn!Log!Writer,
              TurnProofs!Log!AppendNext, TurnProofs!Log!Line, TurnProofs!Log!Writer

ExercisesInv ==
  /\ Inv
  /\ exercise = "dir" => DirState
  /\ exercise = "sem" => SemInv
  /\ exercise = "part" => PartInv
  /\ exercise = "chat" => ChatInv
  /\ exercise = "pipe" => PipeInv
  /\ exercise = "reap" => ReapInv
  /\ exercise = "turns" => TurnState

LEMMA ExercisesInitInv == AllInit => ExercisesInv
<1>1. SUFFICES ASSUME AllInit PROVE ExercisesInv
  OBVIOUS
<1>2. Dir!Init /\ Sem!Init /\ Part!Init /\ Chat!Init /\ Pipe!Init /\ Reap!Init
  BY <1>1 DEF AllInit
<1>3. DirState /\ ChatInv /\ PipeInv
  BY <1>2, DirStarts, ChatStarts, PipeStarts
<1>4. SemInv /\ PartInv
  BY <1>2, SemInitBase, SemInitText, SemInitTally, SemInitRegs, PartInit DEF SemInv
<1>5. ReapInv
  BY <1>2 DEF Reap!Init, ReapInv
<1>6. Inv /\ TurnState
  BY <1>1, InitInv, TurnStarts DEF AllInit
<1> QED BY <1>3, <1>4, <1>5, <1>6 DEF ExercisesInv

LEMMA ExercisesStep ==
  ASSUME ExercisesInv, [AllNext]_all
  PROVE  ExercisesInv'
<1>1. exercise' = exercise
  BY DEF AllNext, all
<1>2. Inv'
  <2>1. [Next]_vars
    BY DEF AllNext, all
  <2> QED BY <2>1, NextTypeOK, NextRest DEF ExercisesInv, Inv, Rest
<1>3. CASE exercise = "sem"
  <2>1. SemInv /\ (Sem!Next \/ UNCHANGED semVars)
    BY <1>3 DEF ExercisesInv, AllNext, all
  <2>2. SemInv'
    BY <2>1, SemStutter, SemBaseStep, SemTextStep, SemTallyStep, SemRegsStep DEF SemInv
  <2> QED BY <1>1, <1>2, <1>3, <2>2 DEF ExercisesInv
<1>4. CASE exercise = "part"
  <2>1. PartInv /\ (Part!Next \/ UNCHANGED partVars)
    BY <1>4 DEF ExercisesInv, AllNext, all
  <2>2. PartInv'
    BY <2>1, PartStutter, PartStep
  <2> QED BY <1>1, <1>2, <1>4, <2>2 DEF ExercisesInv
<1>5. CASE exercise = "dir"
  <2>1. DirState /\ (Dir!Next \/ UNCHANGED dirVars)
    BY <1>5 DEF ExercisesInv, AllNext, all
  <2>2. DirState'
    BY <2>1, DirStutters, DirSteps
  <2> QED BY <1>1, <1>2, <1>5, <2>2 DEF ExercisesInv
<1>6. CASE exercise = "chat"
  <2>1. ChatInv /\ (Chat!Next \/ UNCHANGED chatVars)
    BY <1>6 DEF ExercisesInv, AllNext, all
  <2>2. UNCHANGED chatVars => ChatInv'
    BY <2>1 DEF chatVars, ChatInv
  <2>3. ChatInv'
    BY <2>1, <2>2, ChatSteps
  <2> QED BY <1>1, <1>2, <1>6, <2>3 DEF ExercisesInv
<1>7. CASE exercise = "pipe"
  <2>1. PipeInv /\ (Pipe!Next \/ UNCHANGED pipeVars)
    BY <1>7 DEF ExercisesInv, AllNext, all
  <2>2. UNCHANGED pipeVars => PipeInv'
    BY <2>1 DEF pipeVars, PipeInv, PastWrite, Pipe!Forked
  <2>3. PipeInv'
    BY <2>1, <2>2, PipeSteps
  <2> QED BY <1>1, <1>2, <1>7, <2>3 DEF ExercisesInv
<1>8. CASE exercise = "reap"
  <2>1. ReapInv /\ (Reap!Next \/ UNCHANGED reaperVars)
    BY <1>8 DEF ExercisesInv, AllNext, all
  <2>2. UNCHANGED reaperVars => ReapInv'
    BY <2>1 DEF reaperVars, ReapInv
  <2>3. ReapInv'
    BY <2>1, <2>2, ReapSteps
  <2> QED BY <1>1, <1>2, <1>8, <2>3 DEF ExercisesInv
<1>9. CASE exercise = "turns"
  <2>1. TurnState /\ (Turn!Next \/ UNCHANGED turnVars)
    BY <1>9 DEF ExercisesInv, AllNext, all
  <2>2. TurnState'
    BY <2>1, TurnSteps
  <2> QED BY <1>1, <1>2, <1>9, <2>2 DEF ExercisesInv
<1>10. CASE exercise \notin {"sem", "part", "dir", "chat", "pipe", "reap", "turns"}
  BY <1>1, <1>2, <1>10 DEF ExercisesInv
<1> QED BY <1>3, <1>4, <1>5, <1>6, <1>7, <1>8, <1>9, <1>10

LEMMA ExercisesSpecInv == AllSpec => []ExercisesInv
  BY ExercisesInitInv, ExercisesStep, PTL DEF AllSpec

\* The variables of the small exercises have their types, for any constants.
THEOREM ExercisesTypeCorrect == AllSpec => []ExercisesTypeOK
<1>1. ExercisesInv => ExercisesTypeOK
  <2>1. SUFFICES ASSUME ExercisesInv PROVE ExercisesTypeOK
    OBVIOUS
  <2>2. exercise = "reap" => Reap!TypeOK
    BY <2>1 DEF ExercisesInv, ReapInv, Reap!TypeOK
  <2>3. TypeOK /\ (exercise = "turns" => Turn!TypeOK)
    BY <2>1, TurnMeans DEF ExercisesInv, Inv
  <2> QED BY <2>1, <2>2, <2>3, DirIsTyped, SemTypeOK, PartTypeOK, ChatTypes, PipeTypes
             DEF ExercisesInv, SemInv, ExercisesTypeOK
<1> QED BY <1>1, ExercisesSpecInv, PTL

\* Whatever runs that were killed and chmods of the user left behind, a setup
\* of filesystem/bt1 or bt2 that comes to its end has made the tree as drawn.
THEOREM SetupDrawsTree == AllSpec => []TreeAsDrawn
<1>1. ExercisesInv => TreeAsDrawn
  BY DirStateDraws DEF ExercisesInv, TreeAsDrawn
<1> QED BY <1>1, ExercisesSpecInv, PTL

\* A scan of filesystem/bt1 or bt2 that comes to its end has reported the
\* read-only files that can be reached and every path at which it had to stop.
THEOREM ScanTellsAll == AllSpec => []ScanIsExact
<1>1. ExercisesInv => ScanIsExact
  BY DirStateIsExact DEF ExercisesInv, ScanIsExact
<1> QED BY <1>1, ExercisesSpecInv, PTL

\* However many threads take values and write lines, and however they are
\* scheduled, no value is taken or written twice and none is missing at the end.
THEOREM ValuesAreOnce == AllSpec => []ValuesOnce
<1>1. ExercisesInv => ValuesOnce
  BY SemValuesOnce DEF ExercisesInv, SemInv, ValuesOnce
<1> QED BY <1>1, ExercisesSpecInv, PTL

\* A line is overtaken by other threads only, and by less than all of them.
THEOREM FewLinesOvertake == AllSpec => []FewOvertake
<1>1. ExercisesInv => FewOvertake
  BY SemFewOvertake DEF ExercisesInv, SemInv, FewOvertake
<1> QED BY <1>1, ExercisesSpecInv, PTL

\* For any size and number of threads, also when one does not divide the other
\* or is the smaller one, the divided loop gives what the plain loop gives.
THEOREM LoopIsWhole == AllSpec => []ProductIsWhole
<1>1. ExercisesInv => ProductIsWhole
  BY PartProductIsWhole DEF ExercisesInv, ProductIsWhole
<1> QED BY <1>1, ExercisesSpecInv, PTL

\* The turn to use shared.txt (lines 59-70 of signal/bai2/main.c) is never in two
\* hands, nor twice in one, for any number of turns and whichever fopen fails.
THEOREM TurnIsUnique == AllSpec => []OneTurn
<1>1. ExercisesInv => OneTurn
  BY TurnMeans DEF ExercisesInv, OneTurn
<1> QED BY <1>1, ExercisesSpecInv, PTL

\* What the parent prints after waitpid (lines 104-111 of signal/bai2/main.c) holds
\* all lines of both processes, unless the child could not append its last one.
THEOREM WholeFilePrinted == AllSpec => []PrintsWholeFile
<1>1. ExercisesInv => PrintsWholeFile
  BY TurnMeans DEF ExercisesInv, PrintsWholeFile
<1> QED BY <1>1, ExercisesSpecInv, PTL

\* As long as shared.txt can be opened for reading, each append is the one TurnLog
\* prescribes next, also when a process dies on a failing append.
THEOREM LogRefinement ==
  ASSUME "r" \notin FailingOpens PROVE AllSpec => AppendsInTurn
<1>1. AllInit => Turn!Log!Init
  BY DEF AllInit, Turn!Init, Turn!Log!Init
<1>2. ExercisesInv /\ [AllNext]_all => [Turn!Log!AppendNext]_shared_txt
  <2>1. SUFFICES ASSUME ExercisesInv, [AllNext]_all
                 PROVE  [Turn!Log!AppendNext]_shared_txt
    OBVIOUS
  <2>2. CASE exercise = "turns"
    BY <2>1, <2>2, TurnLogs DEF ExercisesInv, AllNext, all
  <2>3. CASE exercise # "turns"
    BY <2>1, <2>3 DEF AllNext, all, turnVars
  <2> QED BY <2>2, <2>3
<1> QED
  BY <1>1, <1>2, ExercisesSpecInv, PTL
  DEF AllSpec, AppendsInTurn, Turn!AppendsInTurn, Turn!Log!Spec
=============================================================================
