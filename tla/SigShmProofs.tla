---------------------------- MODULE SigShmProofs ----------------------------
(***************************************************************************)
(* Proofs about SigShm, for any sets of servers and clients and any number *)
(* of records.                                                             *)
(***************************************************************************)
EXTENDS SigShm, TLAPS

\* All variables have their types at the start.
LEMMA InitTypeOK == Init => TypeOK
<1> SUFFICES ASSUME Init PROVE TypeOK
  OBVIOUS
<1>1. ZeroRecord \in [Fields -> Values]
  BY DEF ZeroRecord, Values
<1>2. log \in Seq([Fields -> Values])
  BY DEF Init
<1>. QED
  BY <1>1, <1>2, ProcsAssumption, BoundAssumption
     DEF Init, TypeOK, Places, Starting, Looping, Signals, Procs

\* A server may get one more pending signal.
LEMMA OneMorePending ==
  ASSUME TypeOK, NEW s \in Servers, NEW sig \in Signals
  PROVE  /\ pending \in [Servers -> SUBSET Signals]
         /\ [pending EXCEPT ![s] = @ \cup {sig}] \in [Servers -> SUBSET Signals]
<1>1. pending \in [Servers -> SUBSET Signals]
  BY DEF TypeOK
<1>2. pending[s] \cup {sig} \in SUBSET Signals
  BY <1>1
<1>. QED
  BY <1>1, <1>2

\* Every step keeps the types.
LEMMA NextTypeOK == TypeOK /\ [Next]_vars => TypeOK'
<1> SUFFICES ASSUME TypeOK, [Next]_vars PROVE TypeOK'
  OBVIOUS
<1> USE ProcsAssumption, BoundAssumption
<1>1. ASSUME NEW s \in Servers, StartUp(s) PROVE TypeOK'
  <2> USE DEF TypeOK, Goto, Places, Starting, Looping, objectVars, serverVars, clientVars, Procs
  <2>1. CASE Create(s)
    BY <2>1 DEF Create
  <2>2. CASE Truncate(s) \/ Map(s) \/ ZeroDone(s) \/ InstallUsr1(s) \/ InstallInt(s) \/ Fails(s)
    BY <2>2 DEF Truncate, Map, ZeroDone, InstallUsr1, InstallInt, Fails
  <2>3. CASE WritePid(s)
    BY <2>3 DEF WritePid
  <2>4. CASE ZeroField(s)
    <3>1. PICK f \in todo[s] : /\ data' = [data EXCEPT ![s][f] = Zero]
                               /\ todo' = [todo EXCEPT ![s] = @ \ {f}]
      BY <2>4 DEF ZeroField
    <3>2. f \in Fields /\ Zero \in Values
      BY DEF Values
    <3>. QED
      BY <2>4, <3>1, <3>2 DEF ZeroField
  <2>. QED
    BY <1>1, <2>1, <2>2, <2>3, <2>4 DEF StartUp
<1>2. ASSUME NEW s \in Servers, Loop(s) PROVE TypeOK'
  <2> USE DEF TypeOK, Goto, Places, Starting, Looping, objectVars, serverVars, clientVars, Procs
  <2>1. CASE TestRunning(s) \/ Pause(s) \/ Break(s) \/ Cleanup(s)
    BY <2>1 DEF TestRunning, Pause, Break, Cleanup
  <2>2. CASE BeginRead(s)
    BY <2>2 DEF BeginRead
  <2>3. CASE ReadField(s)
    BY <2>3 DEF ReadField
  <2>4. CASE WriteLog(s)
    <3>1. Append(log, got[s]) \in Seq([Fields -> Values])
      OBVIOUS
    <3>2. log' \in Seq([Fields -> Values])
      BY <2>4, <3>1 DEF WriteLog
    <3>. QED
      BY <2>4, <3>2 DEF WriteLog
  <2>. QED
    BY <1>2, <2>1, <2>2, <2>3, <2>4 DEF Loop
<1>3. ASSUME NEW s \in Servers, Handle(s) PROVE TypeOK'
  BY <1>3 DEF Handle, TypeOK, Places, Starting, Looping, objectVars, clientVars, Procs
<1>4. ASSUME NEW s \in Servers, Start(s) PROVE TypeOK'
  BY <1>4 DEF Start, TypeOK, Goto, Places, Starting, Looping, objectVars, serverVars, clientVars, Procs
<1>5. ASSUME NEW s \in Servers, Interrupt(s) PROVE TypeOK'
  <2>1. pending' \in [Servers -> SUBSET Signals]
    <3>1. \/ pending' = pending
          \/ pending' = [pending EXCEPT ![s] = @ \cup {"INT"}]
      BY <1>5 DEF Interrupt, Signal
    <3>. QED
      BY <3>1, OneMorePending DEF Signals
  <2>2. pc' = pc \/ pc' = [pc EXCEPT ![s] = "killed"]
    BY <1>5 DEF Interrupt, Signal
  <2>3. pc \in [Procs -> Places] /\ "killed" \in Places /\ s \in Procs
    BY DEF TypeOK, Places, Procs
  <2>4. pc' \in [Procs -> Places] /\ \A c \in Clients : pc'[c] = pc[c]
    BY <2>2, <2>3 DEF Procs
  <2>. QED
    BY <1>5, <2>1, <2>4 DEF Interrupt, TypeOK, objectVars, clientVars
<1>6. ASSUME NEW c \in Clients, Open(c) \/ ShowPid(c) \/ Again(c) \/ Leave(c) PROVE TypeOK'
  <2> USE DEF TypeOK, Goto, Places, Starting, Looping, objectVars, serverVars, clientVars, Procs
  <2>1. CASE Open(c)
    <3>1. name \in Servers /\ to' = [to EXCEPT ![c] = name]
      BY <2>1 DEF Open
    <3>. QED
      BY <2>1, <3>1 DEF Open
  <2>2. CASE ShowPid(c)
    BY <2>2 DEF ShowPid
  <2>3. CASE Again(c) \/ Leave(c)
    BY <2>3 DEF Again, Leave
  <2>. QED
    BY <1>6, <2>1, <2>2, <2>3
<1>7. ASSUME NEW c \in Clients, Enter(c) PROVE TypeOK'
  BY <1>7 DEF Enter, TypeOK, Goto, Places, Starting, Looping, objectVars, serverVars, clientVars, Procs
<1>8. ASSUME NEW c \in Clients, WriteField(c) PROVE TypeOK'
  <2>1. PICK f \in todo[c] : /\ data' = [data EXCEPT ![to[c]][f] = <<c, entered[c]>>]
                             /\ todo' = [todo EXCEPT ![c] = @ \ {f}]
    BY <1>8 DEF WriteField
  <2>2. f \in Fields /\ to[c] \in Servers
    BY <1>8 DEF WriteField, TypeOK, Procs
  <2>3. <<c, entered[c]>> \in Values
    BY <2>2 DEF Values, TypeOK
  <2>4. data' \in [Servers -> [Fields -> Values]]
    BY <2>1, <2>2, <2>3 DEF TypeOK
  <2>5. todo' \in [Procs -> SUBSET Fields]
    BY <2>1 DEF TypeOK
  <2>. QED
    BY <1>8, <2>4, <2>5 DEF WriteField, TypeOK, serverVars, clientVars
<1>9. ASSUME NEW c \in Clients, Wake(c) PROVE TypeOK'
  <2>1. to[c] \in Servers
    BY <1>9 DEF Wake, TypeOK
  <2>2. pending' \in [Servers -> SUBSET Signals]
    <3>1. \/ pending' = pending
          \/ pending' = [pending EXCEPT ![to[c]] = @ \cup {"USR1"}]
      BY <1>9 DEF Wake, Signal
    <3>. QED
      BY <2>1, <3>1, OneMorePending DEF Signals
  <2>3. pc' \in [Procs -> Places] /\ \A d \in Clients : pc[d] = "off" => pc'[d] = "off"
    <3>1. PICK pcs \in {[pc EXCEPT ![c] = "again"], [pc EXCEPT ![c] = "killed"]} :
             pc' \in {pcs, [pcs EXCEPT ![to[c]] = "killed"]}
      BY <1>9 DEF Wake, Signal
    <3>2. pcs \in [Procs -> Places] /\ \A d \in Clients : pc[d] = "off" => pcs[d] = "off"
      <4>1. pc \in [Procs -> Places] /\ c \in Procs /\ pc[c] = "write"
        BY <1>9 DEF Wake, TypeOK, Procs
      <4>2. {"again", "killed"} \subseteq Places
        BY DEF Places
      <4>3. pcs \in [Procs -> Places]
        BY <3>1, <4>1, <4>2
      <4>4. ASSUME NEW d \in Clients, pc[d] = "off" PROVE pcs[d] = "off"
        BY <3>1, <4>1, <4>4 DEF Procs
      <4>. QED
        BY <4>3, <4>4
    <3>. QED
      BY <2>1, <3>1, <3>2, ProcsAssumption DEF Places, Procs
  <2>4. \A d \in Clients : pc'[d] # "off" => to[d] \in Servers
    BY <2>3 DEF TypeOK
  <2>. QED
    BY <1>9, <2>2, <2>3, <2>4 DEF Wake, TypeOK, objectVars, clientVars
<1>10. CASE UNCHANGED vars
  BY <1>10 DEF vars, TypeOK, objectVars, serverVars, clientVars
<1>. QED
  BY <1>1, <1>2, <1>3, <1>4, <1>5, <1>6, <1>7, <1>8, <1>9, <1>10
     DEF Next, Users, ServerSteps, ClientSteps

\* The state stays well typed (SigShm.tla, TypeOK).
THEOREM TypeCorrect == Spec => []TypeOK
BY InitTypeOK, NextTypeOK, PTL DEF Spec

-----------------------------------------------------------------------------
\* The name.

\* Where a server may be while SHM_NAME is bound to its object.
Kept(s) == (Running(s) /\ pc[s] # "create") \/ pc[s] = "killed"

\* The name is bound to nothing at the start, and a step that takes a server
\* out of Kept unbinds it.
LEMMA InitNoOrphan == Init => NoOrphanObject
BY ProcsAssumption DEF Init, NoOrphanObject

LEMMA NextNoOrphan == TypeOK /\ NoOrphanObject /\ [Next]_vars => NoOrphanObject'
<1> SUFFICES ASSUME TypeOK, NoOrphanObject, [Next]_vars,
                    NEW t \in Servers, name' = t
             PROVE  Kept(t)'
  BY DEF NoOrphanObject, Kept
<1> USE ProcsAssumption DEF Kept, Running, Starting, Looping, Procs
<1>0. name = t => Kept(t)
  BY DEF NoOrphanObject
<1>p. pc \in [Procs -> Places]
  BY DEF TypeOK
<1>1. ASSUME NEW s \in Servers, Start(s) \/ Fails(s) \/ Cleanup(s) PROVE FALSE
  BY <1>1 DEF Start, Fails, Cleanup
<1>2. ASSUME NEW s \in Servers, Create(s) PROVE Kept(t)'
  <2>1. CASE name = NoObject
    <3>1. s = t /\ pc' = [pc EXCEPT ![s] = "truncate"]
      BY <1>2, <2>1 DEF Create, Goto
    <3>. QED
      BY <1>p, <3>1
  <2>2. CASE name # NoObject
    <3>1. name = t /\ pc[s] = "create" /\ pc' = [pc EXCEPT ![s] = "failed"]
      BY <1>2, <2>2 DEF Create, Goto
    <3>. QED
      BY <1>0, <1>p, <3>1
  <2>. QED
    BY <2>1, <2>2
<1>3. ASSUME NEW s \in Servers,
             \/ Truncate(s) \/ Map(s) \/ WritePid(s) \/ ZeroField(s)
             \/ ZeroDone(s) \/ InstallUsr1(s) \/ InstallInt(s)
      PROVE  Kept(t)'
  BY <1>0, <1>p, <1>3
     DEF Truncate, Map, WritePid, ZeroField, ZeroDone, InstallUsr1, InstallInt, Goto
<1>4. ASSUME NEW s \in Servers,
             \/ TestRunning(s) \/ Pause(s) \/ Break(s) \/ BeginRead(s)
             \/ ReadField(s) \/ WriteLog(s) \/ Handle(s)
      PROVE  Kept(t)'
  <2>1. name = t
    BY <1>4 DEF TestRunning, Pause, Break, BeginRead, ReadField, WriteLog, Handle
  <2>2. pc' = pc \/ \E q \in Looping : pc' = [pc EXCEPT ![s] = q]
    BY <1>4, <1>p
       DEF TestRunning, Pause, Break, BeginRead, ReadField, WriteLog, Handle, Goto
  <2>. QED
    BY <1>0, <1>p, <2>1, <2>2
<1>5. ASSUME NEW s \in Servers, Interrupt(s) PROVE Kept(t)'
  BY <1>0, <1>p, <1>5 DEF Interrupt, Signal
<1>6. ASSUME NEW c \in Clients,
             \/ Open(c) \/ ShowPid(c) \/ Enter(c) \/ WriteField(c) \/ Again(c) \/ Leave(c)
      PROVE  Kept(t)'
  BY <1>0, <1>p, <1>6 DEF Open, ShowPid, Enter, WriteField, Again, Leave, Goto
<1>7. ASSUME NEW c \in Clients, Wake(c) PROVE Kept(t)'
  <2>1. name = t
    BY <1>7 DEF Wake
  <2>2. pc'[t] = pc[t] \/ pc'[t] = "killed"
    BY <1>p, <1>7 DEF Wake, Signal
  <2>. QED
    BY <1>0, <2>1, <2>2
<1>8. CASE UNCHANGED vars
  BY <1>0, <1>8 DEF vars
<1>. QED
  BY <1>1, <1>2, <1>3, <1>4, <1>5, <1>6, <1>7, <1>8
     DEF Next, Users, ServerSteps, ClientSteps, StartUp, Loop

\* No server that fails or leaves keeps SHM_NAME bound to its object, whatever
\* other servers start meanwhile (SigShm.tla, NoOrphanObject).
THEOREM NameIsNeverLeft == Spec => []NoOrphanObject
BY InitTypeOK, NextTypeOK, InitNoOrphan, NextNoOrphan, PTL DEF Spec

-----------------------------------------------------------------------------
\* The record.

\* CopyInv for one server.
Copied(s) ==
  /\ pc[s] \in Unpublished \cup {"zero"} => got[s] = ZeroRecord
  /\ pc[s] \in Awake \cup {"zero", "read"} => pidWritten[s]
  /\ pc[s] \in Awake => todo[s] = {}
  /\ pc[s] \in Awake \cup {"zero", "read"} /\ Quiet(s) =>
       \A f \in Fields \ todo[s] : got[s][f] = data[s][f]

LEMMA CopiedIsCopyInv == CopyInv <=> \A s \in Servers : Copied(s)
BY DEF CopyInv, Copied

LEMMA InitCopyInv == Init => CopyInv
BY ProcsAssumption DEF Init, CopyInv, Awake, Unpublished, Procs

\* A step that leaves all of a server's own state and its object alone, and
\* brings no record to rest, keeps its part of the invariant.
LEMMA Untouched ==
  ASSUME NEW t \in Servers, Copied(t),
         pc'[t] = pc[t], got'[t] = got[t], data'[t] = data[t], todo'[t] = todo[t],
         pidWritten[t] => pidWritten'[t],
         Quiet(t)' => Quiet(t)
  PROVE  Copied(t)'
BY DEF Copied

\* Steps of one server leave the others alone.
LEMMA OtherServerCopied ==
  ASSUME TypeOK, CopyInv, NEW s \in Servers, NEW t \in Servers, s # t,
         StartUp(s) \/ Loop(s) \/ Handle(s) \/ Start(s) \/ Interrupt(s)
  PROVE  Copied(t)'
<1> USE ProcsAssumption DEF Procs
<1>0. Copied(t)
  BY CopiedIsCopyInv
<1>1. /\ pc \in [Procs -> Places] /\ todo \in [Procs -> SUBSET Fields]
      /\ got \in [Servers -> [Fields -> Values]] /\ data \in [Servers -> [Fields -> Values]]
      /\ pidWritten \in [Servers -> BOOLEAN] /\ pending \in [Servers -> SUBSET Signals]
      /\ sigReceived \in [Servers -> BOOLEAN]
  BY DEF TypeOK
<1> USE DEF objectVars, serverVars, clientVars, Goto
<1>2. \A q \in Procs \ {s} : pc'[q] = pc[q] /\ todo'[q] = todo[q]
  BY <1>1
     DEF StartUp, Loop, Handle, Start, Interrupt, Signal, Create, Truncate, Map,
         WritePid, ZeroField, ZeroDone, InstallUsr1, InstallInt, Fails, TestRunning,
         Pause, Break, BeginRead, ReadField, WriteLog, Cleanup
<1>3. got'[t] = got[t] /\ data'[t] = data[t] /\ pidWritten'[t] = pidWritten[t] /\ to' = to
  BY <1>1
     DEF StartUp, Loop, Handle, Start, Interrupt, Signal, Create, Truncate, Map,
         WritePid, ZeroField, ZeroDone, InstallUsr1, InstallInt, Fails, TestRunning,
         Pause, Break, BeginRead, ReadField, WriteLog, Cleanup
<1>4. pending'[t] = pending[t] /\ sigReceived'[t] = sigReceived[t]
  BY <1>1
     DEF StartUp, Loop, Handle, Start, Interrupt, Signal, Create, Truncate, Map,
         WritePid, ZeroField, ZeroDone, InstallUsr1, InstallInt, Fails, TestRunning,
         Pause, Break, BeginRead, ReadField, WriteLog, Cleanup
<1>5. Quiet(t)' => Quiet(t)
  BY <1>2, <1>3, <1>4 DEF Quiet, Coming
<1>. QED
  BY <1>0, <1>2, <1>3, <1>5, Untouched

\* The clients' part of Quiet does not change in a server's step.
LEMMA ServerKeepsQuiet ==
  ASSUME TypeOK, NEW s \in Servers, to' = to,
         \A c \in Clients : pc'[c] = pc[c],
         "USR1" \in pending[s] \/ sigReceived[s] =>
           "USR1" \in pending'[s] \/ sigReceived'[s]
  PROVE  Quiet(s)' => Quiet(s)
BY DEF Quiet, Coming

\* The start of a server.
LEMMA StartUpCopied ==
  ASSUME TypeOK, CopyInv, NEW s \in Servers, StartUp(s) \/ Start(s)
  PROVE  Copied(s)'
<1> USE ProcsAssumption DEF Procs
<1>0. Copied(s)
  BY CopiedIsCopyInv
<1>1. /\ pc \in [Procs -> Places] /\ todo \in [Procs -> SUBSET Fields]
      /\ data \in [Servers -> [Fields -> Values]] /\ pidWritten \in [Servers -> BOOLEAN]
  BY DEF TypeOK
<1> USE DEF objectVars, serverVars, clientVars, Goto
<1>2. /\ got' = got /\ pending' = pending /\ sigReceived' = sigReceived /\ to' = to
      /\ \A c \in Clients : pc'[c] = pc[c]
  BY <1>1
     DEF StartUp, Start, Create, Truncate, Map, WritePid, ZeroField, ZeroDone,
         InstallUsr1, InstallInt, Fails
<1>3. Quiet(s)' => Quiet(s)
  BY <1>2, ServerKeepsQuiet
<1>4. CASE Start(s) \/ Create(s) \/ Truncate(s) \/ Map(s) \/ Fails(s)
  <2>1. pc[s] \in Unpublished \/ pc'[s] = "failed"
    BY <1>1, <1>4 DEF Start, Create, Truncate, Map, Fails, Unpublished
  <2>2. pc'[s] \in Unpublished \cup {"failed"}
    BY <1>1, <1>4 DEF Start, Create, Truncate, Map, Fails, Unpublished
  <2>. QED
    BY <1>0, <1>2, <2>1, <2>2 DEF Copied, Unpublished, Awake
<1>5. CASE WritePid(s)
  <2>1. pc[s] = "pid" /\ pc'[s] = "zero" /\ pidWritten'[s] /\ todo'[s] = Fields
    BY <1>1, <1>5 DEF WritePid
  <2>. QED
    BY <1>0, <1>2, <2>1 DEF Copied, Unpublished, Awake
<1>6. CASE ZeroField(s)
  <2>1. PICK f \in todo[s] : /\ data' = [data EXCEPT ![s][f] = Zero]
                             /\ todo' = [todo EXCEPT ![s] = @ \ {f}]
    BY <1>6 DEF ZeroField
  <2>2. pc[s] = "zero" /\ pc'[s] = "zero" /\ pidWritten' = pidWritten
    BY <1>6 DEF ZeroField
  <2>3. got[s] = ZeroRecord
    BY <1>0, <2>2 DEF Copied
  <2>4. f \in Fields /\ todo'[s] = todo[s] \ {f}
    BY <1>1, <2>1
  <2>5. ASSUME Quiet(s)', NEW g \in Fields \ todo'[s] PROVE got'[s][g] = data'[s][g]
    <3>1. CASE g = f
      <4>1. data'[s][g] = Zero
        BY <1>1, <2>1, <2>4, <3>1
      <4>. QED
        BY <1>2, <2>3, <4>1 DEF ZeroRecord
    <3>2. CASE g # f
      <4>1. data'[s][g] = data[s][g] /\ g \notin todo[s]
        BY <1>1, <2>1, <2>4, <2>5, <3>2
      <4>. QED
        BY <1>0, <1>2, <1>3, <2>2, <2>5, <4>1 DEF Copied
    <3>. QED
      BY <3>1, <3>2
  <2>. QED
    BY <1>0, <1>2, <2>2, <2>5 DEF Copied, Unpublished, Awake
<1>7. CASE ZeroDone(s) \/ InstallUsr1(s) \/ InstallInt(s)
  <2>1. /\ pc[s] \in Awake \cup {"zero"} /\ pc'[s] \in Awake
        /\ data' = data /\ pidWritten' = pidWritten /\ todo' = todo /\ todo[s] = {}
    BY <1>0, <1>1, <1>7 DEF ZeroDone, InstallUsr1, InstallInt, Awake, Copied
  <2>. QED
    BY <1>0, <1>2, <1>3, <2>1 DEF Copied, Unpublished, Awake
<1>. QED
  BY <1>4, <1>5, <1>6, <1>7 DEF StartUp

\* The loop of a server and the signals that reach it.
LEMMA LoopCopied ==
  ASSUME TypeOK, CopyInv, NEW s \in Servers, Loop(s) \/ Handle(s) \/ Interrupt(s)
  PROVE  Copied(s)'
<1> USE ProcsAssumption DEF Procs
<1>0. Copied(s)
  BY CopiedIsCopyInv
<1>1. /\ pc \in [Procs -> Places] /\ todo \in [Procs -> SUBSET Fields]
      /\ got \in [Servers -> [Fields -> Values]] /\ pending \in [Servers -> SUBSET Signals]
      /\ sigReceived \in [Servers -> BOOLEAN]
  BY DEF TypeOK
<1> USE DEF objectVars, serverVars, clientVars, Goto
<1>2. data' = data /\ pidWritten' = pidWritten /\ to' = to /\ \A c \in Clients : pc'[c] = pc[c]
  BY <1>1
     DEF Loop, TestRunning, Pause, Break, BeginRead, ReadField, WriteLog,
         Cleanup, Handle, Interrupt, Signal
<1>3. CASE TestRunning(s) \/ Pause(s) \/ WriteLog(s)
  <2>1. /\ pc[s] \in Awake \cup {"read"} /\ pc'[s] \in Awake \cup {"cleanup"}
        /\ got' = got /\ todo' = todo /\ todo[s] = {}
        /\ pending' = pending /\ sigReceived' = sigReceived
    BY <1>0, <1>1, <1>3 DEF TestRunning, Pause, WriteLog, Awake, Copied
  <2>2. Quiet(s)' => Quiet(s)
    BY <1>2, <2>1, ServerKeepsQuiet
  <2>. QED
    BY <1>0, <1>2, <2>1, <2>2 DEF Copied, Unpublished, Awake
<1>4. CASE Break(s) \/ Cleanup(s)
  <2>1. pc'[s] \in {"cleanup", "done"}
    BY <1>1, <1>4 DEF Break, Cleanup
  <2>. QED
    BY <2>1 DEF Copied, Unpublished, Awake
<1>5. CASE BeginRead(s)
  <2>1. pc[s] = "woke" /\ pc'[s] = "read" /\ todo'[s] = Fields
    BY <1>1, <1>5 DEF BeginRead
  <2>. QED
    BY <1>0, <1>2, <2>1 DEF Copied, Unpublished, Awake
<1>6. CASE ReadField(s)
  <2>1. PICK f \in todo[s] : /\ got' = [got EXCEPT ![s][f] = data[s][f]]
                             /\ todo' = [todo EXCEPT ![s] = @ \ {f}]
    BY <1>6 DEF ReadField
  <2>2. /\ pc[s] = "read" /\ pc'[s] = "read"
        /\ pending' = pending /\ sigReceived' = sigReceived
    BY <1>6 DEF ReadField
  <2>3. f \in Fields /\ todo'[s] = todo[s] \ {f}
    BY <1>1, <2>1
  <2>4. Quiet(s)' => Quiet(s)
    BY <1>2, <2>2, ServerKeepsQuiet
  <2>5. ASSUME Quiet(s)', NEW g \in Fields \ todo'[s] PROVE got'[s][g] = data'[s][g]
    <3>1. CASE g = f
      BY <1>1, <1>2, <2>1, <2>3, <3>1
    <3>2. CASE g # f
      <4>1. got'[s][g] = got[s][g] /\ g \notin todo[s]
        BY <1>1, <2>1, <2>3, <2>5, <3>2
      <4>. QED
        BY <1>0, <1>2, <2>2, <2>4, <2>5, <4>1 DEF Copied
    <3>. QED
      BY <3>1, <3>2
  <2>. QED
    BY <1>0, <1>2, <2>2, <2>5 DEF Copied, Unpublished, Awake
<1>7. CASE Handle(s)
  <2>1. /\ got' = got /\ todo' = todo
        /\ pc'[s] = pc[s] \/ (pc[s] = "pause" /\ pc'[s] = "woke")
    BY <1>1, <1>7 DEF Handle
  <2>2. "USR1" \in pending[s] \/ sigReceived[s] => sigReceived'[s]
    BY <1>1, <1>7 DEF Handle
  <2>3. Quiet(s)' => Quiet(s)
    BY <1>2, <2>2, ServerKeepsQuiet
  <2>. QED
    BY <1>0, <1>2, <2>1, <2>3 DEF Copied, Unpublished, Awake
<1>8. CASE Interrupt(s)
  <2>1. /\ got' = got /\ todo' = todo /\ sigReceived' = sigReceived
        /\ pc'[s] = pc[s] \/ pc'[s] = "killed"
        /\ pending' = pending \/ pending' = [pending EXCEPT ![s] = @ \cup {"INT"}]
    BY <1>1, <1>8 DEF Interrupt, Signal
  <2>2. Quiet(s)' => Quiet(s)
    BY <1>1, <1>2, <2>1, ServerKeepsQuiet
  <2>. QED
    BY <1>0, <1>2, <2>1, <2>2 DEF Copied, Unpublished, Awake
<1>. QED
  BY <1>3, <1>4, <1>5, <1>6, <1>7, <1>8 DEF Loop

\* Steps of a client, seen from any server.
LEMMA ClientCopied ==
  ASSUME TypeOK, CopyInv, NEW c \in Clients, NEW t \in Servers,
         \/ Open(c) \/ ShowPid(c) \/ Enter(c) \/ WriteField(c) \/ Wake(c)
         \/ Again(c) \/ Leave(c)
  PROVE  Copied(t)'
<1> USE ProcsAssumption DEF Procs
<1>0. Copied(t)
  BY CopiedIsCopyInv
<1>1. /\ pc \in [Procs -> Places] /\ todo \in [Procs -> SUBSET Fields]
      /\ to \in [Clients -> Servers \cup {NoObject}]
      /\ data \in [Servers -> [Fields -> Values]] /\ pending \in [Servers -> SUBSET Signals]
  BY DEF TypeOK
<1> USE DEF objectVars, serverVars, clientVars, Goto
<1>2. CASE Open(c) \/ ShowPid(c) \/ Enter(c) \/ Again(c) \/ Leave(c)
  <2>1. /\ pc'[t] = pc[t] /\ todo'[t] = todo[t] /\ got' = got /\ data' = data
        /\ pidWritten' = pidWritten /\ pending' = pending /\ sigReceived' = sigReceived
    BY <1>1, <1>2 DEF Open, ShowPid, Enter, Again, Leave
  <2>2. /\ \A d \in Clients : d # c => pc'[d] = pc[d] /\ to'[d] = to[d]
        /\ pc[c] # "write"
    BY <1>1, <1>2 DEF Open, ShowPid, Enter, Again, Leave
  <2>3. Quiet(t)' => Quiet(t)
    BY <2>1, <2>2 DEF Quiet, Coming
  <2>. QED
    BY <1>0, <2>1, <2>3, Untouched
<1>3. CASE WriteField(c)
  <2>1. /\ pc[c] = "write" /\ pc' = pc /\ to' = to /\ todo'[t] = todo[t] /\ got' = got
        /\ pidWritten' = pidWritten /\ pending' = pending /\ sigReceived' = sigReceived
    BY <1>1, <1>3 DEF WriteField
  <2>2. CASE to[c] = t
    <3>1. ~Quiet(t)'
      BY <2>1, <2>2 DEF Quiet, Coming
    <3>. QED
      BY <1>0, <2>1, <3>1 DEF Copied
  <2>3. CASE to[c] # t
    <3>1. data'[t] = data[t]
      BY <1>1, <1>3, <2>3 DEF WriteField
    <3>2. Quiet(t)' => Quiet(t)
      BY <2>1 DEF Quiet, Coming
    <3>. QED
      BY <1>0, <2>1, <3>1, <3>2, Untouched
  <2>. QED
    BY <2>2, <2>3
<1>4. CASE Wake(c)
  <2>0. to[c] \in Servers
    BY <1>4 DEF Wake, TypeOK
  <2>1. /\ pc[c] = "write" /\ to' = to /\ todo' = todo /\ got' = got /\ data' = data
        /\ pidWritten' = pidWritten /\ sigReceived' = sigReceived
    BY <1>4 DEF Wake
  <2>2. CASE to[c] # t
    <3>1. pc'[t] = pc[t] /\ pending'[t] = pending[t]
      BY <1>1, <1>4, <2>0, <2>2 DEF Wake, Signal
    <3>2. \A d \in Clients : to[d] = t => pc'[d] = pc[d]
      BY <1>1, <1>4, <2>0, <2>2 DEF Wake, Signal
    <3>3. Quiet(t)' => Quiet(t)
      BY <2>1, <3>1, <3>2 DEF Quiet, Coming
    <3>. QED
      BY <1>0, <2>1, <3>1, <3>3, Untouched
  <2>3. CASE to[c] = t /\ pc'[t] \in Awake \cup {"zero", "read"}
    <3>1. pc'[t] = pc[t] \/ pc'[t] = "killed"
      BY <1>1, <1>4, <2>3 DEF Wake, Signal
    <3>2. pc'[t] = pc[t] /\ pidWritten[t]
      BY <1>0, <2>3, <3>1 DEF Copied, Awake
    <3>3. Running(t)
      BY <2>3, <3>2 DEF Running, Starting, Looping, Awake
    <3>4. Signal(t, "USR1", [pc EXCEPT ![c] = "again"])
      BY <1>4, <2>3, <3>2, <3>3 DEF Wake
    <3>5. pc'[t] # "killed"
      BY <2>3 DEF Awake
    <3>6. "USR1" \in pending'[t]
      BY <1>1, <3>4, <3>5 DEF Signal
    <3>7. ~Quiet(t)'
      BY <3>6 DEF Quiet, Coming
    <3>. QED
      BY <1>0, <2>1, <3>2, <3>7 DEF Copied
  <2>4. CASE to[c] = t /\ pc'[t] \notin Awake \cup {"zero", "read"}
    <3>1. pc'[t] = pc[t] \/ pc'[t] = "killed"
      BY <1>1, <1>4, <2>4 DEF Wake, Signal
    <3>. QED
      BY <1>0, <2>1, <2>4, <3>1 DEF Copied, Unpublished
  <2>. QED
    BY <2>2, <2>3, <2>4
<1>. QED
  BY <1>2, <1>3, <1>4

LEMMA NextCopyInv == TypeOK /\ CopyInv /\ [Next]_vars => CopyInv'
<1> SUFFICES ASSUME TypeOK, CopyInv, [Next]_vars, NEW t \in Servers PROVE Copied(t)'
  BY CopiedIsCopyInv DEF CopyInv, Copied
<1>1. ASSUME NEW s \in Servers, StartUp(s) \/ Loop(s) \/ Handle(s) \/ Start(s) \/ Interrupt(s)
      PROVE  Copied(t)'
  BY <1>1, OtherServerCopied, StartUpCopied, LoopCopied
<1>2. ASSUME NEW c \in Clients,
             \/ Open(c) \/ ShowPid(c) \/ Enter(c) \/ WriteField(c) \/ Wake(c)
             \/ Again(c) \/ Leave(c)
      PROVE  Copied(t)'
  BY <1>2, ClientCopied
<1>3. CASE UNCHANGED vars
  <2>1. Copied(t)
    BY CopiedIsCopyInv
  <2>. QED
    BY <1>3, <2>1, Untouched DEF vars, objectVars, serverVars, clientVars, Quiet, Coming
<1>. QED
  BY <1>1, <1>2, <1>3 DEF Next, Users, ServerSteps, ClientSteps

LEMMA CopyInvSuffices == TypeOK /\ CopyInv => UnreadIsFlagged
<1> SUFFICES ASSUME TypeOK, CopyInv, NEW s \in Servers,
                    pc[s] \in {"loop", "announce", "pause", "woke"}, Quiet(s)
             PROVE  got[s] = data[s]
  BY DEF UnreadIsFlagged, Quiet
<1>1. \A f \in Fields : got[s][f] = data[s][f]
  BY DEF CopyInv, Awake
<1>2. got[s] \in [Fields -> Values] /\ data[s] \in [Fields -> Values]
  BY DEF TypeOK
<1>. QED
  BY <1>1, <1>2

\* Between two copies, a record that the server has not read as it stands in
\* its object is coming or flagged (SigShm.tla, UnreadIsFlagged): signals that
\* merge, or that come while a record is copied, do not make it forget one.
\* That it does not sleep meanwhile is not claimed, and not true.
THEOREM UnreadRecordIsFlagged == Spec => []UnreadIsFlagged
<1>1. Init => UnreadInv
  BY InitTypeOK, InitCopyInv DEF UnreadInv
<1>2. UnreadInv /\ [Next]_vars => UnreadInv'
  BY NextTypeOK, NextCopyInv DEF UnreadInv
<1>3. UnreadInv => UnreadIsFlagged
  BY CopyInvSuffices DEF UnreadInv
<1>. QED
  BY <1>1, <1>2, <1>3, PTL DEF Spec
=============================================================================
