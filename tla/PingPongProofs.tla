--------------------------- MODULE PingPongProofs ---------------------------
(***************************************************************************)
(* Theorems about PingPong for every number of iterations.                 *)
(***************************************************************************)
EXTENDS PingPong, SequenceTheorems, TLAPS

\* A line is appended at the end and the earlier ones stay.
LEMMA AppendLine ==
  ASSUME NEW S, NEW s \in Seq(S), NEW x \in S
  PROVE  /\ Append(s, x) \in Seq(S)
         /\ Len(Append(s, x)) = Len(s) + 1
         /\ \A n \in 1..Len(s) : Append(s, x)[n] = s[n]
         /\ Append(s, x)[Len(s) + 1] = x
  BY AppendProperties

\* Whatever the file holds, a counter that can be read back is a number.
LEMMA LastCountersNat == TypeOK => LastCounters \subseteq Nat
<1> SUFFICES ASSUME TypeOK PROVE LastCounters \subseteq Nat
  OBVIOUS
<1>1. CASE file = << >>
  BY <1>1 DEF LastCounters
<1>2. CASE file # << >>
  <2> DEFINE S == [who : Procs, counter : Nat]
  <2>1. file \in Seq(S) /\ Len(file) \in 1..Len(file)
    BY <1>2, EmptySeq DEF TypeOK
  <2>2. file[Len(file)] \in S
    <3> HIDE DEF S
    <3> QED BY <2>1, ElementOfSeq
  <2> QED BY <1>2, <2>2 DEF LastCounters
<1> QED BY <1>1, <1>2

\* The initial state satisfies the inductive invariant.
LEMMA InitInv == Init => Inv
  BY IterationsAssumption
  DEF Init, Inv, TypeOK, OneTurn, LoopBounds, HolderIsNext, FileCounts,
      Written, Holds, Working, Procs, Partner

\* Every step of a process preserves it.
LEMMA StepInv == Inv /\ [Next]_vars => Inv'
<1> SUFFICES ASSUME Inv, [Next]_vars PROVE Inv'
  OBVIOUS
<1> USE IterationsAssumption
    DEF Inv, OneTurn, LoopBounds, HolderIsNext, FileCounts, Written,
        Holds, Working, Procs, Partner, Goto
<1>1. ASSUME NEW p \in Procs, Start(p) PROVE Inv'
  BY <1>1 DEF Start, TypeOK
<1>2. ASSUME NEW p \in Procs, CheckTurn(p) PROVE Inv'
  BY <1>2 DEF CheckTurn, TypeOK
<1>3. ASSUME NEW p \in Procs, Suspend(p) PROVE Inv'
  BY <1>3 DEF Suspend, Handler, TypeOK
<1>4. ASSUME NEW p \in Procs, TakeTurn(p) PROVE Inv'
  BY <1>4 DEF TakeTurn, TypeOK
<1>5. ASSUME NEW p \in Procs, ReadCounter(p) PROVE Inv'
  <2>1. LastCounters \subseteq Nat
    BY LastCountersNat
  <2>2. counter' \in [Procs -> Nat]
    BY <1>5, <2>1 DEF ReadCounter, TypeOK
  <2> QED BY <1>5, <2>2 DEF ReadCounter, TypeOK
<1>6. ASSUME NEW p \in Procs, WriteLine(p) PROVE Inv'
  <2>1. Line(p, counter[p]) \in [who : Procs, counter : Nat]
    BY DEF Line, TypeOK
  <2>2. /\ file' \in Seq([who : Procs, counter : Nat])
        /\ Len(file') = Len(file) + 1
    BY <1>6, <2>1, AppendLine DEF WriteLine, TypeOK
  <2>3. TypeOK'
    BY <1>6, <2>2 DEF WriteLine, TypeOK
  <2>4. FileCounts'
    BY <1>6, <2>2 DEF WriteLine, TypeOK
  <2> QED BY <1>6, <2>3, <2>4 DEF WriteLine, TypeOK
<1>7. ASSUME NEW p \in Procs, WriteFails(p) PROVE Inv'
  BY <1>7 DEF WriteFails, TypeOK
<1>8. ASSUME NEW p \in Procs, Yield(p) PROVE Inv'
  <2>1. TypeOK'
    BY <1>8, SMTT(30) DEF Yield, Kill, TypeOK
  <2>2. CASE p = "A"
    BY <1>8, <2>1, <2>2 DEF Yield, Kill, TypeOK
  <2>3. CASE p = "B"
    BY <1>8, <2>1, <2>3 DEF Yield, Kill, TypeOK
  <2> QED BY <2>2, <2>3
<1>9. CASE Exit
  BY <1>9 DEF Exit, TypeOK
<1>10. CASE WaitAndPrint
  <2>1. printed' \in Seq([who : Procs, counter : Nat])
    BY <1>10, EmptySeq DEF WaitAndPrint, TypeOK
  <2> QED BY <1>10, <2>1 DEF WaitAndPrint, TypeOK
<1>11. CASE UNCHANGED vars
  BY <1>11 DEF vars, TypeOK
<1> QED
  BY <1>1, <1>2, <1>3, <1>4, <1>5, <1>6, <1>7, <1>8, <1>9, <1>10, <1>11
  DEF Next, Step

LEMMA Invariance == Spec => []Inv
  BY InitInv, StepInv, PTL DEF Spec

\* Every reachable state is well typed, for any number of iterations and
\* whichever fopen calls fail.
THEOREM TypeCorrect == Spec => []TypeOK
  BY Invariance, PTL DEF Inv

\* The turn to use shared.txt (lines 59-70 of main.c) is never in two hands.
THEOREM TurnIsUnique == Spec => []OneTurn
  BY Invariance, PTL DEF Inv

-----------------------------------------------------------------------------
\* Odd lines are A's and even ones B's.
LEMMA Parity == \A k \in Nat : (2*k + 1) % 2 = 1 /\ (2*k + 2) % 2 # 1
  OBVIOUS

\* When a process writes, the line is the next one of the sequence, and there
\* is room for it.
LEMMA WritesNext ==
  ASSUME CountingInv, "r" \notin FailingOpens, NEW p \in Procs, WriteLine(p)
  PROVE  /\ counter[p] = Len(file) + 1
         /\ p = (IF counter[p] % 2 = 1 THEN "A" ELSE "B")
         /\ Len(file) < 2 * ITERATIONS
<1> USE IterationsAssumption
<1>1. counter[p] = Len(file) + 1
  BY DEF CountingInv, FreshCounter, WriteLine
<1>2. /\ Len(file) = i["A"] + i["B"] \/ pc[Partner(p)] = "kill"
      /\ pc[Partner(p)] # "kill"
      /\ Holds(p)
  BY DEF CountingInv, Inv, FileCounts, Written, WriteLine, OneTurn, Holds,
         Working, Procs, Partner
<1>3. i \in [Procs -> Nat] /\ i[p] < ITERATIONS
  BY DEF CountingInv, Inv, TypeOK, LoopBounds, WriteLine
<1>4. CASE p = "A"
  <2>1. Len(file) = 2 * i["A"]
    BY <1>2, <1>3, <1>4 DEF CountingInv, Inv, HolderIsNext, Procs
  <2> QED BY <1>1, <1>3, <1>4, <2>1, Parity DEF Procs
<1>5. CASE p = "B"
  <2>1. Len(file) = 2 * i["B"] + 1
    BY <1>2, <1>3, <1>5 DEF CountingInv, Inv, HolderIsNext, Procs
  <2>2. counter[p] = 2 * i["B"] + 2
    BY <1>1, <1>3, <2>1 DEF Procs
  <2> QED BY <1>1, <1>3, <1>5, <2>1, <2>2, Parity DEF Procs
<1> QED BY <1>4, <1>5 DEF Procs

LEMMA CountingInit == Init => CountingInv
  BY InitInv DEF Init, CountingInv, FreshCounter, CounterSequence, Procs

LEMMA CountingStep ==
  "r" \notin FailingOpens => (CountingInv /\ [Next]_vars => CountingInv')
<1> SUFFICES ASSUME "r" \notin FailingOpens, CountingInv, [Next]_vars
             PROVE  FreshCounter' /\ CounterSequence'
  BY StepInv DEF CountingInv
<1>1. Inv'
  BY StepInv DEF CountingInv
<1>2. ASSUME NEW p \in Procs, ReadCounter(p)
      PROVE  FreshCounter' /\ CounterSequence'
  <2>1. LastCounters = {Len(file)}
    <3>1. CASE file = << >>
      BY <3>1 DEF LastCounters
    <3>2. CASE file # << >>
      <4>1. Len(file) \in 1..Len(file)
        BY <3>2, EmptySeq DEF CountingInv, Inv, TypeOK
      <4>2. PICK w : file[Len(file)] = Line(w, Len(file))
        BY <4>1 DEF CountingInv, CounterSequence
      <4>3. file[Len(file)].counter = Len(file)
        BY <4>2 DEF Line
      <4> QED BY <3>2, <4>3 DEF LastCounters
    <3> QED BY <3>1, <3>2
  <2>2. counter' = [counter EXCEPT ![p] = Len(file) + 1] /\ file' = file
    BY <1>2, <2>1 DEF ReadCounter
  <2>3. FreshCounter'
    BY <1>2, <2>2 DEF CountingInv, Inv, TypeOK, FreshCounter, ReadCounter,
                      Goto
  <2> QED BY <2>2, <2>3 DEF CountingInv, CounterSequence
<1>3. ASSUME NEW p \in Procs, WriteLine(p)
      PROVE  FreshCounter' /\ CounterSequence'
  <2>1. Line(p, counter[p]) \in [who : Procs, counter : Nat]
    BY DEF CountingInv, Inv, TypeOK, Line
  <2>2. /\ Len(file') = Len(file) + 1
        /\ \A n \in 1..Len(file) : file'[n] = file[n]
        /\ file'[Len(file) + 1] = Line(p, counter[p])
    BY <1>3, <2>1, AppendLine DEF WriteLine, CountingInv, Inv, TypeOK
  <2>3. file'[Len(file) + 1] =
          Line(IF (Len(file) + 1) % 2 = 1 THEN "A" ELSE "B", Len(file) + 1)
    BY <1>3, <2>2, WritesNext
  <2>4. CounterSequence'
    <3>1. 1..Len(file') = (1..Len(file)) \cup {Len(file) + 1}
      BY <2>2, EmptySeq DEF CountingInv, Inv, TypeOK
    <3> QED BY <2>2, <2>3, <3>1 DEF CountingInv, CounterSequence
  <2>5. \A q \in Procs : pc'[q] # "write"
    BY <1>3 DEF WriteLine, Goto, CountingInv, Inv, TypeOK, OneTurn, Holds,
                Working, Procs, Partner
  <2> QED BY <2>4, <2>5 DEF FreshCounter
<1>4. ASSUME UNCHANGED <<file, counter>>,
             \A q \in Procs : pc'[q] = "write" => pc[q] = "write"
      PROVE  FreshCounter' /\ CounterSequence'
  BY <1>4 DEF CountingInv, FreshCounter, CounterSequence
<1>5. ASSUME NEW p \in Procs,
             Start(p) \/ CheckTurn(p) \/ Suspend(p) \/ TakeTurn(p)
               \/ WriteFails(p) \/ Yield(p)
      PROVE  FreshCounter' /\ CounterSequence'
  BY <1>4, <1>5 DEF Start, CheckTurn, Suspend, TakeTurn, WriteFails, Yield,
                    Goto, CountingInv, Inv, TypeOK
<1>6. CASE Exit \/ WaitAndPrint \/ UNCHANGED vars
  BY <1>4, <1>6 DEF Exit, WaitAndPrint, vars, Goto, CountingInv, Inv, TypeOK
<1> QED
  BY <1>2, <1>3, <1>5, <1>6 DEF Next, Step

LEMMA CountingInvariance ==
  ASSUME "r" \notin FailingOpens PROVE Spec => []CountingInv
  BY CountingInit, CountingStep, PTL DEF Spec

\* As long as the file can be opened for reading, its lines are 1, 2, 3, ...
\* with A and B alternating, even when a process dies on a failing append.
THEOREM LinesInSequence ==
  ASSUME "r" \notin FailingOpens PROVE Spec => []CounterSequence
  BY CountingInvariance, PTL DEF CountingInv

\* A step that changes the file is one of the log.
LEMMA LogStep ==
  "r" \notin FailingOpens => (CountingInv /\ [Next]_vars => [Log!AppendNext]_file)
<1> SUFFICES ASSUME "r" \notin FailingOpens, CountingInv, [Next]_vars, file' # file
             PROVE  Log!AppendNext
  OBVIOUS
<1>1. PICK p \in Procs : WriteLine(p)
  BY DEF Next, Step, Start, CheckTurn, Suspend, TakeTurn, ReadCounter,
         WriteFails, Yield, Exit, WaitAndPrint, vars
<1> QED
  BY <1>1, WritesNext
  DEF Log!AppendNext, Log!Line, Log!Writer, Line, WriteLine

\* Every append is the one the abstract log prescribes next.
THEOREM LogRefinement ==
  ASSUME "r" \notin FailingOpens PROVE Spec => AppendsInTurn
<1>1. Init => Log!Init
  BY DEF Init, Log!Init
<1> QED BY <1>1, LogStep, CountingInvariance, PTL DEF Spec, AppendsInTurn, Log!Spec

-----------------------------------------------------------------------------
\* What A prints is final: by then both processes have ended, so neither the
\* file nor the turn counts it is compared with can change any more.
PrintInv ==
  /\ PrintsWholeFile
  /\ printed # << >> => \A p \in Procs : pc[p] = "exited"

LEMMA PrintInit == Init => PrintInv
  BY DEF Init, PrintInv, PrintsWholeFile

\* When A prints, both loop counters say how many lines the file holds.
LEMMA PrintedWhole ==
  ASSUME Inv, WaitAndPrint, printed' # << >>
  PROVE  Len(printed') = 2 * ITERATIONS \/ GaveUp("B")
<1> USE IterationsAssumption
<1>1. printed' = file
  BY DEF WaitAndPrint
<1>2. Len(file) = i["A"] + i["B"] /\ i["A"] = ITERATIONS
  BY DEF Inv, FileCounts, Written, LoopBounds, WaitAndPrint, Procs
<1>3. i["B"] \in 0..ITERATIONS /\ pc["B"] = "exited"
  BY DEF Inv, TypeOK, WaitAndPrint, Procs
<1>4. i["B"] = ITERATIONS \/ GaveUp("B")
  BY <1>3 DEF GaveUp
<1> QED BY <1>1, <1>2, <1>4

LEMMA PrintStep == Inv /\ PrintInv /\ [Next]_vars => PrintInv'
<1> SUFFICES ASSUME Inv, PrintInv, [Next]_vars PROVE PrintInv'
  OBVIOUS
<1>1. CASE WaitAndPrint
  <2>1. pc["B"] = "exited" /\ pc' = [pc EXCEPT !["A"] = "exited"] /\ i' = i
        /\ DOMAIN pc = Procs
    BY <1>1 DEF WaitAndPrint, Goto, Inv, TypeOK
  <2>2. \A p \in Procs : pc'[p] = "exited"
    BY <2>1 DEF Procs
  <2>3. GaveUp("B") => GaveUp("B")'
    BY <2>1, <2>2 DEF GaveUp, Procs
  <2> QED BY <1>1, <2>2, <2>3, PrintedWhole DEF PrintInv, PrintsWholeFile
<1>2. CASE printed = << >> /\ ~WaitAndPrint
  BY <1>2
  DEF PrintInv, PrintsWholeFile, Next, Step, Start, CheckTurn, Suspend,
      TakeTurn, ReadCounter, WriteLine, WriteFails, Yield, Exit, vars
<1>3. CASE printed # << >> /\ ~WaitAndPrint
  <2>1. UNCHANGED vars
    BY <1>3
    DEF PrintInv, Next, Step, Start, CheckTurn, Suspend, TakeTurn,
        ReadCounter, WriteLine, WriteFails, Yield, Exit, Procs
  <2> QED BY <2>1 DEF vars, PrintInv, PrintsWholeFile, GaveUp
<1> QED BY <1>1, <1>2, <1>3

\* The file A prints after waitpid (lines 104-111 of main.c) holds every line
\* of both processes, unless B died on an append it could not make; a failing
\* fopen of read_last_counter renumbers lines but drops none.
THEOREM WholeFilePrinted == Spec => []PrintsWholeFile
  BY Invariance, PrintInit, PrintStep, PTL DEF Spec, PrintInv
=============================================================================
