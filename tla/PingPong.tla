------------------------------ MODULE PingPong ------------------------------
(***************************************************************************)
(* signal/bai2/main.c: the parent A and its child B take turns appending   *)
(* "PID=.. counter=.." lines to shared.txt and hand the turn over with     *)
(* SIGUSR1.  SIGUSR1 is blocked in both processes from before the fork and *)
(* is let in only inside sigsuspend, so a signal that comes early stays    *)
(* pending.  Standard signals do not queue: pending is one bit.            *)
(*                                                                         *)
(* The model starts after a successful fork; the loop's calls are separate *)
(* steps, so every interleaving of the two processes is explored.          *)
(***************************************************************************)
EXTENDS Naturals, Sequences, TurnConstants

Procs == {"A", "B"}
Partner(p) == IF p = "A" THEN "B" ELSE "A"

VARIABLES
  pc,        \* where each process is in run()/main()
  my_turn,   \* the flag the handler sets
  pending,   \* SIGUSR1 generated and not yet delivered
  i,         \* the loop variable of run()
  counter,   \* the local counter of the iteration
  file,      \* lines of shared.txt after the initial "0"
  printed    \* the file A printed at the end, << >> before

vars == <<pc, my_turn, pending, i, counter, file, printed>>

\* A line holds the PID, here the role of the process, and the counter.
Line(p, n) == [who |-> p, counter |-> n]

\* main() up to and including the fork.
Init ==
  /\ pc = [p \in Procs |-> "start"]
  /\ my_turn = [p \in Procs |-> FALSE]
  /\ pending = [p \in Procs |-> FALSE]
  /\ i = [p \in Procs |-> 0]
  /\ counter = [p \in Procs |-> 0]
  /\ file = << >>
  /\ printed = << >>

Goto(p, label) == pc' = [pc EXCEPT ![p] = label]

\* sigusr1_handler
Handler(p) == my_turn' = [my_turn EXCEPT ![p] = TRUE]

\* kill(q, SIGUSR1): lost when q is a zombie, otherwise pending until q
\* suspends; a second signal before that would be merged with the first.
Kill(q) ==
  pending' = [pending EXCEPT ![q] = @ \/ pc[q] # "exited"]

Start(p) ==
  /\ pc[p] = "start"
  /\ my_turn' = [my_turn EXCEPT ![p] = (p = "A")]
  /\ Goto(p, "turn")
  /\ UNCHANGED <<pending, i, counter, file, printed>>

\* while (!my_turn) sigsuspend(&waitmask): the test ...
CheckTurn(p) ==
  /\ pc[p] = "turn"
  /\ ~my_turn[p]
  /\ Goto(p, "suspend")
  /\ UNCHANGED <<my_turn, pending, i, counter, file, printed>>

\* ... and the call, which returns once the pending signal was handled.
Suspend(p) ==
  /\ pc[p] = "suspend"
  /\ pending[p]
  /\ pending' = [pending EXCEPT ![p] = FALSE]
  /\ Handler(p)
  /\ Goto(p, "turn")
  /\ UNCHANGED <<i, counter, file, printed>>

\* Faulty variant: the flag is left set.
TakeTurnKeepsFlag(p) ==
  /\ pc[p] = "turn"
  /\ my_turn[p]
  /\ Goto(p, "read")
  /\ UNCHANGED <<my_turn, pending, i, counter, file, printed>>

TakeTurn(p) ==
  /\ pc[p] = "turn"
  /\ my_turn[p]
  /\ my_turn' = [my_turn EXCEPT ![p] = FALSE]
  /\ Goto(p, "read")
  /\ UNCHANGED <<pending, i, counter, file, printed>>

\* The values read_last_counter() can return: the last line's counter, 0
\* for the initial line alone, and 0 when fopen fails.
LastCounters ==
  {IF file = << >> THEN 0 ELSE file[Len(file)].counter}
    \cup (IF "r" \in FailingOpens THEN {0} ELSE {})

ReadCounter(p) ==
  /\ pc[p] = "read"
  /\ \E n \in LastCounters : counter' = [counter EXCEPT ![p] = n + 1]
  /\ Goto(p, "write")
  /\ UNCHANGED <<my_turn, pending, i, file, printed>>

\* Faulty variant: the file is opened with "w", which truncates it.
WriteLineTruncates(p) ==
  /\ pc[p] = "write"
  /\ file' = << Line(p, counter[p]) >>
  /\ Goto(p, "kill")
  /\ UNCHANGED <<my_turn, pending, i, counter, printed>>

WriteLine(p) ==
  /\ pc[p] = "write"
  /\ file' = Append(file, Line(p, counter[p]))
  /\ Goto(p, "kill")
  /\ UNCHANGED <<my_turn, pending, i, counter, printed>>

\* fopen fails: exit(1), without telling the partner.
WriteFails(p) ==
  /\ pc[p] = "write"
  /\ "a" \in FailingOpens
  /\ Goto(p, "exited")
  /\ UNCHANGED <<my_turn, pending, i, counter, file, printed>>

\* Faulty variant: SIGUSR1 is not blocked, so a signal that comes between the
\* test of my_turn and the suspension is handled too early to wake it.
YieldUnblocked(p) ==
  /\ pc[p] = "kill"
  /\ Handler(Partner(p))
  /\ i' = [i EXCEPT ![p] = @ + 1]
  /\ Goto(p, IF i[p] + 1 < ITERATIONS THEN "turn" ELSE "leave")
  /\ UNCHANGED <<pending, counter, file, printed>>

\* The end of an iteration: the next one, or out of the loop.
Yield(p) ==
  /\ pc[p] = "kill"
  /\ Kill(Partner(p))
  /\ i' = [i EXCEPT ![p] = @ + 1]
  /\ Goto(p, IF i[p] + 1 < ITERATIONS THEN "turn" ELSE "leave")
  /\ UNCHANGED <<my_turn, counter, file, printed>>

\* B returns from run() and exits.
Exit ==
  /\ pc["B"] = "leave"
  /\ Goto("B", "exited")
  /\ UNCHANGED <<my_turn, pending, i, counter, file, printed>>

\* Faulty variant: A prints the file without waiting for B.
WaitAndPrintEarly ==
  /\ pc["A"] = "leave"
  /\ printed' = file
  /\ Goto("A", "exited")
  /\ UNCHANGED <<my_turn, pending, i, counter, file>>

\* A's waitpid returns when B has exited (the pending SIGUSR1 is blocked and
\* interrupts nothing), then A prints the file.  With fopen failing, the NULL
\* stream crashes fgets and A ends with nothing printed.
WaitAndPrint ==
  /\ pc["A"] = "leave"
  /\ pc["B"] = "exited"
  /\ printed' \in {file} \cup (IF "r" \in FailingOpens THEN {<< >>} ELSE {})
  /\ Goto("A", "exited")
  /\ UNCHANGED <<my_turn, pending, i, counter, file>>

Step(p) ==
  \/ Start(p) \/ CheckTurn(p) \/ Suspend(p) \/ TakeTurn(p)
  \/ ReadCounter(p) \/ WriteLine(p) \/ WriteFails(p) \/ Yield(p)

Next == (\E p \in Procs : Step(p)) \/ Exit \/ WaitAndPrint

\* Both processes keep being scheduled; a blocked sigsuspend or waitpid is
\* disabled until its event has happened and then stays enabled.
Fairness == /\ \A p \in Procs : WF_vars(Step(p))
            /\ WF_vars(Exit) /\ WF_vars(WaitAndPrint)

Spec == Init /\ [][Next]_vars /\ Fairness

-----------------------------------------------------------------------------

TypeOK ==
  /\ pc \in [Procs -> {"start", "turn", "suspend", "read", "write", "kill",
                       "leave", "exited"}]
  /\ my_turn \in [Procs -> BOOLEAN]
  /\ pending \in [Procs -> BOOLEAN]
  /\ i \in [Procs -> 0..ITERATIONS]
  /\ counter \in [Procs -> Nat]
  /\ file \in Seq([who : Procs, counter : Nat])
  /\ printed \in Seq([who : Procs, counter : Nat])

\* p uses the file: between taking the turn and giving it away.
Working(p) == pc[p] \in {"read", "write", "kill"}

\* The forms in which p can hold the one turn there is.
Holds(p) == \/ p = "A" /\ pc[p] = "start"
            \/ my_turn[p]
            \/ pending[p]
            \/ Working(p)

\* The turn is never in two hands: while one process works on shared.txt the
\* other neither works nor has a flag or a pending signal that would let it
\* start, and no process holds the turn twice (a pending signal on top of a
\* flag would be a turn the handler merges away).
OneTurn ==
  /\ \A p \in Procs : ~(Holds(p) /\ Holds(Partner(p)))
  /\ \A p \in Procs : my_turn[p] => ~pending[p] /\ ~Working(p)
  /\ \A p \in Procs : Working(p) => ~pending[p]

\* shared.txt is the sequence 1, 2, 3, ... with A and B alternating, whatever
\* the interleaving: no line is lost, doubled or numbered from a stale read.
CounterSequence ==
  \A n \in 1..Len(file) :
    file[n] = Line(IF n % 2 = 1 THEN "A" ELSE "B", n)

\* p ended early, because it could not append its line.
GaveUp(p) == pc[p] = "exited" /\ i[p] < ITERATIONS

\* What A prints at the end holds all the lines of both processes, unless B
\* could not write its last one.
PrintsWholeFile ==
  printed # << >> => Len(printed) = 2 * ITERATIONS \/ GaveUp("B")

\* Neither process is left waiting for a turn that never comes, unless the
\* other one gave up.
Terminates ==
  <>((\A p \in Procs : pc[p] = "exited") \/ (\E p \in Procs : GaveUp(p)))

\* The file grows as the abstract turn-taking log prescribes: the writer of
\* each line and its number are those of the turn, also when one process
\* gives up and leaves the other waiting.
Log == INSTANCE TurnLog WITH lines <- file
AppendsInTurn == Log!Spec

-----------------------------------------------------------------------------
\* The inductive invariant: the turn count of each process follows from its
\* place in the loop, the two counts differ by who holds the turn, and their
\* sum is the length of the file.

LoopBounds ==
  \A p \in Procs :
    /\ pc[p] = "start" => i[p] = 0 /\ ~my_turn[p] /\ (p = "A" => ~pending[p])
    /\ pc[p] \in {"turn", "suspend", "read", "write", "kill"} => i[p] < ITERATIONS
    /\ pc[p] = "leave" => i[p] = ITERATIONS

HolderIsNext ==
  /\ Holds("A") => i["A"] = i["B"]
  /\ Holds("B") => i["A"] = i["B"] + 1

Written(p) == IF pc[p] = "kill" THEN i[p] + 1 ELSE i[p]

FileCounts == Len(file) = Written("A") + Written("B")

FreshCounter ==
  "r" \notin FailingOpens =>
    \A p \in Procs : pc[p] = "write" => counter[p] = Len(file) + 1

Inv == TypeOK /\ OneTurn /\ LoopBounds /\ HolderIsNext /\ FileCounts

CountingInv == Inv /\ FreshCounter /\ CounterSequence
=============================================================================
