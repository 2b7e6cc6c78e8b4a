----------------------------- MODULE Partition -----------------------------
(***************************************************************************)
(* The loops that semaphore/bt1/count_odd.c and semaphore/bt3/matmul.c     *)
(* divide among threads: thread t gets LIMIT / NUM_THREADS numbers (N /    *)
(* NUM_THREADS rows), the last one the remainder as well.  main joins the  *)
(* threads and adds their counts, or copies the product back row by row    *)
(* and starts the next multiplication.                                     *)
(*                                                                         *)
(* A row is represented by the number of matrices multiplied into it; the  *)
(* entries, which outgrow an int at the third multiplication, are not.     *)
(***************************************************************************)
EXTENDS Integers, FiniteSets

CONSTANTS
  Sizes,             \* the values of LIMIT or N that are tried
  NUM_THREADS,
  MULTIPLICATIONS    \* NUM_MATRICES - 1

VARIABLES
  job,       \* "count" or "product"
  size,      \* LIMIT or N
  created,   \* threads created in this multiplication
  joined,    \* threads joined
  cursor,    \* the loop variable i of each thread
  count,     \* cnt, and a->count, of each thread
  total,     \* the sum in main
  copied,    \* rows copied back from temp
  rounds,    \* multiplications done
  temp,      \* the matrices' rows
  result

partVars == <<job, size, created, joined, cursor, count, total, copied, rounds, temp, result>>

Workers == 0..(NUM_THREADS - 1)
Rows == 0..(size - 1)

Init ==
  /\ job \in {"count", "product"}
  /\ size \in Sizes
  /\ created = 0 /\ joined = 0
  /\ cursor = [t \in Workers |-> 0]
  /\ count = [t \in Workers |-> 0]
  /\ total = 0 /\ copied = 0 /\ rounds = 0
  /\ temp = [r \in Rows |-> 0]
  /\ result = [r \in Rows |-> 0]

Chunk == size \div NUM_THREADS

\* args[t].start and args[t].row_start.  Counting starts at the next odd number.
First(t) ==
  LET start == t * Chunk + 1
  IN  IF job = "product" THEN t * Chunk
                         ELSE IF start % 2 = 0 THEN start + 1 ELSE start

\* Faulty variant: the last thread gets no remainder.
EndEqual(t) == (t + 1) * Chunk

\* args[t].end, which is counted, and args[t].row_end, which is not.
End(t) == IF t = NUM_THREADS - 1 THEN size ELSE (t + 1) * Chunk

InRange(t) == IF job = "product" THEN cursor[t] < End(t) ELSE cursor[t] <= End(t)

Create ==
  /\ created < NUM_THREADS
  /\ created' = created + 1
  /\ cursor' = [cursor EXCEPT ![created] = First(created)]
  /\ count' = [count EXCEPT ![created] = 0]
  /\ UNCHANGED <<job, size, joined, total, copied, rounds, temp, result>>

\* One turn of the loop of count_odd_thread.
CountNext(t) ==
  /\ job = "count" /\ t < created
  /\ InRange(t)
  /\ count' = [count EXCEPT ![t] = @ + 1]
  /\ cursor' = [cursor EXCEPT ![t] = @ + 2]
  /\ UNCHANGED <<job, size, created, joined, total, copied, rounds, temp, result>>

\* One row of mul_rows: row i of C is row i of A times B.
MulRow(t) ==
  /\ job = "product" /\ t < created
  /\ InRange(t)
  /\ temp' = [temp EXCEPT ![cursor[t]] = result[cursor[t]] + 1]
  /\ cursor' = [cursor EXCEPT ![t] = @ + 1]
  /\ UNCHANGED <<job, size, created, joined, count, total, copied, rounds, result>>

Join ==
  /\ created = NUM_THREADS
  /\ joined < NUM_THREADS
  /\ ~InRange(joined)
  /\ joined' = joined + 1
  /\ total' = total + count[joined]
  /\ UNCHANGED <<job, size, created, cursor, count, copied, rounds, temp, result>>

CopyRow ==
  /\ job = "product" /\ joined = NUM_THREADS
  /\ copied < size
  /\ result' = [result EXCEPT ![copied] = temp[copied]]
  /\ copied' = copied + 1
  /\ UNCHANGED <<job, size, created, joined, cursor, count, total, rounds, temp>>

NextMatrix ==
  /\ job = "product" /\ joined = NUM_THREADS /\ copied = size
  /\ rounds < MULTIPLICATIONS
  /\ rounds' = rounds + 1
  /\ IF rounds + 1 < MULTIPLICATIONS
       THEN created' = 0 /\ joined' = 0 /\ copied' = 0
       ELSE UNCHANGED <<created, joined, copied>>
  /\ UNCHANGED <<job, size, cursor, count, total, temp, result>>

Next == \/ Create \/ Join \/ CopyRow \/ NextMatrix
        \/ \E t \in Workers : CountNext(t) \/ MulRow(t)

-----------------------------------------------------------------------------
TypeOK ==
  /\ joined \in 0..created /\ created \in 0..NUM_THREADS
  /\ copied \in 0..size /\ rounds \in 0..MULTIPLICATIONS
  /\ \A t \in Workers : cursor[t] \in 0..(size + 2) /\ count[t] \in 0..size
  /\ \A r \in Rows : temp[r] \in 0..MULTIPLICATIONS /\ result[r] \in 0..MULTIPLICATIONS

\* The divided loop gives what the plain loop gives: the threads count every
\* odd number once (count_odd_single), and after a multiplication no row is
\* left out, is a product too many, or is copied before it is ready.
ProductIsWhole ==
  LET Odd == {n \in 1..size : n % 2 = 1}
      Done == IF rounds < MULTIPLICATIONS THEN rounds + 1 ELSE rounds
  IN  joined = NUM_THREADS =>
        IF job = "count" THEN total = Cardinality(Odd)
        ELSE \A r \in Rows : /\ temp[r] = Done
                             /\ result[r] = IF r < copied THEN Done ELSE Done - 1
=============================================================================
