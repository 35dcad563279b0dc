------------------------------ MODULE LineLog -------------------------------
(***************************************************************************)
(* What the two loggers promise, without buffers, slots and indexes: every   *)
(* thread's lines are taken in its order, and a line that was taken is        *)
(* written to the file once.  The logger that is not Lossy writes each        *)
(* thread's lines in the order in which they were taken, and is closed only   *)
(* when all of them are written.  By the one that is Lossy a line may be lost *)
(* when a later one takes its place, and once that has happened, but not      *)
(* before, it may be closed with lines that are never written.                *)
(***************************************************************************)
EXTENDS Naturals, Sequences

CONSTANTS
  Threads,   \* the threads that log
  Lines,     \* lines each of them logs
  Lossy      \* a line may take the place of another

VARIABLES
  taken,     \* lines of each thread that were taken
  pending,   \* lines taken and neither written nor lost
  lost,      \* lines whose place was taken
  file,      \* lines written, in the order of the file
  closed     \* the logger is destroyed

vars == <<taken, pending, lost, file, closed>>

Init ==
  /\ taken = [t \in Threads |-> 0] /\ pending = {} /\ lost = {}
  /\ file = <<>> /\ closed = FALSE

\* The next line of thread t; it may take the place of those in D, of one at most.
Take(t, D) ==
  /\ ~closed /\ taken[t] < Lines
  /\ D # {} => Lossy
  /\ \A l, k \in D : l = k
  /\ taken' = [taken EXCEPT ![t] = @ + 1]
  /\ pending' = (pending \ D) \cup {<<t, taken[t] + 1>>}
  /\ lost' = lost \cup D
  /\ UNCHANGED <<file, closed>>

Write(l) ==
  /\ ~closed
  /\ Lossy \/ \A k \in pending : k[1] = l[1] => k[2] >= l[2]
  /\ file' = Append(file, l)
  /\ pending' = pending \ {l}
  /\ UNCHANGED <<taken, lost, closed>>

Close ==
  /\ ~closed
  /\ \A t \in Threads : taken[t] = Lines
  /\ pending # {} => Lossy /\ lost # {}
  /\ closed' = TRUE
  /\ UNCHANGED <<taken, pending, lost, file>>

Next ==
  \/ \E t \in Threads : \E D \in SUBSET pending : Take(t, D)
  \/ \E l \in pending : Write(l)
  \/ Close

SafeSpec == Init /\ [][Next]_vars
=============================================================================
