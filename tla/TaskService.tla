---------------------------- MODULE TaskService ----------------------------
(***************************************************************************)
(* What ThreadPool promises its callers, without threads, locks or         *)
(* condition variables: every worker owns a FIFO line of tasks, a task is   *)
(* taken into at most one line, starts in the order it was taken, runs to   *)
(* its end exactly once, and a halted line starts nothing any more.         *)
(***************************************************************************)
EXTENDS Naturals, Sequences

CONSTANTS
  Workers,    \* the lines, one per worker thread
  Tasks,      \* the tasks callers may hand over
  NoTask,     \* "nothing is running"
  QueueSize   \* the longest line

VARIABLES
  pending,    \* the tasks taken and not yet started, per line
  current,    \* the task a worker is running, or NoTask
  finished,   \* the tasks a worker has run, in the order it ran them
  halted,     \* the lines that take and start no task any more
  taken       \* every task ever taken into some line

vars == <<pending, current, finished, halted, taken>>

Init ==
  /\ pending  = [w \in Workers |-> <<>>]
  /\ current  = [w \in Workers |-> NoTask]
  /\ finished = [w \in Workers |-> <<>>]
  /\ halted   = [w \in Workers |-> FALSE]
  /\ taken    = {}

Take(w, t) ==
  /\ ~halted[w]
  /\ t \notin taken
  /\ Len(pending[w]) < QueueSize
  /\ pending' = [pending EXCEPT ![w] = Append(@, t)]
  /\ taken' = taken \cup {t}
  /\ UNCHANGED <<current, finished, halted>>

Start(w) ==
  /\ ~halted[w]
  /\ current[w] = NoTask
  /\ pending[w] # <<>>
  /\ current' = [current EXCEPT ![w] = Head(pending[w])]
  /\ pending' = [pending EXCEPT ![w] = Tail(@)]
  /\ UNCHANGED <<finished, halted, taken>>

Finish(w) ==
  /\ current[w] # NoTask
  /\ finished' = [finished EXCEPT ![w] = Append(@, current[w])]
  /\ current' = [current EXCEPT ![w] = NoTask]
  /\ UNCHANGED <<pending, halted, taken>>

Halt(w) ==
  /\ ~halted[w]
  /\ halted' = [halted EXCEPT ![w] = TRUE]
  /\ UNCHANGED <<pending, current, finished, taken>>

Next ==
  \E w \in Workers :
    \/ \E t \in Tasks : Take(w, t)
    \/ Start(w)
    \/ Finish(w)
    \/ Halt(w)

SafeSpec == Init /\ [][Next]_vars

\* A line that is not halted keeps starting its tasks, and what was started ends.
Spec ==
  /\ SafeSpec
  /\ \A w \in Workers : WF_vars(Start(w)) /\ WF_vars(Finish(w))
=============================================================================
