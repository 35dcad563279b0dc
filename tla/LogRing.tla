------------------------------ MODULE LogRing -------------------------------
(***************************************************************************)
(* The other buffer of util/nanolog.hpp, the one of NonGuaranteedLogger:     *)
(* RingBuffer, with NanoLogger's thread that empties it.  A slot is only      *)
(* touched under its own spin lock, so each critical section is one step;     *)
(* reserving an index and writing its slot are two.                           *)
(***************************************************************************)
EXTENDS Integers, Sequences, FiniteSets

CONSTANTS
  Producers,   \* the threads that log
  Lines,       \* bound: lines each of them logs
  Size,        \* m_size
  IndexMod     \* 2^32: the indexes are unsigned ints

ASSUME LogRingAssumption ==
  /\ IsFiniteSet(Producers)
  /\ Lines \in Nat /\ Size \in Nat \ {0} /\ IndexMod \in Nat \ {0}

NoLine == <<>>
LogLines == Producers \X (1 .. Lines)
Slots == 0 .. Size - 1

VARIABLES
  windex,   \* m_write_index
  ring,     \* m_ring: the line of each slot that is written and not popped
  rindex,   \* m_read_index
  pc, seq,  \* where each producer is in push, and lines it has begun to push
  place,    \* the slot it has reserved
  state,    \* NanoLogger::m_state
  rpc,      \* where the popping thread is
  file,     \* the lines written to the file
  dropped,  \* lines that were overwritten in their slot
  lapped    \* history: an index was reserved Size or more ahead of m_read_index

producerVars == <<pc, seq, place>>
vars == <<windex, ring, rindex, producerVars, state, rpc, file, dropped, lapped>>

Init ==
  /\ windex = 0 /\ ring = [i \in Slots |-> NoLine] /\ rindex = 0
  /\ pc = [p \in Producers |-> "idle"] /\ seq = [p \in Producers |-> 0]
  /\ place = [p \in Producers |-> 0]
  /\ state = "READY" /\ rpc = "loop" /\ file = <<>> /\ dropped = {} /\ lapped = FALSE

-----------------------------------------------------------------------------
\* A bug: the slot after the index is taken, as by a pre-increment.
ReserveNextSlot(p) ==
  /\ pc[p] = "idle" /\ state = "READY" /\ seq[p] < Lines
  /\ pc' = [pc EXCEPT ![p] = "write"]
  /\ seq' = [seq EXCEPT ![p] = @ + 1]
  /\ place' = [place EXCEPT ![p] = (windex + 1) % Size]
  /\ windex' = (windex + 1) % IndexMod
  /\ lapped' = (lapped \/ (windex - rindex) % IndexMod >= Size)
  /\ UNCHANGED <<ring, rindex, state, rpc, file, dropped>>

\* Logger::operator== and the fetch_add of RingBuffer::push.
Reserve(p) ==
  /\ pc[p] = "idle" /\ state = "READY" /\ seq[p] < Lines
  /\ pc' = [pc EXCEPT ![p] = "write"]
  /\ seq' = [seq EXCEPT ![p] = @ + 1]
  /\ place' = [place EXCEPT ![p] = windex % Size]
  /\ windex' = (windex + 1) % IndexMod
  /\ lapped' = (lapped \/ (windex - rindex) % IndexMod >= Size)
  /\ UNCHANGED <<ring, rindex, state, rpc, file, dropped>>

\* The rest of push, under the slot's lock.
Write(p) ==
  /\ pc[p] = "write"
  /\ pc' = [pc EXCEPT ![p] = "idle"]
  /\ ring' = [ring EXCEPT ![place[p]] = <<p, seq[p]>>]
  /\ dropped' = dropped \cup ({ring[place[p]]} \ {NoLine})
  /\ UNCHANGED <<windex, rindex, seq, place, state, rpc, file, lapped>>

ReadSlot == rindex % Size

\* A bug: the read index is not advanced.
PopStays ==
  /\ rpc # "done" /\ ring[ReadSlot] # NoLine
  /\ file' = Append(file, ring[ReadSlot])
  /\ ring' = [ring EXCEPT ![ReadSlot] = NoLine]
  /\ UNCHANGED <<windex, rindex, producerVars, state, rpc, dropped, lapped>>

\* A bug: the slot is not marked as read.
PopKeepsSlot ==
  /\ rpc # "done" /\ ring[ReadSlot] # NoLine
  /\ file' = Append(file, ring[ReadSlot])
  /\ rindex' = (rindex + 1) % IndexMod
  /\ UNCHANGED <<windex, ring, producerVars, state, rpc, dropped, lapped>>

\* NanoLogger::pop with a line: it goes to the file.
Pop ==
  /\ rpc # "done" /\ ring[ReadSlot] # NoLine
  /\ file' = Append(file, ring[ReadSlot])
  /\ ring' = [ring EXCEPT ![ReadSlot] = NoLine]
  /\ rindex' = (rindex + 1) % IndexMod
  /\ UNCHANGED <<windex, producerVars, state, rpc, dropped, lapped>>

\* NanoLogger::pop leaves its loop,
SeeShutdown ==
  /\ rpc = "loop" /\ state = "SHUTDOWN"
  /\ rpc' = "drain"
  /\ UNCHANGED <<windex, ring, rindex, producerVars, state, file, dropped, lapped>>

\* and ends at the first try_pop that fails.
EndDrain ==
  /\ rpc = "drain" /\ ring[ReadSlot] = NoLine
  /\ rpc' = "done"
  /\ UNCHANGED <<windex, ring, rindex, producerVars, state, file, dropped, lapped>>

\* ~NanoLogger, at exit: the threads that log have been joined by then.
Shutdown ==
  /\ state = "READY"
  /\ \A p \in Producers : pc[p] = "idle" /\ seq[p] = Lines
  /\ state' = "SHUTDOWN"
  /\ UNCHANGED <<windex, ring, rindex, producerVars, rpc, file, dropped, lapped>>

Finished == rpc = "done" /\ UNCHANGED vars

Popper == Pop \/ SeeShutdown \/ EndDrain

Next ==
  \/ \E p \in Producers : Reserve(p) \/ Write(p)
  \/ Popper
  \/ Shutdown
  \/ Finished

SafeSpec == Init /\ [][Next]_vars

(* Every thread that is in push, and the popping thread, is scheduled again      *)
(* and again; the logger is destroyed at exit.                                    *)
Fairness == WF_vars(Popper) /\ WF_vars(Shutdown) /\ \A p \in Producers : WF_vars(Write(p))

Spec == SafeSpec /\ Fairness

-----------------------------------------------------------------------------
\* Lines of p that were written to their slots.
Put(p) == IF pc[p] = "write" THEN seq[p] - 1 ELSE seq[p]

Written == {l \in LogLines : l[2] <= Put(l[1])}
InRing == {ring[i] : i \in Slots} \ {NoLine}
Entries(l) == {i \in 1 .. Len(file) : file[i] = l}

Service == INSTANCE LineLog WITH
  Threads <- Producers, Lossy <- TRUE,
  taken <- [p \in Producers |-> Put(p)], pending <- InRing, lost <- dropped,
  closed <- rpc = "done"

(* However far the producers get ahead, and wherever the indexes wrap, the ring is a  *)
(* log with losses: a line is written once, or lost to one later line that takes its   *)
(* slot, and never both; and as long as no line was lost that way, the final drain of   *)
(* NanoLogger::pop, which ends at the first empty slot, leaves no line in the ring.     *)
(* (After a loss it may, although pop says that it logs all remaining entries:           *)
(* m_read_index is behind by the lines that were lost and may stand at an empty slot.)   *)
ImplementsLog == Service!SafeSpec

(* If Size divides IndexMod, as it does for rings whose size in MB is a power of two,  *)
(* and as long as the producers stay less than one round ahead of the popping thread   *)
(* the ring is a queue: nothing is overwritten, the file has the lines of each      *)
(* thread in the order in which it logged them, and at the end it has them all.     *)
QueueUntilLapped ==
  ~lapped =>
    /\ dropped = {}
    /\ \A i, j \in 1 .. Len(file) :
         i < j /\ file[i][1] = file[j][1] => file[i][2] < file[j][2]
    /\ rpc = "done" => \A l \in LogLines : Entries(l) # {}

(* A line reaches the file, unless the producers got a round ahead.                 *)
LineLogged == \A l \in LogLines : l \in Written ~> (Entries(l) # {} \/ lapped)
=============================================================================
