------------------------------ MODULE Acceptor ------------------------------
(***************************************************************************)
(* How the server gets its connections: Server::start, async_accept,         *)
(* handle_accept and release (net/server.cpp), IocPool::get_iocontext         *)
(* (net/iocpool.cpp), set_conn_info and close of Connection.                    *)
(*                                                                            *)
(* start() runs on the main thread and starts the acceptor thread before it   *)
(* arms the acceptors, so that both may be in async_accept's loop at once.    *)
(* Each I/O thread runs its handlers one after the other, in the order they   *)
(* were posted.  Only the last read of a connection matters here, the one     *)
(* that fails; what is read before is in Receiver.                            *)
(***************************************************************************)
EXTENDS Integers, Sequences, FiniteSets

CONSTANTS
  NumPorts,   \* m_ports.size()
  NumIocs,    \* m_conn_worker_num
  Peers,      \* the connections peers make, each of them once
  Fds,        \* the descriptors the process may have for them
  NoPeer

Ports == 1 .. NumPorts
Iocs == 0 .. NumIocs - 1

ASSUME AcceptorAssumption ==
  /\ NumPorts \in Nat \ {0} /\ NumIocs \in Nat \ {0}
  /\ IsFiniteSet(Peers) /\ NoPeer \notin Peers
  /\ IsFiniteSet(Fds) /\ Fds \subseteq Nat

Threads == {"main", "acceptor"}

VARIABLES
  pos,      \* m_ioc_pos
  at,       \* where each thread is in async_accept's loop or in the accept handler
  port,     \* the acceptor its loop is at
  seen,     \* the index it took from m_ioc_pos, and then the I/O context it got
  armed,    \* per port, the I/O contexts of the sockets that wait to be accepted into
  handled,  \* the peer whose accept handler runs
  peer,     \* where each peer is
  on,       \* its port
  gone,     \* peers that have reset the connection
  ioc,      \* m_ioc of the peer's Connection
  fd,       \* its descriptor, m_uuid
  posted,   \* per I/O thread, the handlers that wait to run
  closing,  \* per I/O thread, the peer whose socket close() has just closed
  table,    \* m_conn_manager
  status,   \* running, terminated by an exception, or undefined
  elsewhere, \* history: per port, connections accepted at the other ports
  failures, \* history: per port, accepts that failed
  overlap   \* history: a connection was accepted while start() armed the acceptors

loopVars == <<pos, at, port, seen>>
connVars == <<peer, on, gone, ioc, fd>>
ioVars == <<posted, closing, table>>
histVars == <<elsewhere, failures, overlap>>
vars == <<loopVars, armed, handled, connVars, ioVars, status, histVars>>

Open(p) == peer[p] \in {"accepted", "set", "reading", "ended"}
FreeFds == Fds \ {fd[p] : p \in {q \in Peers : Open(q)}}
LowestFree(f) == \A g \in FreeFds : f <= g

\* A bug: one table for all threads, as thread_local is left out.
TableShared(i) == 0

\* m_conn_manager is thread_local: each I/O thread has its own.
Table(i) == i

Init ==
  /\ pos = 0 /\ seen = [t \in Threads |-> 0]
  /\ at = [t \in Threads |-> IF t = "main" THEN "index" ELSE "idle"]
  /\ port = [t \in Threads |-> 1]
  /\ armed = [a \in Ports |-> <<>>] /\ handled = NoPeer
  /\ peer = [p \in Peers |-> "away"] /\ on \in [Peers -> Ports] /\ gone = {}
  /\ ioc = [p \in Peers |-> 0] /\ fd = [p \in Peers |-> 0]
  /\ posted = [i \in Iocs |-> <<>>] /\ closing = [i \in Iocs |-> NoPeer]
  /\ table = [i \in Iocs |-> [f \in Fds |-> NoPeer]]
  /\ status = "running"
  /\ elsewhere = [a \in Ports |-> 0] /\ failures = [a \in Ports |-> 0] /\ overlap = FALSE

Goto(t, place) == at' = [at EXCEPT ![t] = place]

-----------------------------------------------------------------------------
(* async_accept, by the main thread or in an accept handler.  m_ioc_pos is atomic, and *)
(* get_iocontext reads, increments, compares and resets it without a lock: four        *)
(* accesses, each of them one step.                                                     *)

\* m_iocs[m_ioc_pos]: past the end the behaviour is undefined.
Index(t) ==
  /\ at[t] = "index"
  /\ overlap' = (overlap \/ \A u \in Threads : at[u] # "idle")
  /\ IF pos \in Iocs
       THEN /\ seen' = [seen EXCEPT ![t] = pos]
            /\ Goto(t, "bump") /\ UNCHANGED status
       ELSE status' = "undefined" /\ UNCHANGED <<seen, at>>
  /\ UNCHANGED <<pos, port, armed, handled, connVars, ioVars, elsewhere, failures>>

\* ++m_ioc_pos
Bump(t) ==
  /\ at[t] = "bump"
  /\ pos' = pos + 1
  /\ Goto(t, "compare")
  /\ UNCHANGED <<port, seen, armed, handled, connVars, ioVars, status, histVars>>

\* A bug: > instead of >=.
PastEndLate(v) == v > NumIocs

PastEnd(v) == v >= NumIocs

Compare(t) ==
  /\ at[t] = "compare"
  /\ Goto(t, IF PastEnd(pos) THEN "wrap" ELSE "arm")
  /\ UNCHANGED <<pos, port, seen, armed, handled, connVars, ioVars, status, histVars>>

\* m_ioc_pos = 0, whatever it has become since it was compared.
Wrap(t) ==
  /\ at[t] = "wrap"
  /\ pos' = 0
  /\ Goto(t, "arm")
  /\ UNCHANGED <<port, seen, armed, handled, connVars, ioVars, status, histVars>>

\* A bug: the loop leaves out the last acceptor.
LastPortShort(t) == port[t] >= NumPorts - 1

LastPort(t) == port[t] = NumPorts

\* acceptor->async_accept, and on to the next acceptor.
Arm(t) ==
  /\ at[t] = "arm"
  /\ armed' = [armed EXCEPT ![port[t]] = Append(@, seen[t])]
  /\ IF LastPort(t)
       THEN /\ port' = [port EXCEPT ![t] = 1]
            /\ Goto(t, IF t = "main" THEN "idle" ELSE "handle")
       ELSE port' = [port EXCEPT ![t] = @ + 1] /\ Goto(t, "index")
  /\ UNCHANGED <<pos, seen, handled, connVars, ioVars, status, histVars>>

-----------------------------------------------------------------------------
\* The oldest accept of the port gets the peer, and its handler runs on the acceptor thread.
Accept(p) ==
  /\ at["acceptor"] = "idle" /\ peer[p] = "backlog" /\ armed[on[p]] # <<>>
  /\ armed' = [armed EXCEPT ![on[p]] = Tail(@)]
  /\ ioc' = [ioc EXCEPT ![p] = Head(armed[on[p]])]
  /\ \E f \in FreeFds : LowestFree(f) /\ fd' = [fd EXCEPT ![p] = f]
  /\ peer' = [peer EXCEPT ![p] = "accepted"]
  /\ handled' = p /\ Goto("acceptor", "index")
  /\ elsewhere' = [a \in Ports |-> elsewhere[a] + IF a = on[p] THEN 0 ELSE 1]
  /\ UNCHANGED <<pos, port, seen, on, gone, ioVars, status, failures, overlap>>

\* An accept fails, for want of descriptors or memory: its handler only logs that.
AcceptFails(p) ==
  /\ at["acceptor"] = "idle" /\ peer[p] = "backlog" /\ armed[on[p]] # <<>>
  /\ armed' = [armed EXCEPT ![on[p]] = Tail(@)]
  /\ failures' = [failures EXCEPT ![on[p]] = @ + 1]
  /\ UNCHANGED <<loopVars, handled, connVars, ioVars, status, elsewhere, overlap>>

(* handle_accept: set_conn_info asks for the peer's address, which throws if the peer  *)
(* is gone, and nothing catches it; then the insertion is posted to the connection's   *)
(* I/O thread.                                                                          *)
HandleAccept ==
  /\ at["acceptor"] = "handle"
  /\ \/ /\ peer' = [peer EXCEPT ![handled] = "set"]
        /\ posted' = [posted EXCEPT ![ioc[handled]] = Append(@, <<"insert", handled>>)]
        /\ Goto("acceptor", "read") /\ UNCHANGED status
     \/ /\ handled \in gone
        /\ status' = "terminated" /\ UNCHANGED <<peer, posted, at>>
  /\ UNCHANGED <<pos, port, seen, armed, handled, on, gone, ioc, fd, closing, table, histVars>>

\* async_read, still on the acceptor thread: from here on the read may complete.
StartRead ==
  /\ at["acceptor"] = "read"
  /\ peer' = [peer EXCEPT ![handled] = "reading"]
  /\ handled' = NoPeer /\ Goto("acceptor", "idle")
  /\ UNCHANGED <<pos, port, seen, armed, on, gone, ioc, fd, ioVars, status, histVars>>

\* The accept handler and async_accept's loop.
Run(t) ==
  \/ Index(t) \/ Bump(t) \/ Compare(t) \/ Wrap(t) \/ Arm(t)
  \/ t = "acceptor" /\ (HandleAccept \/ StartRead)

-----------------------------------------------------------------------------
\* The read fails, or what it reads is not a frame: handle_read will call close().
ReadEnds(p) ==
  /\ peer[p] = "reading"
  /\ peer' = [peer EXCEPT ![p] = "ended"]
  /\ posted' = [posted EXCEPT ![ioc[p]] = Append(@, <<"end", p>>)]
  /\ UNCHANGED <<loopVars, armed, handled, on, gone, ioc, fd, closing, table, status, histVars>>

Insert(i) ==
  /\ closing[i] = NoPeer /\ posted[i] # <<>> /\ Head(posted[i])[1] = "insert"
  /\ LET p == Head(posted[i])[2] IN table' = [table EXCEPT ![Table(i)][fd[p]] = p]
  /\ posted' = [posted EXCEPT ![i] = Tail(@)]
  /\ UNCHANGED <<loopVars, armed, handled, connVars, closing, status, histVars>>

\* close() closes the socket; from now on its descriptor may be used again ...
CloseSocket(i) ==
  /\ closing[i] = NoPeer /\ posted[i] # <<>> /\ Head(posted[i])[1] = "end"
  /\ LET p == Head(posted[i])[2]
     IN  closing' = [closing EXCEPT ![i] = p] /\ peer' = [peer EXCEPT ![p] = "closed"]
  /\ posted' = [posted EXCEPT ![i] = Tail(@)]
  /\ UNCHANGED <<loopVars, armed, handled, on, gone, ioc, fd, table, status, histVars>>

\* ... and release() erases the entry of that descriptor from the thread's table.
Release(i) ==
  /\ closing[i] # NoPeer
  /\ table' = [table EXCEPT ![Table(i)][fd[closing[i]]] = NoPeer]
  /\ closing' = [closing EXCEPT ![i] = NoPeer]
  /\ UNCHANGED <<loopVars, armed, handled, connVars, posted, status, histVars>>

IoThread(i) == Insert(i) \/ CloseSocket(i) \/ Release(i)

-----------------------------------------------------------------------------
PeerConnects(p) ==
  /\ peer[p] = "away"
  /\ peer' = [peer EXCEPT ![p] = "backlog"]
  /\ UNCHANGED <<loopVars, armed, handled, on, gone, ioc, fd, ioVars, status, histVars>>

\* The peer resets the connection before handle_accept has asked for its address.
PeerResets(p) ==
  /\ peer[p] \in {"backlog", "accepted"} /\ p \notin gone
  /\ gone' = gone \cup {p}
  /\ UNCHANGED <<loopVars, armed, handled, peer, on, ioc, fd, ioVars, status, histVars>>

\* No peer is left, or the process has ended: main() itself never returns.
Finished ==
  /\ \/ status # "running"
     \/ /\ \A t \in Threads : at[t] = "idle"
        /\ \A p \in Peers : peer[p] = "closed" \/ (peer[p] = "backlog" /\ armed[on[p]] = <<>>)
        /\ \A i \in Iocs : closing[i] = NoPeer
  /\ UNCHANGED vars

Next ==
  \/ /\ status = "running"
     /\ \/ \E t \in Threads : Run(t)
        \/ \E i \in Iocs : IoThread(i)
        \/ \E p \in Peers : \/ PeerConnects(p) \/ PeerResets(p)
                            \/ Accept(p) \/ AcceptFails(p) \/ ReadEnds(p)
  \/ Finished

SafeSpec == Init /\ [][Next]_vars

(* Every thread is scheduled, and the kernel completes an accept when there are a peer  *)
(* and a descriptor for it.  No accept has to fail and no peer to come or to leave.      *)
Fairness ==
  /\ \A t \in Threads : WF_vars(status = "running" /\ Run(t))
  /\ \A i \in Iocs : WF_vars(status = "running" /\ IoThread(i))
  /\ \A p \in Peers : SF_vars(status = "running" /\ Accept(p))

Spec == SafeSpec /\ Fairness

-----------------------------------------------------------------------------
Looping(t) == at[t] \in {"index", "bump", "compare", "wrap", "arm"}

TypeOK ==
  /\ pos \in Nat /\ seen \in [Threads -> Iocs] /\ port \in [Threads -> Ports]
  /\ at \in [Threads -> {"idle", "index", "bump", "compare", "wrap", "arm", "handle", "read"}]
  /\ armed \in [Ports -> Seq(Iocs)] /\ handled \in Peers \cup {NoPeer}
  /\ peer \in [Peers -> {"away", "backlog", "accepted", "set", "reading", "ended", "closed"}]
  /\ on \in [Peers -> Ports] /\ gone \subseteq Peers
  /\ ioc \in [Peers -> Iocs] /\ fd \in [Peers -> Fds \cup {0}]
  /\ posted \in [Iocs -> Seq({"insert", "end"} \X Peers)]
  /\ closing \in [Iocs -> Peers \cup {NoPeer}]
  /\ table \in [Iocs -> [Fds -> Peers \cup {NoPeer}]]
  /\ status \in {"running", "terminated", "undefined"}
  /\ elsewhere \in [Ports -> Nat] /\ failures \in [Ports -> Nat] /\ overlap \in BOOLEAN

\* p is read from, and the insertion of its connection has run.
Registered(p) ==
  /\ peer[p] \in {"set", "reading", "ended"}
  /\ \A k \in 1 .. Len(posted[ioc[p]]) : posted[ioc[p]][k] # <<"insert", p>>

(* Each I/O thread's table has exactly the open connections it serves, under their own   *)
(* descriptors, and besides at most the one its close() has not yet released: although a  *)
(* descriptor is given to the next connection as soon as the socket is closed, and before *)
(* release() erases the entry, no open connection is dropped and no closed one is kept.   *)
TableExact ==
  \A i \in Iocs, f \in Fds, p \in Peers :
    table[Table(i)][f] = p
      <=> /\ ioc[p] = i /\ fd[p] = f
          /\ Registered(p) \/ closing[i] = p

(* get_iocontext uses no index past the end, unless a connection is accepted while       *)
(* start() is still arming the acceptors: then main and acceptor thread share m_ioc_pos.  *)
IndexInRange == status = "undefined" => overlap

(* The accepts outstanding at a port are exactly the first one, less those that failed,  *)
(* and one more for every connection accepted at another port: with one port there is    *)
(* never more than one, with several each connection leaves some behind.                  *)
Due(t, a) == IF Looping(t) /\ port[t] <= a THEN 1 ELSE 0

ArmedExact ==
  \A a \in Ports :
    Len(armed[a]) + Due("main", a) + Due("acceptor", a) = 1 + elsewhere[a] - failures[a]

(* A peer that connects is accepted and gets into the table of its I/O thread, whoever   *)
(* else comes and goes, unless the process ends, or as many accepts of its port have      *)
(* failed as were armed there: a failed accept is not armed again.                        *)
PeerServed ==
  \A p \in Peers :
    peer[p] = "backlog" ~> \/ Registered(p)
                           \/ status # "running"
                           \/ failures[on[p]] > elsewhere[on[p]]
=============================================================================
