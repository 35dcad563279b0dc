------------------------------- MODULE Client -------------------------------
(***************************************************************************)
(* How the client keeps its connections: net/client.cpp with its reconnect   *)
(* timer, the keep-alive timers (net/repeattimer.h), close of Connection, and *)
(* the business threads that send audit requests (src/application.cpp).       *)
(*                                                                            *)
(* The connector thread starts connects; each I/O thread runs one handler      *)
(* after the other.  m_manager_mutex guards the table where                   *)
(* the code takes it, which release() does not; an access that overlaps        *)
(* another one undefines the behaviour.  What is written, and how, is in       *)
(* Sender; here a connection is of interest as long as its socket is open.     *)
(***************************************************************************)
EXTENDS Integers, Sequences, FiniteSets

CONSTANTS
  Servers,    \* m_peers
  PerConn,    \* m_per_conn_num
  NumIocs,    \* m_conn_worker_num
  Threads,    \* the business threads
  MaxConns,   \* bound: Connection objects that exist at a time
  MaxQueued   \* bound: writes of a connection queued at a time

Conns == 1 .. MaxConns
Fds == 1 .. MaxConns    \* no more are open at a time
Iocs == 0 .. NumIocs - 1
None == 0

ASSUME ClientAssumption ==
  /\ IsFiniteSet(Servers) /\ IsFiniteSet(Threads)
  /\ PerConn \in Nat \ {0} /\ NumIocs \in Nat \ {0} /\ MaxQueued \in Nat \ {0}
  /\ MaxConns \in Nat /\ MaxConns >= PerConn * Cardinality(Servers)

VARIABLES
  state,    \* of each connection: free, connecting, connected, open, active, closed
  server,   \* the server it is for
  ioc,      \* m_ioc
  fd,       \* its descriptor
  timer,    \* m_repeat_timer runs
  table,    \* m_conn_manager: descriptor to connection
  count,    \* m_server_conns; 0 stands for no entry
  mutex,    \* who holds m_manager_mutex
  todo,     \* per server, connects the connector thread has still to start
  pos,      \* m_ioc_pos, of the connector thread alone
  queue,    \* per I/O thread, the connections whose writes are posted, in order
  io,       \* per I/O thread, where it is in a handler, and with which connection and key
  biz,      \* where each business thread is in handle_to_audit_request
  ref,      \* the descriptor of the entry get_conn returned a reference to
  kept,     \* the thread's weak_ptr
  status,   \* running, terminated by an exception, or how it became undefined
  closes,   \* history: a connection was closed
  loss      \* history: a release() erased, or may yet erase, an entry that was not its own

connVars == <<state, server, ioc, fd, timer>>
bizVars == <<biz, ref, kept>>
histVars == <<closes, loss>>
vars == <<connVars, table, count, mutex, todo, pos, queue, io, bizVars, status, histVars>>

IsOpen(c) == state[c] \notin {"free", "closed"}
Unused == {c \in Conns : state[c] = "free"}
FreeFds == Fds \ {fd[c] : c \in {d \in Conns : IsOpen(d)}}
Lowest(n, S) == \A m \in S : n <= m

Idle == [at |-> "idle", conn |-> None, key |-> None]
Connector == [thread |-> "connector", id |-> None]
IoThread(i) == [thread |-> "io", id |-> i]
BizThread(t) == [thread |-> "biz", id |-> t]
Nobody == [thread |-> "nobody", id |-> None]

Init ==
  /\ state = [c \in Conns |-> "free"]
  /\ server = [c \in Conns |-> CHOOSE s \in Servers : TRUE]
  /\ ioc = [c \in Conns |-> 0] /\ fd = [c \in Conns |-> None]
  /\ timer = [c \in Conns |-> FALSE]
  /\ table = [f \in Fds |-> None] /\ count = [s \in Servers |-> 0]
  /\ mutex = Nobody /\ todo = [s \in Servers |-> PerConn] /\ pos = 0
  /\ queue = [i \in Iocs |-> <<>>] /\ io = [i \in Iocs |-> Idle]
  /\ biz = [t \in Threads |-> "idle"] /\ ref = [t \in Threads |-> None]
  /\ kept = [t \in Threads |-> None]
  /\ status = "running" /\ closes = FALSE /\ loss = FALSE

\* RepeatTimer::start, and expired() after each call of the handler.
StartTimer(c) == timer' = [timer EXCEPT ![c] = TRUE]

Queued(c) == Cardinality({k \in DOMAIN queue[ioc[c]] : queue[ioc[c]][k] = c})
Post(c) == queue' = [queue EXCEPT ![ioc[c]] = Append(@, c)]

-----------------------------------------------------------------------------
\* The connector thread.

\* A bug: one connection short is taken for enough.
LacksTwo(s) == count[s] # 0 /\ count[s] + 1 < PerConn

Lacks(s) == count[s] # 0 /\ count[s] < PerConn

(* The reconnect timer's handler keeps the mutex for the whole loop.  A server has no   *)
(* entry before its first success; async_connect starts PerConn connects each time.      *)
Reconnect ==
  /\ mutex = Nobody /\ \A s \in Servers : todo[s] = 0
  /\ \E s \in Servers : Lacks(s)
  /\ Cardinality(Unused) >= PerConn * Cardinality({s \in Servers : Lacks(s)})
  /\ mutex' = Connector
  /\ todo' = [s \in Servers |-> IF Lacks(s) THEN PerConn ELSE 0]
  /\ UNCHANGED <<connVars, table, count, pos, queue, io, bizVars, status, histVars>>

(* One turn of async_connect's loop: the socket is opened at once, with the lowest free  *)
(* descriptor, be it one whose connection is closed and not yet released.                 *)
Connect(s) ==
  \E c \in Unused, f \in FreeFds :
    /\ Lowest(c, Unused) /\ Lowest(f, FreeFds)
    /\ todo[s] > 0
    /\ state' = [state EXCEPT ![c] = "connecting"]
    /\ server' = [server EXCEPT ![c] = s]
    /\ ioc' = [ioc EXCEPT ![c] = pos] /\ pos' = (pos + 1) % NumIocs
    /\ fd' = [fd EXCEPT ![c] = f]
    /\ loss' = (loss \/ \E i \in Iocs : io[i].at = "release" /\ io[i].key = f)
    /\ todo' = [todo EXCEPT ![s] = @ - 1]
    /\ mutex' = IF \A r \in Servers : todo'[r] = 0 /\ mutex = Connector THEN Nobody ELSE mutex
    /\ UNCHANGED <<timer, table, count, queue, io, bizVars, status, closes>>

-----------------------------------------------------------------------------
\* A bug: the timer is not started again after its handler.
ExpireOnce(c) ==
  /\ timer[c] /\ Queued(c) < MaxQueued
  /\ Post(c)
  /\ timer' = [timer EXCEPT ![c] = FALSE]
  /\ UNCHANGED <<state, server, ioc, fd, table, count, mutex, todo, pos, io, bizVars, status, histVars>>

(* The keep-alive timer expires: its handler only posts a write, to a closed connection  *)
(* too, and starts the timer again.  It is taken together with the expiry, whatever the   *)
(* I/O thread is about.                                                                    *)
Expire(c) ==
  /\ timer[c] /\ Queued(c) < MaxQueued
  /\ Post(c)
  /\ StartTimer(c)
  /\ UNCHANGED <<state, server, ioc, fd, table, count, mutex, todo, pos, io, bizVars, status, histVars>>

-----------------------------------------------------------------------------
\* The I/O threads.
Goto(i, place, c, k) == io' = [io EXCEPT ![i] = [at |-> place, conn |-> c, key |-> k]]

\* The thread of c is between two handlers.
Ready(i, c) == io[i] = Idle /\ ioc[c] = i

(* The connect failed: close() closes the socket and releases get_uuid(), which nothing  *)
(* has set; the key may be anything.                                                      *)
RunRefused(i, c) ==
  /\ Ready(i, c) /\ state[c] = "connecting"
  /\ state' = [state EXCEPT ![c] = "closed"]
  /\ \E k \in Fds \cup {None} : Goto(i, "release", c, k) /\ loss' = (loss \/ k # None)
  /\ closes' = TRUE
  /\ UNCHANGED <<server, ioc, fd, timer, table, count, mutex, todo, pos, queue, bizVars, status>>

\* A bug: the table is changed without the mutex.
RunConnectedUnlocked(i, c) ==
  /\ Ready(i, c) /\ state[c] = "connecting"
  /\ state' = [state EXCEPT ![c] = "connected"]
  /\ Goto(i, "insert", c, fd[c])
  /\ UNCHANGED <<server, ioc, fd, timer, queue, table, count, mutex, todo, pos, bizVars, status, histVars>>

\* handle_connect: set_conn_info throws if the server has gone again, and nothing catches it.
RunConnected(i, c) ==
  /\ Ready(i, c) /\ state[c] = "connecting"
  /\ state' = [state EXCEPT ![c] = "connected"]
  /\ \/ Goto(i, "lock", c, fd[c]) /\ UNCHANGED status
     \/ status' = "terminated" /\ UNCHANGED io
  /\ UNCHANGED <<server, ioc, fd, timer, queue, table, count, mutex, todo, pos, bizVars, histVars>>

LockInsert(i) ==
  /\ io[i].at = "lock" /\ mutex = Nobody
  /\ mutex' = IoThread(i)
  /\ Goto(i, "insert", io[i].conn, io[i].key)
  /\ UNCHANGED <<connVars, table, count, todo, pos, queue, bizVars, status, histVars>>

\* The entry and the count under the mutex, then async_timeout.
Insert(i) ==
  LET c == io[i].conn
  IN  /\ io[i].at = "insert"
      /\ table' = [table EXCEPT ![io[i].key] = c]
      /\ count' = [count EXCEPT ![server[c]] = @ + 1]
      /\ mutex' = IF mutex = IoThread(i) THEN Nobody ELSE mutex
      /\ state' = [state EXCEPT ![c] = "open"]
      /\ StartTimer(c)
      /\ io' = [io EXCEPT ![i] = Idle]
      /\ UNCHANGED <<server, ioc, fd, todo, pos, queue, bizVars, status, histVars>>

\* async_write's closure drops the message if the socket is closed.
RunWrite(i, c) ==
  /\ Ready(i, c) /\ queue[i] # <<>> /\ Head(queue[i]) = c
  /\ queue' = [queue EXCEPT ![i] = Tail(@)]
  /\ state' = [state EXCEPT ![c] = IF IsOpen(c) THEN "active" ELSE @]
  /\ UNCHANGED <<server, ioc, fd, timer, table, count, mutex, todo, pos, io, bizVars, status, histVars>>

\* A bug: the descriptor is asked for after the socket is closed.
RunEndLate(i, c) ==
  /\ Ready(i, c) /\ state[c] = "active"
  /\ state' = [state EXCEPT ![c] = "closed"]
  /\ Goto(i, "release", c, None) /\ closes' = TRUE
  /\ UNCHANGED <<server, ioc, fd, timer, table, count, mutex, todo, pos, queue, bizVars, status, loss>>

(* A read or a write fails; before the first write there is neither.  close() closes the  *)
(* socket, whose descriptor may be used again from now on ...                              *)
RunEnd(i, c) ==
  /\ Ready(i, c) /\ state[c] = "active"
  /\ state' = [state EXCEPT ![c] = "closed"]
  /\ Goto(i, "release", c, fd[c]) /\ closes' = TRUE
  /\ UNCHANGED <<server, ioc, fd, timer, table, count, mutex, todo, pos, queue, bizVars, status, loss>>

(* ... and release() erases the entry, without the mutex.  A connection that never was   *)
(* connected is then destroyed; for others the handler of their timer holds them for ever. *)
Release(i) ==
  LET c == io[i].conn
      k == io[i].key
  IN  /\ io[i].at = "release"
      /\ table' = [f \in Fds |-> IF f = k THEN None ELSE table[f]]
      /\ ref' = [t \in Threads |-> IF ref[t] = k THEN None ELSE ref[t]]
      /\ state' = [state EXCEPT ![c] = IF timer[c] THEN @ ELSE "free"]
      /\ fd' = [fd EXCEPT ![c] = None]
      /\ ioc' = [ioc EXCEPT ![c] = IF timer[c] THEN @ ELSE 0]
      /\ io' = [io EXCEPT ![i] = Idle]
      /\ UNCHANGED <<server, timer, count, mutex, todo, pos, queue, biz, kept, status, histVars>>

\* The steps an I/O thread takes by itself; the others wait for the network.
RunIo(i) ==
  \/ LockInsert(i) \/ Insert(i) \/ Release(i)
  \/ \E c \in Conns : RunWrite(i, c)

Network(i, c) == RunRefused(i, c) \/ RunConnected(i, c) \/ RunEnd(i, c)

-----------------------------------------------------------------------------
\* The business threads, in handle_to_audit_request.
BizGoto(t, place) == biz' = [biz EXCEPT ![t] = place]

\* The thread keeps to the connection of its weak_ptr while that exists, closed or not.
Ask(t) ==
  /\ biz[t] = "idle"
  /\ BizGoto(t, IF kept[t] = None THEN "lock" ELSE "send")
  /\ UNCHANGED <<connVars, table, count, mutex, todo, pos, queue, io, ref, kept, status, histVars>>

LockPick(t) ==
  /\ biz[t] = "lock" /\ mutex = Nobody
  /\ mutex' = BizThread(t) /\ BizGoto(t, "pick")
  /\ UNCHANGED <<connVars, table, count, todo, pos, queue, io, ref, kept, status, histVars>>

\* get_conn returns a reference to some entry; without any it dereferences end().
Pick(t) ==
  /\ biz[t] = "pick"
  /\ mutex' = Nobody
  /\ \/ \E f \in Fds : /\ table[f] # None /\ ref' = [ref EXCEPT ![t] = f]
                        /\ BizGoto(t, "copy") /\ UNCHANGED status
     \/ /\ \A f \in Fds : table[f] = None
        /\ status' = "empty" /\ UNCHANGED <<biz, ref>>
  /\ UNCHANGED <<connVars, table, count, todo, pos, queue, io, kept, histVars>>

\* The reference is used after the mutex is released: the entry may have been erased.
Copy(t) ==
  /\ biz[t] = "copy"
  /\ IF ref[t] = None
       THEN status' = "dangling" /\ UNCHANGED <<biz, kept>>
       ELSE kept' = [kept EXCEPT ![t] = table[ref[t]]] /\ BizGoto(t, "send") /\ UNCHANGED status
  /\ ref' = [ref EXCEPT ![t] = None]
  /\ UNCHANGED <<connVars, table, count, mutex, todo, pos, queue, io, histVars>>

Send(t) ==
  /\ biz[t] = "send" /\ Queued(kept[t]) < MaxQueued
  /\ Post(kept[t]) /\ BizGoto(t, "idle")
  /\ UNCHANGED <<connVars, table, count, mutex, todo, pos, io, ref, kept, status, histVars>>

RunBiz(t) == LockPick(t) \/ Pick(t) \/ Copy(t) \/ Send(t)

-----------------------------------------------------------------------------
Writing(i) == io[i].at \in {"insert", "release"}

\* Two threads are in the table at once, and one of them changes it.
Race ==
  /\ \/ \E i, j \in Iocs : i # j /\ Writing(i) /\ Writing(j)
     \/ \E i \in Iocs, t \in Threads :
          Writing(i) /\ (biz[t] = "pick" \/ (biz[t] = "copy" /\ ref[t] = io[i].key))
  /\ status' = "race"
  /\ UNCHANGED <<connVars, table, count, mutex, todo, pos, queue, io, bizVars, histVars>>

Ended == status # "running" /\ UNCHANGED vars

Next ==
  \/ /\ status = "running"
     /\ \/ Reconnect \/ \E s \in Servers : Connect(s)
        \/ \E c \in Conns : Expire(c)
        \/ \E i \in Iocs : RunIo(i) \/ \E c \in Conns : Network(i, c)
        \/ \E t \in Threads : Ask(t) \/ RunBiz(t)
        \/ Race
  \/ Ended

SafeSpec == Init /\ [][Next]_vars

(* Every thread is scheduled, timers expire, and if connects to a server are tried again  *)
(* and again one of them succeeds.  No connection has to break and nobody has to ask.      *)
Fairness ==
  /\ WF_vars(status = "running" /\ Reconnect)
  /\ WF_vars(status = "running" /\ \E s \in Servers : Connect(s))
  /\ \A i \in Iocs : WF_vars(status = "running" /\ RunIo(i))
  /\ \A t \in Threads : WF_vars(status = "running" /\ RunBiz(t))
  /\ \A c \in Conns : WF_vars(status = "running" /\ Expire(c))
  /\ \A s \in Servers :
       SF_vars(status = "running" /\ \E i \in Iocs, c \in Conns : server[c] = s /\ RunConnected(i, c))

Spec == SafeSpec /\ Fairness

-----------------------------------------------------------------------------
TypeOK ==
  /\ state \in [Conns -> {"free", "connecting", "connected", "open", "active", "closed"}]
  /\ server \in [Conns -> Servers] /\ ioc \in [Conns -> Iocs] /\ fd \in [Conns -> Fds \cup {None}]
  /\ timer \in [Conns -> BOOLEAN]
  /\ table \in [Fds -> Conns \cup {None}] /\ count \in [Servers -> Nat]
  /\ mutex \in {Nobody, Connector} \cup {IoThread(i) : i \in Iocs} \cup {BizThread(t) : t \in Threads}
  /\ todo \in [Servers -> 0 .. PerConn] /\ pos \in Iocs
  /\ queue \in [Iocs -> Seq(Conns)]
  /\ io \in [Iocs -> [at : {"idle", "lock", "insert", "release"},
                      conn : Conns \cup {None}, key : Fds \cup {None}]]
  /\ biz \in [Threads -> {"idle", "lock", "pick", "copy", "send"}]
  /\ ref \in [Threads -> Fds \cup {None}] /\ kept \in [Threads -> Conns \cup {None}]
  /\ status \in {"running", "terminated", "empty", "dangling", "race"}
  /\ closes \in BOOLEAN /\ loss \in BOOLEAN

Registered(c) == state[c] \in {"open", "active"}

(* get_conn finds the connections that are there.  An entry is an open connection under   *)
(* its own descriptor, or one whose close() is about to release it; and each open          *)
(* connection has its entry, unless a failed connect has released a key it never had, or   *)
(* a descriptor was used again between a close() and its release().                        *)
TableKept ==
  /\ \A f \in Fds : table[f] # None =>
       LET c == table[f] IN
       fd[c] = f /\ (Registered(c) \/ io[ioc[c]] = [at |-> "release", conn |-> c, key |-> f])
  /\ ~loss => \A c \in Conns : Registered(c) => table[fd[c]] = c

(* The mutex is enough for all but release(): whenever two threads are in the table at    *)
(* once, and one of them changes it, an I/O thread is in release() at that moment; and a   *)
(* reference that get_conn returned is valid when it is copied as long as no connection    *)
(* was closed.                                                                             *)
OnlyReleaseRaces ==
  /\ status = "race" => \E i \in Iocs : io[i].at = "release"
  /\ status = "dangling" => closes

(* A server that some but too few connections were made to gets the others, however       *)
(* many connects fail meanwhile.  The counts never go down: connections that are lost      *)
(* later are not made again, and a server that refuses all the first ones has no entry.    *)
ReconnectComes ==
  \A s \in Servers :
    count[s] \in 1 .. PerConn - 1 ~> count[s] >= PerConn \/ status # "running"

(* "per 10 seconds send keepalive pkg" (client.cpp:169): while a connection stays open,    *)
(* its timer makes it write again and again.                                               *)
KeepAlive ==
  \A c \in Conns : <>[](Registered(c) /\ status = "running")
                      => []<><<RunWrite(ioc[c], c)>>_vars
=============================================================================
