---------------------------- MODULE ClientProofs ----------------------------
(***************************************************************************)
(* Theorems about Client, for every number of servers, connections, I/O       *)
(* threads and business threads.                                              *)
(***************************************************************************)
EXTENDS Client, SequenceTheorems, TLAPS

Handlers == [at : {"idle", "lock", "insert", "release"}, conn : Conns \cup {None}, key : Fds \cup {None}]

\* The types the proofs need.
Types ==
  /\ state \in [Conns -> {"free", "connecting", "connected", "open", "active", "closed"}]
  /\ ioc \in [Conns -> Iocs] /\ fd \in [Conns -> Fds \cup {None}] /\ timer \in [Conns -> BOOLEAN]
  /\ table \in [Fds -> Conns \cup {None}] /\ pos \in Iocs
  /\ queue \in [Iocs -> Seq(Conns)] /\ io \in [Iocs -> Handlers]
  /\ biz \in [Threads -> {"idle", "lock", "pick", "copy", "send"}]
  /\ ref \in [Threads -> Fds \cup {None}] /\ kept \in [Threads -> Conns \cup {None}]

\* The keep-alive timer of a connection is started once it is in the table, and never stopped:
\* from then on the object is not destroyed.
TimerInv ==
  /\ \A c \in Conns : state[c] \in {"free", "connecting", "connected"} => ~timer[c]
  /\ \A c \in Conns : Registered(c) => timer[c]
  /\ \A i \in Iocs : \A n \in 1 .. Len(queue[i]) : timer[queue[i][n]]
  /\ \A t \in Threads : kept[t] # None => timer[kept[t]]
  /\ \A f \in Fds : table[f] # None => timer[table[f]]

\* Open sockets have descriptors of their own.
FdInv ==
  /\ \A c \in Conns : IsOpen(c) => fd[c] # None
  /\ \A c, d \in Conns : IsOpen(c) /\ IsOpen(d) /\ fd[c] = fd[d] => c = d

\* What a handler that is not done works on.
HandlerInv ==
  \A i \in Iocs :
    /\ io[i].at = "idle" => io[i] = Idle
    /\ io[i].at # "idle" => io[i].conn # None /\ ioc[io[i].conn] = i
    /\ io[i].at \in {"lock", "insert"} => state[io[i].conn] = "connected" /\ io[i].key = fd[io[i].conn]
    /\ io[i].at = "release" =>
         /\ state[io[i].conn] = "closed"
         /\ timer[io[i].conn] => io[i].key = fd[io[i].conn]

\* As long as nothing is lost, a key that is about to be released is nobody's descriptor.
LossInv ==
  ~loss => \A i \in Iocs : io[i].at = "release" /\ io[i].key # None =>
             \A d \in Conns : IsOpen(d) => fd[d] # io[i].key

\* While the program runs, the mutex is held by whoever is in the table, release() excepted.
MutexInv ==
  status = "running" =>
  /\ \A i \in Iocs : io[i].at = "insert" => mutex = IoThread(i)
  /\ \A t \in Threads : biz[t] = "pick" => mutex = BizThread(t)

\* The reference that get_conn returned.
RefInv ==
  /\ \A t \in Threads : ref[t] # None => table[ref[t]] # None
  /\ \A t \in Threads : biz[t] = "copy" /\ ref[t] = None => closes
  /\ \A t \in Threads : biz[t] = "send" => kept[t] # None
  /\ ~closes => \A i \in Iocs : io[i].at # "release"

ClientInv ==
  Types /\ TimerInv /\ FdInv /\ HandlerInv /\ LossInv /\ MutexInv /\ RefInv /\ TableKept /\ OnlyReleaseRaces

-----------------------------------------------------------------------------
(* What each part of the invariant depends on.                               *)

\* The types when nothing changes that has one.
LEMMA TypesSame ==
  ASSUME Types, UNCHANGED <<state, ioc, fd, timer, table, pos, queue, io, biz, ref, kept>> PROVE Types'
BY DEF Types

\* Timers, when no connection changes and no queue, weak_ptr or entry does.
LEMMA TimerSame ==
  ASSUME TimerInv, UNCHANGED <<state, timer, queue, kept, table>> PROVE TimerInv'
BY DEF TimerInv, Registered

\* Descriptors, when no connection changes.
LEMMA FdSame ==
  ASSUME FdInv, UNCHANGED <<state, fd>> PROVE FdInv'
BY DEF FdInv, IsOpen

\* Handlers, when no connection changes and no handler moves on.
LEMMA HandlerSame ==
  ASSUME HandlerInv, UNCHANGED <<io, ioc, state, fd, timer>> PROVE HandlerInv'
BY DEF HandlerInv

\* Keys that are about to be released, when nobody opens or closes.
LEMMA LossSame ==
  ASSUME LossInv, UNCHANGED <<loss, io, state, fd>> PROVE LossInv'
BY DEF LossInv, IsOpen

\* The mutex, when it is not taken or given back and nobody moves.
LEMMA MutexSame ==
  ASSUME MutexInv, UNCHANGED <<io, biz, mutex>>, status' = "running" => status = "running" PROVE MutexInv'
BY DEF MutexInv

\* References, when no entry and no business thread changes and nobody starts to release.
LEMMA RefSame ==
  ASSUME RefInv, UNCHANGED <<ref, table, biz, kept, io, closes>> PROVE RefInv'
BY DEF RefInv

\* The table, when neither it nor a connection or handler changes.
LEMMA TableSame ==
  ASSUME TableKept, UNCHANGED <<table, fd, state, io, ioc, loss>> PROVE TableKept'
BY DEF TableKept, Registered

\* The constants.
LEMMA ClientConstants ==
  /\ 0 \in Iocs /\ None \notin Conns /\ None \notin Fds /\ Conns = Fds
  /\ \A i, j \in Iocs : IoThread(i) = IoThread(j) => i = j
  /\ \A i \in Iocs : \A t \in Threads : IoThread(i) # BizThread(t)
  /\ \A t, u \in Threads : BizThread(t) = BizThread(u) => t = u
  /\ \A i \in Iocs : IoThread(i) # Nobody /\ IoThread(i) # Connector
  /\ \A t \in Threads : BizThread(t) # Nobody /\ BizThread(t) # Connector
  /\ Nobody # Connector /\ Idle \in Handlers /\ Idle.at = "idle"
<1>1. 0 \in Iocs /\ None \notin Conns /\ None \notin Fds /\ Conns = Fds
  BY ClientAssumption DEF Iocs, None, Conns, Fds
<1>2. /\ \A i, j \in Iocs : IoThread(i) = IoThread(j) => i = j
      /\ \A t, u \in Threads : BizThread(t) = BizThread(u) => t = u
  BY DEF IoThread, BizThread
<1>3. /\ \A i \in Iocs : \A t \in Threads : IoThread(i) # BizThread(t)
      /\ \A i \in Iocs : IoThread(i) # Nobody /\ IoThread(i) # Connector
      /\ \A t \in Threads : BizThread(t) # Nobody /\ BizThread(t) # Connector
      /\ Nobody # Connector
  BY DEF IoThread, BizThread, Nobody, Connector
<1>4. Idle \in Handlers /\ Idle.at = "idle"
  BY DEF Idle, Handlers
<1> QED
  BY <1>1, <1>2, <1>3, <1>4

\* Nothing is connected at the start.
LEMMA InitClient == Init => ClientInv
<1> SUFFICES ASSUME Init PROVE ClientInv
  OBVIOUS
<1>1. Types
  BY ClientConstants DEF Init, Types
<1>2. TimerInv /\ FdInv
  BY DEF Init, TimerInv, FdInv, Registered, IsOpen
<1>3. \A i \in Iocs : io[i] = Idle /\ io[i].at = "idle"
  BY ClientConstants DEF Init
<1>4. HandlerInv /\ LossInv
  BY <1>3 DEF HandlerInv, LossInv
<1>5. MutexInv /\ RefInv
  BY <1>3 DEF Init, MutexInv, RefInv
<1>6. TableKept /\ OnlyReleaseRaces
  BY DEF Init, TableKept, OnlyReleaseRaces, Registered
<1> QED
  BY <1>1, <1>2, <1>4, <1>5, <1>6 DEF ClientInv

-----------------------------------------------------------------------------
(* The connector thread and the timers.                                      *)

\* The reconnect timer takes the mutex and plans connects.
LEMMA ReconnectKeeps ==
  ASSUME ClientInv, Reconnect PROVE ClientInv'
<1>1. /\ UNCHANGED <<state, ioc, fd, timer, table, pos, queue, io, biz, ref, kept, status, closes, loss>>
      /\ mutex = Nobody
  BY DEF Reconnect, connVars, bizVars, histVars
<1>2. Types' /\ TimerInv' /\ FdInv' /\ HandlerInv' /\ LossInv' /\ RefInv' /\ TableKept'
  BY <1>1, TypesSame, TimerSame, FdSame, HandlerSame, LossSame, RefSame, TableSame DEF ClientInv
<1>3. MutexInv'
  BY <1>1, ClientConstants DEF ClientInv, MutexInv
<1>4. OnlyReleaseRaces'
  BY <1>1 DEF ClientInv, OnlyReleaseRaces
<1> QED
  BY <1>2, <1>3, <1>4 DEF ClientInv

\* A connect uses a free object and a free descriptor.
LEMMA ConnectKeeps ==
  ASSUME ClientInv, NEW s \in Servers, Connect(s) PROVE ClientInv'
<1>1. PICK c \in Unused, f \in FreeFds :
        /\ state' = [state EXCEPT ![c] = "connecting"] /\ fd' = [fd EXCEPT ![c] = f]
        /\ ioc' = [ioc EXCEPT ![c] = pos] /\ pos' = (pos + 1) % NumIocs
        /\ loss' = (loss \/ \E i \in Iocs : io[i].at = "release" /\ io[i].key = f)
        /\ mutex' = IF \A r \in Servers : todo'[r] = 0 /\ mutex = Connector THEN Nobody ELSE mutex
        /\ UNCHANGED <<timer, table, queue, io, biz, ref, kept, status, closes>>
  BY DEF Connect, bizVars
<1>2. c \in Conns /\ state[c] = "free" /\ f \in Fds /\ \A d \in Conns : IsOpen(d) => fd[d] # f
  BY DEF Unused, FreeFds
<1>3. /\ Types /\ TimerInv /\ FdInv /\ HandlerInv /\ LossInv /\ MutexInv /\ RefInv /\ TableKept /\ OnlyReleaseRaces
  BY DEF ClientInv
<1>4. /\ state'[c] = "connecting" /\ fd'[c] = f
      /\ \A d \in Conns \ {c} : state'[d] = state[d] /\ fd'[d] = fd[d] /\ ioc'[d] = ioc[d]
  BY <1>1, <1>2, <1>3 DEF Types
<1>5. Types'
  <2>1. pos' \in Iocs
    BY <1>1, <1>3, ClientAssumption DEF Types, Iocs
  <2> QED
    BY <1>1, <1>2, <1>3, <2>1 DEF Types
<1>6. \A d \in Conns : timer[d] => d # c
  BY <1>2, <1>3 DEF TimerInv
<1>7. TimerInv'
  BY <1>1, <1>2, <1>3, <1>4 DEF TimerInv, Registered
<1>8. FdInv'
  BY <1>2, <1>3, <1>4, ClientConstants DEF FdInv, IsOpen
<1>9. \A i \in Iocs : io[i].at # "idle" => io[i].conn \in Conns /\ io[i].conn # c
  BY <1>2, <1>3 DEF HandlerInv, Types, Handlers
<1>10. HandlerInv'
  BY <1>1, <1>3, <1>4, <1>9 DEF HandlerInv
<1>11. LossInv'
  <2> SUFFICES ASSUME ~loss', NEW i \in Iocs, io[i].at = "release", io[i].key # None,
                      NEW d \in Conns, IsOpen(d)'
               PROVE  fd'[d] # io[i].key
    BY <1>1 DEF LossInv
  <2>1. ~loss /\ io[i].key # f
    BY <1>1
  <2>2. CASE d = c
    BY <1>4, <2>1, <2>2
  <2>3. CASE d # c
    <3>1. IsOpen(d) /\ fd'[d] = fd[d]
      BY <1>4, <2>3 DEF IsOpen
    <3> QED
      BY <1>3, <2>1, <3>1 DEF LossInv
  <2> QED
    BY <2>2, <2>3
<1>12. MutexInv'
  BY <1>1, <1>3, ClientConstants DEF MutexInv
<1>13. RefInv'
  BY <1>1, <1>3, RefSame
<1>14. TableKept'
  <2>1. \A g \in Fds : table[g] # None => table[g] \in Conns /\ table[g] # c
    BY <1>3, <1>6 DEF TimerInv, Types
  <2>2. \A d \in Conns : Registered(d)' <=> Registered(d)
    BY <1>2, <1>4 DEF Registered
  <2>3. \A d \in Conns : Registered(d) => d # c
    BY <1>2 DEF Registered
  <2>4. ~loss' => ~loss
    BY <1>1
  <2> QED
    BY <1>1, <1>3, <1>4, <2>1, <2>2, <2>3, <2>4 DEF TableKept
<1>15. OnlyReleaseRaces'
  BY <1>1, <1>3 DEF OnlyReleaseRaces
<1> QED
  BY <1>5, <1>7, <1>8, <1>10, <1>11, <1>12, <1>13, <1>14, <1>15 DEF ClientInv

\* A write that is posted is one more in the queue of the connection's thread.
LEMMA PostKeeps ==
  ASSUME ClientInv, NEW c \in Conns, timer[c], Post(c),
         UNCHANGED <<state, ioc, fd, timer, table, pos, io, ref, kept, mutex, status, closes, loss>>,
         biz' \in [Threads -> {"idle", "lock", "pick", "copy", "send"}],
         \A t \in Threads : biz'[t] # biz[t] => biz'[t] = "idle"
  PROVE  ClientInv'
<1>1. ioc[c] \in Iocs /\ queue \in [Iocs -> Seq(Conns)] /\ queue[ioc[c]] \in Seq(Conns)
  BY DEF ClientInv, Types
<1>2. Append(queue[ioc[c]], c) \in Seq(Conns)
  BY <1>1
<1>3. queue' = [queue EXCEPT ![ioc[c]] = Append(queue[ioc[c]], c)]
  BY DEF Post
<1>4. Types'
  BY <1>1, <1>2, <1>3 DEF ClientInv, Types
<1>5. ASSUME NEW i \in Iocs, NEW n \in 1 .. Len(queue'[i]) PROVE timer[queue'[i][n]]
  <2>1. queue[i] \in Seq(Conns) /\ \A m \in 1 .. Len(queue[i]) : timer[queue[i][m]]
    BY DEF ClientInv, Types, TimerInv
  <2>2. CASE i = ioc[c]
    <3>1. queue'[i] = Append(queue[i], c)
      BY <1>1, <1>3, <2>2
    <3>2. n \in 1 .. Len(queue[i]) \/ queue'[i][n] = c
      BY <2>1, <3>1
    <3>3. n \in 1 .. Len(queue[i]) => queue'[i][n] = queue[i][n]
      BY <2>1, <3>1
    <3> QED
      BY <2>1, <3>2, <3>3
  <2>3. CASE i # ioc[c]
    BY <1>1, <1>3, <2>1, <2>3
  <2> QED
    BY <2>2, <2>3
<1>6. TimerInv'
  BY <1>5 DEF ClientInv, TimerInv, Registered
<1>7. FdInv' /\ HandlerInv' /\ LossInv' /\ TableKept'
  BY FdSame, HandlerSame, LossSame, TableSame DEF ClientInv
<1>8. MutexInv' /\ RefInv' /\ OnlyReleaseRaces'
  BY DEF ClientInv, MutexInv, RefInv, OnlyReleaseRaces
<1> QED
  BY <1>4, <1>6, <1>7, <1>8 DEF ClientInv

\* The keep-alive timer posts a write.
LEMMA ExpireKeeps ==
  ASSUME ClientInv, NEW c \in Conns, Expire(c) PROVE ClientInv'
<1>1. /\ timer[c] /\ Post(c) /\ timer' = [timer EXCEPT ![c] = TRUE]
      /\ UNCHANGED <<state, ioc, fd, table, pos, io, biz, ref, kept, mutex, status, closes, loss>>
  BY DEF Expire, StartTimer, bizVars, histVars
<1>2. timer \in [Conns -> BOOLEAN] /\ timer[c] = TRUE
  BY <1>1 DEF ClientInv, Types
<1>3. timer' = timer
  BY <1>1, <1>2
<1> QED
  BY <1>1, <1>3, PostKeeps DEF ClientInv, Types

-----------------------------------------------------------------------------
(* The I/O threads.                                                          *)

\* What an entry of the table is.
LEMMA EntryKept ==
  ASSUME ClientInv, NEW f \in Fds, table[f] # None
  PROVE  /\ table[f] \in Conns /\ fd[table[f]] = f /\ ioc[table[f]] \in Iocs /\ timer[table[f]]
         /\ Registered(table[f]) \/ io[ioc[table[f]]] = [at |-> "release", conn |-> table[f], key |-> f]
<1>1. table[f] \in Conns /\ ioc[table[f]] \in Iocs
  BY DEF ClientInv, Types
<1>2. timer[table[f]]
  BY DEF ClientInv, TimerInv
<1>3. /\ fd[table[f]] = f
      /\ Registered(table[f]) \/ io[ioc[table[f]]] = [at |-> "release", conn |-> table[f], key |-> f]
  BY DEF ClientInv, TableKept
<1> QED
  BY <1>1, <1>2, <1>3

\* A connection whose thread is idle is not in any handler.
LEMMA NotHandled ==
  ASSUME ClientInv, NEW i \in Iocs, NEW c \in Conns, Ready(i, c)
  PROVE  /\ io[i] = Idle /\ io[i].at = "idle" /\ ioc[c] = i
         /\ \A j \in Iocs : io[j].at # "idle" => j # i /\ io[j].conn \in Conns /\ io[j].conn # c
         /\ \A f \in Fds : table[f] # None /\ ioc[table[f]] = i => Registered(table[f])
<1>1. io[i] = Idle /\ io[i].at = "idle" /\ ioc[c] = i
  BY ClientConstants DEF Ready
<1>2. \A j \in Iocs : io[j].at # "idle" => j # i /\ io[j].conn \in Conns /\ io[j].conn # c
  BY <1>1 DEF ClientInv, HandlerInv, Types, Handlers
<1>3. io[i].at # "release"
  BY <1>1
<1>4. ASSUME NEW f \in Fds, table[f] # None, ioc[table[f]] = i PROVE Registered(table[f])
  <2>1. Registered(table[f]) \/ io[i] = [at |-> "release", conn |-> table[f], key |-> f]
    BY <1>4 DEF ClientInv, TableKept
  <2>2. io[i] # [at |-> "release", conn |-> table[f], key |-> f]
    BY <1>3
  <2> QED
    BY <2>1, <2>2
<1> QED
  BY <1>1, <1>2, <1>4

\* A connection that is closed while its thread starts to release it.
LEMMA CloseKeeps ==
  ASSUME ClientInv, status = "running", NEW i \in Iocs, NEW c \in Conns, Ready(i, c), NEW k \in Fds \cup {None}, IsOpen(c),
         timer[c] => k = fd[c],
         ~timer[c] /\ ~loss' => k = None,
         loss => loss', state' = [state EXCEPT ![c] = "closed"], Goto(i, "release", c, k), closes' = TRUE,
         UNCHANGED <<ioc, fd, timer, table, pos, queue, biz, ref, kept, mutex, status>>
  PROVE  ClientInv'
<1>1. /\ io[i] = Idle /\ io[i].at = "idle" /\ ioc[c] = i
      /\ \A j \in Iocs : io[j].at # "idle" => j # i /\ io[j].conn \in Conns /\ io[j].conn # c
      /\ \A f \in Fds : table[f] # None /\ ioc[table[f]] = i => Registered(table[f])
  BY NotHandled
<1>2. Types /\ TimerInv /\ FdInv /\ HandlerInv /\ LossInv /\ MutexInv /\ RefInv /\ TableKept /\ OnlyReleaseRaces
  BY DEF ClientInv
<1> DEFINE e == [at |-> "release", conn |-> c, key |-> k]
<1>3. e \in Handlers /\ e.at = "release" /\ e.conn = c /\ e.key = k
  BY DEF Handlers
<1>4. io' = [io EXCEPT ![i] = e]
  BY DEF Goto
<1> HIDE DEF e
<1>5. io'[i] = e /\ \A j \in Iocs \ {i} : io'[j] = io[j]
  BY <1>2, <1>4 DEF Types
<1>6. state'[c] = "closed" /\ \A d \in Conns \ {c} : state'[d] = state[d]
  BY <1>2 DEF Types
<1>7. c # None
  BY ClientConstants
<1>8. Types'
  BY <1>2, <1>3, <1>4 DEF Types
<1>9. TimerInv'
  BY <1>2, <1>6 DEF TimerInv, Registered
<1>10. FdInv'
  BY <1>2, <1>6 DEF FdInv, IsOpen
<1>11. HandlerInv'
  <2> SUFFICES ASSUME NEW j \in Iocs
               PROVE  /\ io'[j].at = "idle" => io'[j] = Idle
                      /\ io'[j].at # "idle" => io'[j].conn # None /\ ioc[io'[j].conn] = j
                      /\ io'[j].at \in {"lock", "insert"} =>
                           state'[io'[j].conn] = "connected" /\ io'[j].key = fd[io'[j].conn]
                      /\ io'[j].at = "release" =>
                           state'[io'[j].conn] = "closed" /\ (timer[io'[j].conn] => io'[j].key = fd[io'[j].conn])
    BY DEF HandlerInv
  <2>1. CASE j = i
    BY <1>1, <1>3, <1>5, <1>6, <1>7, <2>1
  <2>2. CASE j # i
    BY <1>1, <1>2, <1>5, <1>6, <2>2 DEF HandlerInv
  <2> QED
    BY <2>1, <2>2
<1>12. LossInv'
  <2> SUFFICES ASSUME ~loss', NEW j \in Iocs, io'[j].at = "release", io'[j].key # None,
                      NEW d \in Conns, IsOpen(d)'
               PROVE  fd[d] # io'[j].key
    BY DEF LossInv
  <2>1. d # c /\ IsOpen(d)
    BY <1>6 DEF IsOpen
  <2>2. CASE j = i
    <3>1. timer[c] /\ io'[j].key = fd[c]
      BY <1>3, <1>5, <2>2
    <3> QED
      BY <1>2, <2>1, <3>1 DEF FdInv
  <2>3. CASE j # i
    BY <1>2, <1>5, <2>1, <2>3 DEF LossInv
  <2> QED
    BY <2>2, <2>3
<1>13. MutexInv'
  BY <1>2, <1>3, <1>5 DEF MutexInv
<1>14. RefInv' /\ OnlyReleaseRaces'
  BY <1>2 DEF RefInv, OnlyReleaseRaces
<1>15. TableKept'
  <2>1. ASSUME NEW f \in Fds, table[f] # None
        PROVE  /\ fd[table[f]] = f
               /\ Registered(table[f])' \/ io'[ioc[table[f]]] = [at |-> "release", conn |-> table[f], key |-> f]
    <3>1. table[f] \in Conns /\ fd[table[f]] = f /\ ioc[table[f]] \in Iocs /\ timer[table[f]]
      BY <2>1, EntryKept
    <3>2. CASE table[f] = c
      <4>1. k = f /\ ioc[c] = i
        BY <1>1, <3>1, <3>2
      <4>2. io'[i] = [at |-> "release", conn |-> c, key |-> f]
        BY <1>5, <4>1 DEF e
      <4> QED
        BY <3>1, <3>2, <4>1, <4>2
    <3>3. CASE table[f] # c /\ ioc[table[f]] = i
      <4>1. Registered(table[f])
        BY <1>1, <2>1, <3>3
      <4>2. state'[table[f]] = state[table[f]]
        BY <1>6, <3>1, <3>3
      <4> QED
        BY <3>1, <4>1, <4>2 DEF Registered
    <3>4. CASE table[f] # c /\ ioc[table[f]] # i
      <4>1. Registered(table[f]) \/ io[ioc[table[f]]] = [at |-> "release", conn |-> table[f], key |-> f]
        BY <1>2, <2>1 DEF TableKept
      <4>2. state'[table[f]] = state[table[f]] /\ io'[ioc[table[f]]] = io[ioc[table[f]]]
        BY <1>5, <1>6, <3>1, <3>4
      <4> QED
        BY <3>1, <4>1, <4>2 DEF Registered
    <3> QED
      BY <3>2, <3>3, <3>4
  <2>2. ASSUME ~loss', NEW d \in Conns, Registered(d)' PROVE table[fd[d]] = d
    <3>1. Registered(d)
      BY <1>6, <2>2 DEF Registered
    <3> QED
      BY <1>2, <2>2, <3>1 DEF TableKept
  <2> QED
    BY <2>1, <2>2 DEF TableKept
<1> QED
  BY <1>8, <1>9, <1>10, <1>11, <1>12, <1>13, <1>14, <1>15 DEF ClientInv

\* A connect that fails, and a connection that ends.
LEMMA EndKeeps ==
  ASSUME ClientInv, status = "running", NEW i \in Iocs, NEW c \in Conns, RunRefused(i, c) \/ RunEnd(i, c)
  PROVE  ClientInv'
<1>1. Types /\ TimerInv
  BY DEF ClientInv
<1>2. ASSUME RunRefused(i, c) PROVE ClientInv'
  <2>1. PICK k \in Fds \cup {None} : Goto(i, "release", c, k) /\ loss' = (loss \/ k # None)
    BY <1>2 DEF RunRefused
  <2>2. /\ Ready(i, c) /\ state[c] = "connecting" /\ state' = [state EXCEPT ![c] = "closed"] /\ closes' = TRUE
        /\ UNCHANGED <<ioc, fd, timer, table, pos, queue, biz, ref, kept, mutex, status>>
    BY <1>2 DEF RunRefused, bizVars
  <2>3. ~timer[c] /\ IsOpen(c)
    BY <1>1, <2>2 DEF TimerInv, IsOpen
  <2>4. (loss => loss') /\ (~loss' => k = None)
    BY <2>1
  <2> QED
    BY <2>1, <2>2, <2>3, <2>4, CloseKeeps
<1>3. ASSUME RunEnd(i, c) PROVE ClientInv'
  <2>1. /\ Ready(i, c) /\ state[c] = "active" /\ state' = [state EXCEPT ![c] = "closed"] /\ closes' = TRUE
        /\ Goto(i, "release", c, fd[c]) /\ loss' = loss
        /\ UNCHANGED <<ioc, fd, timer, table, pos, queue, biz, ref, kept, mutex, status>>
    BY <1>3 DEF RunEnd, bizVars
  <2>2. timer[c] /\ IsOpen(c) /\ fd[c] \in Fds \cup {None}
    BY <1>1, <2>1 DEF TimerInv, IsOpen, Registered, Types
  <2> QED
    BY <2>1, <2>2, CloseKeeps
<1> QED
  BY <1>2, <1>3

\* A connect that succeeds; or set_conn_info throws.
LEMMA ConnectedKeeps ==
  ASSUME ClientInv, status = "running", NEW i \in Iocs, NEW c \in Conns, RunConnected(i, c) PROVE ClientInv'
<1>1. /\ Ready(i, c) /\ state[c] = "connecting" /\ state' = [state EXCEPT ![c] = "connected"]
      /\ UNCHANGED <<ioc, fd, timer, table, pos, queue, biz, ref, kept, mutex, closes, loss>>
      /\ \/ Goto(i, "lock", c, fd[c]) /\ status' = status
         \/ status' = "terminated" /\ io' = io
  BY DEF RunConnected, bizVars, histVars
<1>2. /\ io[i] = Idle /\ io[i].at = "idle" /\ ioc[c] = i
      /\ \A j \in Iocs : io[j].at # "idle" => j # i /\ io[j].conn \in Conns /\ io[j].conn # c
      /\ \A f \in Fds : table[f] # None /\ ioc[table[f]] = i => Registered(table[f])
  BY <1>1, NotHandled
<1>3. Types /\ TimerInv /\ FdInv /\ HandlerInv /\ LossInv /\ MutexInv /\ RefInv /\ TableKept /\ OnlyReleaseRaces
  BY DEF ClientInv
<1> DEFINE e == [at |-> "lock", conn |-> c, key |-> fd[c]]
<1>4. e \in Handlers /\ e.at = "lock" /\ e.conn = c /\ e.key = fd[c]
  BY <1>3 DEF Handlers, Types
<1>5. io' = [io EXCEPT ![i] = e] \/ io' = io
  BY <1>1 DEF Goto
<1> HIDE DEF e
<1>6. (io'[i] = e \/ io'[i] = io[i]) /\ \A j \in Iocs \ {i} : io'[j] = io[j]
  BY <1>3, <1>5 DEF Types
<1>7. state'[c] = "connected" /\ \A d \in Conns \ {c} : state'[d] = state[d]
  BY <1>1, <1>3 DEF Types
<1>8. c # None /\ ~timer[c]
  BY <1>1, <1>3, ClientConstants DEF TimerInv
<1>9. Types'
  <2>1. io' \in [Iocs -> Handlers]
    BY <1>3, <1>4, <1>5 DEF Types
  <2> QED
    BY <1>1, <1>3, <2>1 DEF Types
<1>10. TimerInv'
  BY <1>1, <1>3, <1>7, <1>8 DEF TimerInv, Registered
<1>11. \A d \in Conns : (IsOpen(d)' <=> IsOpen(d)) /\ (Registered(d)' <=> Registered(d))
  BY <1>1, <1>7 DEF IsOpen, Registered
<1>12. FdInv'
  BY <1>1, <1>3, <1>11 DEF FdInv
<1>13. HandlerInv'
  <2> SUFFICES ASSUME NEW j \in Iocs
               PROVE  /\ io'[j].at = "idle" => io'[j] = Idle
                      /\ io'[j].at # "idle" => io'[j].conn # None /\ ioc[io'[j].conn] = j
                      /\ io'[j].at \in {"lock", "insert"} =>
                           state'[io'[j].conn] = "connected" /\ io'[j].key = fd[io'[j].conn]
                      /\ io'[j].at = "release" =>
                           state'[io'[j].conn] = "closed" /\ (timer[io'[j].conn] => io'[j].key = fd[io'[j].conn])
    BY <1>1 DEF HandlerInv
  <2>1. CASE io'[j] = e /\ j = i
    BY <1>2, <1>4, <1>7, <1>8, <2>1
  <2>2. CASE io'[j] = io[j]
    BY <1>2, <1>3, <1>7, <2>2 DEF HandlerInv
  <2> QED
    BY <1>6, <2>1, <2>2
<1>14. \A j \in Iocs : (io'[j].at = "release" \/ io'[j].at = "insert") => io'[j] = io[j]
  BY <1>4, <1>6
<1>15. LossInv'
  BY <1>1, <1>3, <1>11, <1>14 DEF LossInv
<1>16. MutexInv'
  BY <1>1, <1>3, <1>14 DEF MutexInv
<1>17. RefInv'
  BY <1>1, <1>3, <1>14 DEF RefInv
<1>18. OnlyReleaseRaces'
  BY <1>1, <1>3 DEF OnlyReleaseRaces
<1>19. TableKept'
  <2>1. ASSUME NEW f \in Fds, table[f] # None
        PROVE  /\ fd[table[f]] = f
               /\ Registered(table[f])' \/ io'[ioc[table[f]]] = [at |-> "release", conn |-> table[f], key |-> f]
    <3>1. /\ table[f] \in Conns /\ fd[table[f]] = f /\ ioc[table[f]] \in Iocs /\ timer[table[f]]
          /\ Registered(table[f]) \/ io[ioc[table[f]]] = [at |-> "release", conn |-> table[f], key |-> f]
      BY <2>1, EntryKept
    <3>2. CASE ioc[table[f]] = i
      <4>1. Registered(table[f])
        BY <1>2, <2>1, <3>2
      <4> QED
        BY <1>7, <1>8, <3>1, <4>1, <1>1 DEF Registered
    <3>3. CASE ioc[table[f]] # i
      <4>1. io'[ioc[table[f]]] = io[ioc[table[f]]]
        BY <1>6, <3>1, <3>3
      <4> QED
        BY <1>7, <1>8, <1>1, <3>1, <4>1 DEF Registered
    <3> QED
      BY <3>2, <3>3
  <2>2. ASSUME ~loss, NEW d \in Conns, Registered(d)' PROVE table[fd[d]] = d
    <3>1. Registered(d)
      BY <1>11, <2>2
    <3> QED
      BY <1>3, <2>2, <3>1 DEF TableKept
  <2> QED
    BY <1>1, <2>1, <2>2 DEF TableKept
<1> QED
  BY <1>9, <1>10, <1>12, <1>13, <1>15, <1>16, <1>17, <1>18, <1>19 DEF ClientInv

\* The mutex is taken for the new entry.
LEMMA LockInsertKeeps ==
  ASSUME ClientInv, status = "running", NEW i \in Iocs, LockInsert(i) PROVE ClientInv'
<1>1. /\ io[i].at = "lock" /\ mutex = Nobody /\ mutex' = IoThread(i)
      /\ Goto(i, "insert", io[i].conn, io[i].key)
      /\ UNCHANGED <<state, ioc, fd, timer, table, pos, queue, biz, ref, kept, status, closes, loss>>
  BY DEF LockInsert, connVars, bizVars, histVars
<1>2. Types /\ TimerInv /\ FdInv /\ HandlerInv /\ LossInv /\ MutexInv /\ RefInv /\ TableKept /\ OnlyReleaseRaces
  BY DEF ClientInv
<1> DEFINE e == [at |-> "insert", conn |-> io[i].conn, key |-> io[i].key]
<1>3. io[i] \in Handlers
  BY <1>2 DEF Types
<1>4. e \in Handlers /\ e.at = "insert" /\ e.conn = io[i].conn /\ e.key = io[i].key
  BY <1>3 DEF Handlers
<1>5. io' = [io EXCEPT ![i] = e]
  BY <1>1 DEF Goto
<1> HIDE DEF e
<1>6. io'[i] = e /\ \A j \in Iocs \ {i} : io'[j] = io[j]
  BY <1>2, <1>5 DEF Types
<1>7. Types'
  <2>1. io' \in [Iocs -> Handlers]
    BY <1>2, <1>4, <1>5 DEF Types
  <2> QED
    BY <1>1, <1>2, <2>1 DEF Types
<1>8. TimerInv' /\ FdInv'
  BY <1>1, <1>2, TimerSame, FdSame
<1>9. HandlerInv'
  <2> SUFFICES ASSUME NEW j \in Iocs
               PROVE  /\ io'[j].at = "idle" => io'[j] = Idle
                      /\ io'[j].at # "idle" => io'[j].conn # None /\ ioc[io'[j].conn] = j
                      /\ io'[j].at \in {"lock", "insert"} =>
                           state[io'[j].conn] = "connected" /\ io'[j].key = fd[io'[j].conn]
                      /\ io'[j].at = "release" =>
                           state[io'[j].conn] = "closed" /\ (timer[io'[j].conn] => io'[j].key = fd[io'[j].conn])
    BY <1>1 DEF HandlerInv
  <2>1. CASE j = i
    BY <1>1, <1>2, <1>4, <1>6, <2>1 DEF HandlerInv
  <2>2. CASE j # i
    BY <1>2, <1>6, <2>2 DEF HandlerInv
  <2> QED
    BY <2>1, <2>2
<1>10. \A j \in Iocs : io'[j].at = "release" => io'[j] = io[j]
  BY <1>4, <1>6
<1>11. LossInv'
  BY <1>1, <1>2, <1>10 DEF LossInv, IsOpen
<1>12. MutexInv'
  BY <1>1, <1>2, <1>6, ClientConstants DEF MutexInv
<1>13. RefInv'
  BY <1>1, <1>2, <1>10 DEF RefInv
<1>14. OnlyReleaseRaces'
  BY <1>1, <1>2 DEF OnlyReleaseRaces
<1>15. TableKept'
  <2>1. ASSUME NEW f \in Fds, table[f] # None
        PROVE  /\ fd[table[f]] = f
               /\ Registered(table[f]) \/ io'[ioc[table[f]]] = [at |-> "release", conn |-> table[f], key |-> f]
    <3>1. /\ table[f] \in Conns /\ fd[table[f]] = f /\ ioc[table[f]] \in Iocs /\ timer[table[f]]
          /\ Registered(table[f]) \/ io[ioc[table[f]]] = [at |-> "release", conn |-> table[f], key |-> f]
      BY <2>1, EntryKept
    <3>2. CASE ioc[table[f]] = i
      <4>1. io[i] # [at |-> "release", conn |-> table[f], key |-> f]
        BY <1>1
      <4> QED
        BY <3>1, <3>2, <4>1
    <3>3. CASE ioc[table[f]] # i
      BY <1>6, <3>1, <3>3
    <3> QED
      BY <3>2, <3>3
  <2> QED
    BY <1>1, <1>2, <2>1 DEF TableKept, Registered
<1> QED
  BY <1>7, <1>8, <1>9, <1>11, <1>12, <1>13, <1>14, <1>15 DEF ClientInv

\* The connection is entered under its own descriptor, and its timer is started.
LEMMA InsertKeeps ==
  ASSUME ClientInv, status = "running", NEW i \in Iocs, Insert(i) PROVE ClientInv'
<1> DEFINE c == io[i].conn
           k == io[i].key
<1>1. /\ io[i].at = "insert" /\ table' = [table EXCEPT ![k] = c]
      /\ mutex' = IF mutex = IoThread(i) THEN Nobody ELSE mutex
      /\ state' = [state EXCEPT ![c] = "open"] /\ timer' = [timer EXCEPT ![c] = TRUE]
      /\ io' = [io EXCEPT ![i] = Idle]
      /\ UNCHANGED <<ioc, fd, pos, queue, biz, ref, kept, status, closes, loss>>
  BY DEF Insert, StartTimer, bizVars, histVars
<1>2. Types /\ TimerInv /\ FdInv /\ HandlerInv /\ LossInv /\ MutexInv /\ RefInv /\ TableKept /\ OnlyReleaseRaces
  BY DEF ClientInv
<1>3. io[i] \in Handlers
  BY <1>2 DEF Types
<1>4. c \in Conns /\ c # None /\ ioc[c] = i /\ state[c] = "connected" /\ k = fd[c]
  BY <1>1, <1>2, <1>3 DEF HandlerInv, Handlers
<1>5. k \in Fds /\ k # None /\ ~timer[c] /\ IsOpen(c)
  <2>1. IsOpen(c) /\ ~timer[c]
    BY <1>2, <1>4 DEF IsOpen, TimerInv
  <2>2. fd[c] # None /\ fd[c] \in Fds \cup {None}
    BY <1>2, <1>4, <2>1 DEF FdInv, Types
  <2> QED
    BY <1>4, <2>1, <2>2
<1>6. \A j \in Iocs : io[j].at # "idle" /\ j # i => io[j].conn \in Conns /\ io[j].conn # c
  BY <1>2, <1>4 DEF HandlerInv, Types, Handlers
<1> HIDE DEF c, k
<1>7. state'[c] = "open" /\ timer'[c] /\ \A d \in Conns \ {c} : state'[d] = state[d] /\ timer'[d] = timer[d]
  BY <1>1, <1>2, <1>4 DEF Types
<1>8. table'[k] = c /\ \A f \in Fds \ {k} : table'[f] = table[f]
  BY <1>1, <1>2, <1>5 DEF Types
<1>9. io'[i] = Idle /\ io'[i].at = "idle" /\ \A j \in Iocs \ {i} : io'[j] = io[j]
  BY <1>1, <1>2, ClientConstants DEF Types
<1>10. Types'
  <2>1. io' \in [Iocs -> Handlers]
    BY <1>1, <1>2, ClientConstants DEF Types
  <2>2. table' \in [Fds -> Conns \cup {None}]
    BY <1>1, <1>2, <1>4 DEF Types
  <2>3. timer' \in [Conns -> BOOLEAN]
    BY <1>1, <1>2 DEF Types
  <2> QED
    BY <1>1, <1>2, <2>1, <2>2, <2>3 DEF Types
<1>11. \A d \in Conns : timer[d] => timer'[d]
  BY <1>7
<1>12. TimerInv'
  <2>1. \A d \in Conns : state'[d] \in {"free", "connecting", "connected"} => ~timer'[d]
    BY <1>2, <1>7 DEF TimerInv
  <2>2. \A d \in Conns : Registered(d)' => timer'[d]
    BY <1>2, <1>7 DEF TimerInv, Registered
  <2>3. ASSUME NEW j \in Iocs, NEW n \in 1 .. Len(queue[j]) PROVE timer'[queue[j][n]]
    <3>1. queue[j] \in Seq(Conns)
      BY <1>2 DEF Types
    <3>2. queue[j][n] \in Conns
      BY <3>1
    <3> QED
      BY <1>2, <1>11, <3>2 DEF TimerInv
  <2>4. ASSUME NEW t \in Threads, kept[t] # None PROVE timer'[kept[t]]
    BY <1>2, <1>11, <2>4 DEF TimerInv, Types
  <2>5. ASSUME NEW f \in Fds, table'[f] # None PROVE timer'[table'[f]]
    <3>1. CASE f = k
      BY <1>7, <1>8, <3>1
    <3>2. CASE f # k
      <4>1. table'[f] = table[f] /\ table[f] # None
        BY <1>8, <2>5, <3>2
      <4>2. table[f] \in Conns /\ timer[table[f]]
        BY <4>1, EntryKept
      <4> QED
        BY <1>11, <4>1, <4>2
    <3> QED
      BY <3>1, <3>2
  <2> QED
    BY <1>1, <2>1, <2>2, <2>3, <2>4, <2>5 DEF TimerInv
<1>13. \A d \in Conns : IsOpen(d)' <=> IsOpen(d)
  BY <1>5, <1>7 DEF IsOpen
<1>14. FdInv'
  BY <1>1, <1>2, <1>13 DEF FdInv
<1>15. HandlerInv'
  <2> SUFFICES ASSUME NEW j \in Iocs
               PROVE  /\ io'[j].at = "idle" => io'[j] = Idle
                      /\ io'[j].at # "idle" => io'[j].conn # None /\ ioc[io'[j].conn] = j
                      /\ io'[j].at \in {"lock", "insert"} =>
                           state'[io'[j].conn] = "connected" /\ io'[j].key = fd[io'[j].conn]
                      /\ io'[j].at = "release" =>
                           state'[io'[j].conn] = "closed" /\ (timer'[io'[j].conn] => io'[j].key = fd[io'[j].conn])
    BY <1>1 DEF HandlerInv
  <2>1. CASE j = i
    BY <1>9, <2>1
  <2>2. CASE j # i
    BY <1>2, <1>6, <1>7, <1>9, <2>2 DEF HandlerInv
  <2> QED
    BY <2>1, <2>2
<1>16. \A j \in Iocs : io'[j].at # "idle" => j # i /\ io'[j] = io[j]
  BY <1>9
<1>17. LossInv'
  BY <1>1, <1>2, <1>13, <1>16 DEF LossInv
<1>18. MutexInv'
  <2>1. mutex = IoThread(i)
    BY <1>1, <1>2 DEF MutexInv
  <2>2. ASSUME NEW j \in Iocs, io'[j].at = "insert" PROVE FALSE
    <3>1. j # i /\ io[j].at = "insert"
      BY <1>16, <2>2
    <3> QED
      BY <1>2, <2>1, <3>1, ClientConstants DEF MutexInv
  <2>3. ASSUME NEW t \in Threads, biz[t] = "pick" PROVE FALSE
    BY <1>2, <2>1, <2>3, ClientConstants DEF MutexInv
  <2> QED
    BY <1>1, <2>2, <2>3 DEF MutexInv
<1>19. RefInv'
  <2>1. ASSUME NEW t \in Threads, ref[t] # None PROVE table'[ref[t]] # None
    <3>1. ref[t] \in Fds /\ table[ref[t]] # None
      BY <1>2, <2>1 DEF RefInv, Types
    <3> QED
      BY <1>4, <1>8, <3>1
  <2> QED
    BY <1>1, <1>2, <1>16, <2>1 DEF RefInv
<1>20. OnlyReleaseRaces'
  BY <1>1, <1>2 DEF OnlyReleaseRaces
<1>21. TableKept'
  <2>1. ASSUME NEW f \in Fds, table'[f] # None
        PROVE  /\ fd[table'[f]] = f
               /\ Registered(table[f])' \/ io'[ioc[table'[f]]] = [at |-> "release", conn |-> table'[f], key |-> f]
    <3>1. CASE f = k
      <4>1. table'[f] = c
        BY <1>8, <3>1
      <4> QED
        BY <1>4, <1>7, <3>1, <4>1 DEF Registered
    <3>2. CASE f # k
      <4>1. table'[f] = table[f] /\ table[f] # None
        BY <1>8, <2>1, <3>2
      <4>2. /\ table[f] \in Conns /\ fd[table[f]] = f /\ ioc[table[f]] \in Iocs
            /\ Registered(table[f]) \/ io[ioc[table[f]]] = [at |-> "release", conn |-> table[f], key |-> f]
        BY <4>1, EntryKept
      <4>3. table[f] # c
        BY <1>4, <3>2, <4>2
      <4>4. state'[table[f]] = state[table[f]]
        BY <1>7, <4>2, <4>3
      <4>5. io[i] # [at |-> "release", conn |-> table[f], key |-> f]
        BY <1>1
      <4>6. CASE ioc[table[f]] = i
        <5>1. Registered(table[f])
          BY <4>2, <4>5, <4>6
        <5> QED
          BY <4>1, <4>2, <4>4, <5>1 DEF Registered
      <4>7. CASE ioc[table[f]] # i
        <5>1. io'[ioc[table[f]]] = io[ioc[table[f]]]
          BY <1>9, <4>2, <4>7
        <5> QED
          BY <4>1, <4>2, <4>4, <5>1 DEF Registered
      <4> QED
        BY <4>6, <4>7
    <3> QED
      BY <3>1, <3>2
  <2>2. ASSUME ~loss, NEW d \in Conns, Registered(d)' PROVE table'[fd[d]] = d
    <3>1. CASE d = c
      BY <1>4, <1>8, <3>1
    <3>2. CASE d # c
      <4>1. Registered(d) /\ IsOpen(d)
        BY <1>7, <2>2, <3>2 DEF Registered, IsOpen
      <4>2. table[fd[d]] = d
        BY <1>2, <2>2, <4>1 DEF TableKept
      <4>3. fd[d] \in Fds /\ fd[d] # k
        BY <1>2, <1>4, <1>5, <3>2, <4>1 DEF FdInv, Types
      <4> QED
        BY <1>8, <4>2, <4>3
    <3> QED
      BY <3>1, <3>2
  <2> QED
    BY <1>1, <2>1, <2>2 DEF TableKept
<1> QED
  BY <1>10, <1>12, <1>14, <1>15, <1>17, <1>18, <1>19, <1>20, <1>21 DEF ClientInv

\* A posted write runs: a connection that is written to was entered before.
LEMMA WriteKeeps ==
  ASSUME ClientInv, NEW i \in Iocs, NEW c \in Conns, RunWrite(i, c) PROVE ClientInv'
<1>1. /\ Ready(i, c) /\ queue[i] # <<>> /\ Head(queue[i]) = c
      /\ queue' = [queue EXCEPT ![i] = Tail(queue[i])]
      /\ state' = [state EXCEPT ![c] = IF IsOpen(c) THEN "active" ELSE state[c]]
      /\ UNCHANGED <<ioc, fd, timer, table, pos, io, biz, ref, kept, mutex, status, closes, loss>>
  BY DEF RunWrite, bizVars, histVars
<1>2. Types /\ TimerInv /\ FdInv /\ HandlerInv /\ LossInv /\ MutexInv /\ RefInv /\ TableKept /\ OnlyReleaseRaces
  BY DEF ClientInv
<1>3. queue[i] \in Seq(Conns) /\ \A n \in 1 .. Len(queue[i]) : timer[queue[i][n]]
  BY <1>2 DEF Types, TimerInv
<1>4. timer[c]
  <2>1. 1 \in 1 .. Len(queue[i]) /\ c = queue[i][1]
    BY <1>1, <1>3
  <2> QED
    BY <1>3, <2>1
<1>5. state[c] \in {"open", "active", "closed"}
  BY <1>2, <1>4 DEF TimerInv, Types
<1>6. /\ \A d \in Conns \ {c} : state'[d] = state[d]
      /\ state[c] = "closed" => state'[c] = "closed"
      /\ state[c] \in {"open", "active"} => state'[c] = "active"
  BY <1>1, <1>2, <1>5 DEF Types, IsOpen
<1>7. \A d \in Conns : (IsOpen(d)' <=> IsOpen(d)) /\ (Registered(d)' <=> Registered(d))
  BY <1>5, <1>6 DEF IsOpen, Registered
<1>8. Tail(queue[i]) \in Seq(Conns) /\ \A n \in 1 .. Len(Tail(queue[i])) : timer[Tail(queue[i])[n]]
  <2>1. /\ Tail(queue[i]) \in Seq(Conns) /\ Len(Tail(queue[i])) = Len(queue[i]) - 1
        /\ \A n \in 1 .. Len(Tail(queue[i])) : Tail(queue[i])[n] = queue[i][n + 1]
    BY <1>1, <1>3, HeadTailProperties
  <2>2. \A n \in 1 .. Len(queue[i]) - 1 : n + 1 \in 1 .. Len(queue[i])
    BY <1>3
  <2> QED
    BY <1>3, <2>1, <2>2
<1>9. Types'
  <2>1. queue' \in [Iocs -> Seq(Conns)]
    BY <1>1, <1>2, <1>8 DEF Types
  <2>2. state' \in [Conns -> {"free", "connecting", "connected", "open", "active", "closed"}]
    BY <1>1, <1>2 DEF Types
  <2> QED
    BY <1>1, <1>2, <2>1, <2>2 DEF Types
<1>10. TimerInv'
  <2>1. \A d \in Conns : state'[d] \in {"free", "connecting", "connected"} => ~timer[d]
    BY <1>2, <1>5, <1>6 DEF TimerInv
  <2>2. \A j \in Iocs : \A n \in 1 .. Len(queue'[j]) : timer[queue'[j][n]]
    BY <1>1, <1>2, <1>8 DEF TimerInv, Types
  <2> QED
    BY <1>1, <1>2, <1>7, <2>1, <2>2 DEF TimerInv
<1>11. FdInv' /\ LossInv'
  BY <1>1, <1>2, <1>7 DEF FdInv, LossInv
<1>12. HandlerInv'
  <2>1. \A j \in Iocs : io[j].at # "idle" => io[j].conn \in Conns /\ io[j].conn # c
    BY <1>1, NotHandled
  <2> QED
    BY <1>1, <1>2, <1>6, <2>1 DEF HandlerInv
<1>13. MutexInv' /\ RefInv'
  BY <1>1, <1>2, MutexSame, RefSame
<1>14. OnlyReleaseRaces'
  BY <1>1, <1>2 DEF OnlyReleaseRaces
<1>15. TableKept'
  <2>1. ASSUME NEW f \in Fds, table[f] # None
        PROVE  /\ fd[table[f]] = f
               /\ Registered(table[f])' \/ io[ioc[table[f]]] = [at |-> "release", conn |-> table[f], key |-> f]
    <3>1. /\ table[f] \in Conns /\ fd[table[f]] = f
          /\ Registered(table[f]) \/ io[ioc[table[f]]] = [at |-> "release", conn |-> table[f], key |-> f]
      BY <2>1, EntryKept
    <3>2. Registered(table[f]) => state'[table[f]] \in {"open", "active"}
      BY <1>6, <3>1 DEF Registered
    <3> QED
      BY <1>1, <3>1, <3>2 DEF Registered
  <2>2. ASSUME ~loss, NEW d \in Conns, Registered(d)' PROVE table[fd[d]] = d
    <3>1. Registered(d)
      BY <1>7, <2>2
    <3> QED
      BY <1>2, <2>2, <3>1 DEF TableKept
  <2> QED
    BY <1>1, <2>1, <2>2 DEF TableKept
<1> QED
  BY <1>9, <1>10, <1>11, <1>12, <1>13, <1>14, <1>15 DEF ClientInv

\* A release erases its own entry, if it has one; others only where something is lost.
LEMMA ReleaseKeeps ==
  ASSUME ClientInv, status = "running", NEW i \in Iocs, Release(i) PROVE ClientInv'
<1> DEFINE c == io[i].conn
           k == io[i].key
<1>1. /\ io[i].at = "release"
      /\ table' = [f \in Fds |-> IF f = k THEN None ELSE table[f]]
      /\ ref' = [t \in Threads |-> IF ref[t] = k THEN None ELSE ref[t]]
      /\ state' = [state EXCEPT ![c] = IF timer[c] THEN state[c] ELSE "free"]
      /\ fd' = [fd EXCEPT ![c] = None]
      /\ ioc' = [ioc EXCEPT ![c] = IF timer[c] THEN ioc[c] ELSE 0]
      /\ io' = [io EXCEPT ![i] = Idle]
      /\ UNCHANGED <<timer, mutex, pos, queue, biz, kept, status, closes, loss>>
  BY DEF Release, histVars
<1>2. Types /\ TimerInv /\ FdInv /\ HandlerInv /\ LossInv /\ MutexInv /\ RefInv /\ TableKept /\ OnlyReleaseRaces
  BY DEF ClientInv
<1>3. io[i] \in Handlers
  BY <1>2 DEF Types
<1>4. c \in Conns /\ c # None /\ ioc[c] = i /\ state[c] = "closed" /\ (timer[c] => k = fd[c])
  BY <1>1, <1>2, <1>3 DEF HandlerInv, Handlers
<1>5. \A j \in Iocs : io[j].at # "idle" /\ j # i => io[j].conn \in Conns /\ io[j].conn # c
  BY <1>2, <1>4 DEF HandlerInv, Types, Handlers
<1>6. closes
  BY <1>1, <1>2 DEF RefInv
<1>7. \A d \in Conns : IsOpen(d) /\ ~loss => fd[d] # k
  <2>1. CASE k = None
    BY <1>2, <2>1 DEF FdInv
  <2>2. CASE k # None
    BY <1>1, <1>2, <2>2 DEF LossInv
  <2> QED
    BY <2>1, <2>2
<1>8. io[i].conn = c
  OBVIOUS
<1> HIDE DEF c, k
<1>9. /\ state'[c] = IF timer[c] THEN "closed" ELSE "free"
      /\ \A d \in Conns \ {c} : state'[d] = state[d] /\ fd'[d] = fd[d] /\ ioc'[d] = ioc[d]
  BY <1>1, <1>2, <1>4 DEF Types
<1>10. io'[i] = Idle /\ io'[i].at = "idle" /\ \A j \in Iocs \ {i} : io'[j] = io[j]
  BY <1>1, <1>2, ClientConstants DEF Types
<1>11. Types'
  <2>1. io' \in [Iocs -> Handlers]
    BY <1>1, <1>2, ClientConstants DEF Types
  <2>2. table' \in [Fds -> Conns \cup {None}]
    BY <1>1, <1>2 DEF Types
  <2>3. ref' \in [Threads -> Fds \cup {None}]
    BY <1>1, <1>2 DEF Types
  <2>4. fd' \in [Conns -> Fds \cup {None}] /\ ioc' \in [Conns -> Iocs]
    BY <1>1, <1>2, ClientConstants DEF Types
  <2>5. state' \in [Conns -> {"free", "connecting", "connected", "open", "active", "closed"}]
    BY <1>1, <1>2 DEF Types
  <2> QED
    BY <1>1, <1>2, <2>1, <2>2, <2>3, <2>4, <2>5 DEF Types
<1>12. TimerInv'
  <2>1. \A d \in Conns : state'[d] \in {"free", "connecting", "connected"} => ~timer[d]
    BY <1>2, <1>9 DEF TimerInv
  <2>2. \A d \in Conns : state'[d] \in {"open", "active"} => timer[d]
    BY <1>2, <1>9 DEF TimerInv, Registered
  <2>3. \A f \in Fds : table'[f] # None => timer[table'[f]]
    BY <1>1, <1>2 DEF TimerInv
  <2> QED
    BY <1>1, <1>2, <2>1, <2>2, <2>3 DEF TimerInv, Registered
<1>13. \A d \in Conns : IsOpen(d)' => d # c /\ IsOpen(d)
  BY <1>9 DEF IsOpen
<1>14. FdInv'
  BY <1>2, <1>9, <1>13 DEF FdInv
<1>15. HandlerInv'
  <2> SUFFICES ASSUME NEW j \in Iocs
               PROVE  /\ io'[j].at = "idle" => io'[j] = Idle
                      /\ io'[j].at # "idle" => io'[j].conn # None /\ ioc'[io'[j].conn] = j
                      /\ io'[j].at \in {"lock", "insert"} =>
                           state'[io'[j].conn] = "connected" /\ io'[j].key = fd'[io'[j].conn]
                      /\ io'[j].at = "release" =>
                           state'[io'[j].conn] = "closed" /\ (timer[io'[j].conn] => io'[j].key = fd'[io'[j].conn])
    BY <1>1 DEF HandlerInv
  <2>1. CASE j = i
    BY <1>10, <2>1
  <2>2. CASE j # i
    BY <1>2, <1>5, <1>9, <1>10, <2>2 DEF HandlerInv
  <2> QED
    BY <2>1, <2>2
<1>16. \A j \in Iocs : io'[j].at # "idle" => j # i /\ io'[j] = io[j]
  BY <1>10
<1>17. LossInv'
  <2> SUFFICES ASSUME ~loss, NEW j \in Iocs, io'[j].at = "release", io'[j].key # None,
                      NEW d \in Conns, IsOpen(d)'
               PROVE  fd'[d] # io'[j].key
    BY <1>1 DEF LossInv
  <2>1. d # c /\ IsOpen(d) /\ fd'[d] = fd[d] /\ io'[j] = io[j]
    BY <1>9, <1>13, <1>16
  <2> QED
    BY <1>2, <2>1 DEF LossInv
<1>18. MutexInv'
  BY <1>1, <1>2, <1>16 DEF MutexInv
<1>19. RefInv'
  <2>1. ASSUME NEW t \in Threads, ref'[t] # None PROVE table'[ref'[t]] # None
    <3>1. ref'[t] = ref[t] /\ ref[t] # k
      BY <1>1, <2>1
    <3>2. ref[t] \in Fds /\ table[ref[t]] # None
      BY <1>2, <2>1, <3>1 DEF RefInv, Types
    <3> QED
      BY <1>1, <3>1, <3>2
  <2> QED
    BY <1>1, <1>2, <1>6, <2>1 DEF RefInv
<1>20. OnlyReleaseRaces'
  BY <1>1, <1>2 DEF OnlyReleaseRaces
<1>21. TableKept'
  <2>1. ASSUME NEW f \in Fds, table'[f] # None
        PROVE  /\ fd'[table'[f]] = f
               /\ Registered(table[f])' \/ io'[ioc'[table'[f]]] = [at |-> "release", conn |-> table'[f], key |-> f]
    <3>1. f # k /\ table'[f] = table[f] /\ table[f] # None
      BY <1>1, <2>1
    <3>2. /\ table[f] \in Conns /\ fd[table[f]] = f /\ ioc[table[f]] \in Iocs /\ timer[table[f]]
          /\ Registered(table[f]) \/ io[ioc[table[f]]] = [at |-> "release", conn |-> table[f], key |-> f]
      BY <3>1, EntryKept
    <3>3. table[f] # c
      BY <1>4, <3>1, <3>2
    <3>4. state'[table[f]] = state[table[f]] /\ fd'[table[f]] = fd[table[f]] /\ ioc'[table[f]] = ioc[table[f]]
      BY <1>9, <3>2, <3>3
    <3>5. io[i] # [at |-> "release", conn |-> table[f], key |-> f]
      BY <1>8, <3>3
    <3>6. CASE ioc[table[f]] = i
      <4>1. Registered(table[f])
        BY <3>2, <3>5, <3>6
      <4> QED
        BY <3>1, <3>2, <3>4, <4>1 DEF Registered
    <3>7. CASE ioc[table[f]] # i
      <4>1. io'[ioc[table[f]]] = io[ioc[table[f]]]
        BY <1>10, <3>2, <3>7
      <4> QED
        BY <3>1, <3>2, <3>4, <4>1 DEF Registered
    <3> QED
      BY <3>6, <3>7
  <2>2. ASSUME ~loss, NEW d \in Conns, Registered(d)' PROVE table'[fd'[d]] = d
    <3>1. d # c /\ IsOpen(d) /\ fd'[d] = fd[d] /\ Registered(d)
      BY <1>9, <2>2 DEF Registered, IsOpen
    <3>2. fd[d] \in Fds /\ fd[d] # k
      BY <1>2, <1>7, <2>2, <3>1 DEF FdInv, Types
    <3>3. table[fd[d]] = d
      BY <1>2, <2>2, <3>1 DEF TableKept
    <3> QED
      BY <1>1, <3>1, <3>2, <3>3
  <2> QED
    BY <1>1, <2>1, <2>2 DEF TableKept
<1> QED
  BY <1>11, <1>12, <1>14, <1>15, <1>17, <1>18, <1>19, <1>20, <1>21 DEF ClientInv

-----------------------------------------------------------------------------
(* The business threads.                                                     *)

\* A thread looks at its weak_ptr, and asks for a connection if that has none.
LEMMA AskKeeps ==
  ASSUME ClientInv, NEW t \in Threads, Ask(t) PROVE ClientInv'
<1>1. /\ biz' = [biz EXCEPT ![t] = IF kept[t] = None THEN "lock" ELSE "send"]
      /\ UNCHANGED <<state, ioc, fd, timer, table, pos, queue, io, ref, kept, mutex, status, closes, loss>>
  BY DEF Ask, BizGoto, connVars, histVars
<1>2. Types /\ TimerInv /\ MutexInv /\ RefInv /\ OnlyReleaseRaces
  BY DEF ClientInv
<1>3. FdInv' /\ HandlerInv' /\ LossInv' /\ TableKept' /\ TimerInv'
  BY <1>1, <1>2, FdSame, HandlerSame, LossSame, TableSame, TimerSame DEF ClientInv
<1>4. Types'
  BY <1>1, <1>2 DEF Types
<1>5. MutexInv'
  BY <1>1, <1>2 DEF MutexInv, Types
<1>6. RefInv' /\ OnlyReleaseRaces'
  BY <1>1, <1>2 DEF RefInv, OnlyReleaseRaces, Types
<1> QED
  BY <1>3, <1>4, <1>5, <1>6 DEF ClientInv

\* The mutex is taken to look for a connection.
LEMMA LockPickKeeps ==
  ASSUME ClientInv, NEW t \in Threads, LockPick(t) PROVE ClientInv'
<1>1. /\ biz' = [biz EXCEPT ![t] = "pick"] /\ mutex = Nobody /\ mutex' = BizThread(t)
      /\ UNCHANGED <<state, ioc, fd, timer, table, pos, queue, io, ref, kept, status, closes, loss>>
  BY DEF LockPick, BizGoto, connVars, histVars
<1>2. Types /\ TimerInv /\ MutexInv /\ RefInv /\ OnlyReleaseRaces
  BY DEF ClientInv
<1>3. FdInv' /\ HandlerInv' /\ LossInv' /\ TableKept' /\ TimerInv'
  BY <1>1, <1>2, FdSame, HandlerSame, LossSame, TableSame, TimerSame DEF ClientInv
<1>4. Types'
  BY <1>1, <1>2 DEF Types
<1>5. MutexInv'
  BY <1>1, <1>2, ClientConstants DEF MutexInv, Types
<1>6. RefInv' /\ OnlyReleaseRaces'
  BY <1>1, <1>2 DEF RefInv, OnlyReleaseRaces, Types
<1> QED
  BY <1>3, <1>4, <1>5, <1>6 DEF ClientInv

\* get_conn returns a reference to an entry, or there is none.
LEMMA PickKeeps ==
  ASSUME ClientInv, status = "running", NEW t \in Threads, Pick(t) PROVE ClientInv'
<1>1. /\ biz[t] = "pick" /\ mutex' = Nobody
      /\ UNCHANGED <<state, ioc, fd, timer, table, pos, queue, io, kept, closes, loss>>
  BY DEF Pick, connVars, histVars
<1>2. Types /\ TimerInv /\ MutexInv /\ RefInv /\ OnlyReleaseRaces
  BY DEF ClientInv
<1>3. FdInv' /\ HandlerInv' /\ LossInv' /\ TableKept' /\ TimerInv'
  BY <1>1, <1>2, FdSame, HandlerSame, LossSame, TableSame, TimerSame DEF ClientInv
<1>4. CASE \E f \in Fds : table[f] # None /\ ref' = [ref EXCEPT ![t] = f] /\ BizGoto(t, "copy") /\ UNCHANGED status
  <2>1. PICK f \in Fds : table[f] # None /\ ref' = [ref EXCEPT ![t] = f]
    BY <1>4
  <2>2. biz' = [biz EXCEPT ![t] = "copy"] /\ status' = status
    BY <1>4 DEF BizGoto
  <2>3. Types'
    BY <1>1, <1>2, <2>1, <2>2 DEF Types
  <2>4. MutexInv'
    <3>1. mutex = BizThread(t)
      BY <1>1, <1>2 DEF MutexInv
    <3>2. \A j \in Iocs : io[j].at # "insert"
      BY <1>2, <3>1, ClientConstants DEF MutexInv
    <3>3. \A u \in Threads : biz'[u] # "pick"
      BY <1>2, <2>2, <3>1, ClientConstants DEF MutexInv, Types
    <3> QED
      BY <1>1, <3>2, <3>3 DEF MutexInv
  <2>5. RefInv'
    <3>1. f # None
      BY ClientConstants
    <3> QED
      BY <1>1, <1>2, <2>1, <2>2, <3>1 DEF RefInv, Types
  <2>6. OnlyReleaseRaces'
    BY <1>1, <1>2, <2>2 DEF OnlyReleaseRaces
  <2> QED
    BY <1>3, <2>3, <2>4, <2>5, <2>6 DEF ClientInv
<1>5. CASE status' = "empty" /\ UNCHANGED <<biz, ref>>
  <2>1. Types' /\ RefInv'
    BY <1>1, <1>2, <1>5, TypesSame, RefSame
  <2>2. MutexInv' /\ OnlyReleaseRaces'
    BY <1>5 DEF MutexInv, OnlyReleaseRaces
  <2> QED
    BY <1>3, <2>1, <2>2 DEF ClientInv
<1> QED
  BY <1>4, <1>5 DEF Pick

\* The reference is used; it dangles only after a release.
LEMMA CopyKeeps ==
  ASSUME ClientInv, status = "running", NEW t \in Threads, Copy(t) PROVE ClientInv'
<1>1. /\ biz[t] = "copy" /\ ref' = [ref EXCEPT ![t] = None]
      /\ UNCHANGED <<state, ioc, fd, timer, table, pos, queue, io, mutex, closes, loss>>
  BY DEF Copy, connVars, histVars
<1>2. Types /\ TimerInv /\ MutexInv /\ RefInv /\ OnlyReleaseRaces
  BY DEF ClientInv
<1>3. FdInv' /\ HandlerInv' /\ LossInv' /\ TableKept'
  BY <1>1, <1>2, FdSame, HandlerSame, LossSame, TableSame DEF ClientInv
<1>4. CASE ref[t] = None
  <2>1. status' = "dangling" /\ biz' = biz /\ kept' = kept
    BY <1>4 DEF Copy
  <2>2. closes
    BY <1>1, <1>2, <1>4 DEF RefInv
  <2>3. Types'
    BY <1>1, <1>2, <2>1 DEF Types
  <2>4. TimerInv'
    BY <1>1, <1>2, <2>1, TimerSame
  <2>5. RefInv'
    BY <1>1, <1>2, <2>1, <2>2 DEF RefInv, Types
  <2>6. MutexInv' /\ OnlyReleaseRaces'
    BY <1>1, <2>1, <2>2 DEF MutexInv, OnlyReleaseRaces
  <2> QED
    BY <1>3, <2>3, <2>4, <2>5, <2>6 DEF ClientInv
<1>5. CASE ref[t] # None
  <2>1. kept' = [kept EXCEPT ![t] = table[ref[t]]] /\ biz' = [biz EXCEPT ![t] = "send"] /\ status' = status
    BY <1>5 DEF Copy, BizGoto
  <2>2. ref[t] \in Fds /\ table[ref[t]] # None
    BY <1>2, <1>5 DEF RefInv, Types
  <2>3. table[ref[t]] \in Conns /\ timer[table[ref[t]]]
    BY <2>2, EntryKept
  <2>4. Types'
    <3>1. kept' \in [Threads -> Conns \cup {None}]
      BY <1>2, <2>1, <2>3 DEF Types
    <3> QED
      BY <1>1, <1>2, <2>1, <3>1 DEF Types
  <2>5. kept'[t] = table[ref[t]] /\ \A u \in Threads \ {t} : kept'[u] = kept[u]
    BY <1>2, <2>1 DEF Types
  <2>6. \A u \in Threads : kept'[u] # None => timer[kept'[u]]
    BY <1>2, <2>3, <2>5 DEF TimerInv
  <2>7. TimerInv'
    BY <1>1, <1>2, <2>6 DEF TimerInv, Registered
  <2>8. MutexInv'
    BY <1>1, <1>2, <2>1 DEF MutexInv, Types
  <2>9. RefInv'
    BY <1>1, <1>2, <2>1, <2>2, <2>5 DEF RefInv, Types
  <2>10. OnlyReleaseRaces'
    BY <1>1, <1>2, <2>1 DEF OnlyReleaseRaces
  <2> QED
    BY <1>3, <2>4, <2>7, <2>8, <2>9, <2>10 DEF ClientInv
<1> QED
  BY <1>4, <1>5

\* A request is posted to the connection of the weak_ptr.
LEMMA SendKeeps ==
  ASSUME ClientInv, NEW t \in Threads, Send(t) PROVE ClientInv'
<1>1. /\ biz[t] = "send" /\ Post(kept[t]) /\ biz' = [biz EXCEPT ![t] = "idle"]
      /\ UNCHANGED <<state, ioc, fd, timer, table, pos, io, ref, kept, mutex, status, closes, loss>>
  BY DEF Send, BizGoto, connVars, histVars
<1>2. kept[t] \in Conns /\ timer[kept[t]]
  BY <1>1 DEF ClientInv, RefInv, TimerInv, Types
<1>3. /\ biz' \in [Threads -> {"idle", "lock", "pick", "copy", "send"}]
      /\ \A u \in Threads : biz'[u] # biz[u] => biz'[u] = "idle"
  BY <1>1 DEF ClientInv, Types
<1> QED
  BY <1>1, <1>2, <1>3, PostKeeps

\* Two threads are in the table at once only if one of them releases.
LEMMA RaceKeeps ==
  ASSUME ClientInv, status = "running", Race PROVE ClientInv'
<1>1. /\ status' = "race"
      /\ UNCHANGED <<state, ioc, fd, timer, table, pos, queue, io, biz, ref, kept, mutex, closes, loss>>
  BY DEF Race, connVars, bizVars, histVars
<1>2. Types /\ TimerInv /\ FdInv /\ HandlerInv /\ MutexInv /\ RefInv
  BY DEF ClientInv
<1>3. Types' /\ TimerInv' /\ FdInv' /\ HandlerInv' /\ LossInv' /\ RefInv' /\ TableKept'
  BY <1>1, TypesSame, TimerSame, FdSame, HandlerSame, LossSame, RefSame, TableSame DEF ClientInv
<1>4. MutexInv'
  BY <1>1 DEF MutexInv
<1>5. \E i \in Iocs : io[i].at = "release"
  <2> SUFFICES ASSUME \A i \in Iocs : io[i].at # "release" PROVE FALSE
    OBVIOUS
  <2>1. \A i \in Iocs : io[i].at # "release" /\ (Writing(i) => mutex = IoThread(i) /\ io[i].at = "insert")
    BY <1>2 DEF Writing, MutexInv
  <2>2. PICK i \in Iocs, t \in Threads : Writing(i) /\ (biz[t] = "pick" \/ (biz[t] = "copy" /\ ref[t] = io[i].key))
    BY <2>1, ClientConstants DEF Race
  <2>3. biz[t] # "pick"
    BY <1>2, <2>1, <2>2, ClientConstants DEF MutexInv
  <2>4. io[i] \in Handlers
    BY <1>2 DEF Types
  <2>5. io[i].conn \in Conns /\ state[io[i].conn] = "connected" /\ ref[t] = fd[io[i].conn]
    BY <1>2, <2>1, <2>2, <2>3, <2>4 DEF HandlerInv, Handlers
  <2>6. IsOpen(io[i].conn) /\ ref[t] # None
    BY <1>2, <2>5 DEF FdInv, IsOpen
  <2>7. ref[t] \in Fds /\ table[ref[t]] # None
    BY <1>2, <2>6 DEF RefInv, Types
  <2> DEFINE d == table[ref[t]]
  <2>8. /\ d \in Conns /\ fd[d] = ref[t] /\ ioc[d] \in Iocs
        /\ Registered(d) \/ io[ioc[d]] = [at |-> "release", conn |-> d, key |-> ref[t]]
    BY <2>7, EntryKept
  <2> HIDE DEF d
  <2>9. Registered(d)
    BY <2>1, <2>8
  <2>10. d = io[i].conn
    BY <1>2, <2>5, <2>6, <2>8, <2>9 DEF FdInv, IsOpen, Registered
  <2> QED
    BY <2>5, <2>9, <2>10 DEF Registered
<1>6. OnlyReleaseRaces'
  BY <1>1, <1>5 DEF OnlyReleaseRaces
<1> QED
  BY <1>3, <1>4, <1>6 DEF ClientInv

-----------------------------------------------------------------------------
(* Every step, and the theorems.                                             *)

\* A step keeps the invariant.
LEMMA NextClient == ClientInv /\ [Next]_vars => ClientInv'
<1> SUFFICES ASSUME ClientInv, [Next]_vars PROVE ClientInv'
  OBVIOUS
<1>1. CASE status = "running" /\ Reconnect
  BY <1>1, ReconnectKeeps
<1>2. CASE \E s \in Servers : Connect(s)
  BY <1>2, ConnectKeeps
<1>3. CASE \E c \in Conns : Expire(c)
  BY <1>3, ExpireKeeps
<1>4. CASE status = "running" /\ \E i \in Iocs : RunIo(i)
  BY <1>4, LockInsertKeeps, InsertKeeps, ReleaseKeeps, WriteKeeps DEF RunIo
<1>5. CASE status = "running" /\ \E i \in Iocs : \E c \in Conns : Network(i, c)
  BY <1>5, EndKeeps, ConnectedKeeps DEF Network
<1>6. CASE status = "running" /\ \E t \in Threads : Ask(t) \/ RunBiz(t)
  BY <1>6, AskKeeps, LockPickKeeps, PickKeeps, CopyKeeps, SendKeeps DEF RunBiz
<1>7. CASE status = "running" /\ Race
  BY <1>7, RaceKeeps
<1>8. CASE Ended \/ UNCHANGED vars
  <2>1. UNCHANGED <<state, ioc, fd, timer, table, pos, queue, io, biz, ref, kept, mutex, status, closes, loss>>
    BY <1>8 DEF Ended, vars, connVars, bizVars, histVars
  <2>2. Types' /\ TimerInv' /\ FdInv' /\ HandlerInv' /\ LossInv' /\ MutexInv' /\ RefInv' /\ TableKept'
    BY <2>1, TypesSame, TimerSame, FdSame, HandlerSame, LossSame, MutexSame, RefSame, TableSame DEF ClientInv
  <2>3. OnlyReleaseRaces'
    BY <2>1 DEF ClientInv, OnlyReleaseRaces
  <2> QED
    BY <2>2, <2>3 DEF ClientInv
<1> QED
  BY <1>1, <1>2, <1>3, <1>4, <1>5, <1>6, <1>7, <1>8 DEF Next

\* The invariant holds throughout.
LEMMA ClientInvariant == SafeSpec => []ClientInv
BY InitClient, NextClient, PTL DEF SafeSpec

(* get_conn finds the connections that are there, whatever connects, failures, releases   *)
(* and descriptors used again come in between: each entry is an open connection under its  *)
(* own descriptor, or one whose close() is about to release it, and each open connection   *)
(* has its entry unless something was lost.                                                *)
THEOREM TableKeptHolds == SafeSpec => []TableKept
<1>1. ClientInv => TableKept
  BY DEF ClientInv
<1> QED
  BY <1>1, ClientInvariant, PTL

(* m_manager_mutex is enough for all but release(): two threads are in m_conn_manager at   *)
(* once only while one of them is in release(), before and after any number of closes, and *)
(* what get_conn returned stays valid as long as no connection is closed.                  *)
THEOREM OnlyReleaseRacesHolds == SafeSpec => []OnlyReleaseRaces
<1>1. ClientInv => OnlyReleaseRaces
  BY DEF ClientInv
<1> QED
  BY <1>1, ClientInvariant, PTL

-----------------------------------------------------------------------------
(* Pointers and the mutex.                                                   *)

Alive(c) == state[c] \in {"open", "active", "closed"}

(* Client::get_conn, the thread's weak_ptr and the closures posted by async_write: an     *)
(* entry of the table, a pointer that a business thread keeps and a posted write are       *)
(* never about a connection that was destroyed, or that was made again for another use;    *)
(* at worst it is closed.                                                                   *)
ReferredExist ==
  /\ \A f \in Fds : table[f] # None => Alive(table[f])
  /\ \A t \in Threads : kept[t] # None => Alive(kept[t])
  /\ \A i \in Iocs : \A n \in 1 .. Len(queue[i]) : Alive(queue[i][n])

\* While the keep-alive timer of a connection runs, its handler holds the connection.
LEMMA TimerAlive == ASSUME ClientInv, NEW c \in Conns, timer[c] PROVE Alive(c)
BY DEF ClientInv, Types, TimerInv, Alive

(* The keep-alive timer holds its connection for ever (client.cpp, repeattimer.h): what    *)
(* refers to a connection refers to one that exists, after a close() and a release() too.  *)
THEOREM ReferredExistHolds == SafeSpec => []ReferredExist
<1>1. ClientInv => ReferredExist
  <2> SUFFICES ASSUME ClientInv PROVE ReferredExist
    OBVIOUS
  <2>1. ASSUME NEW f \in Fds, table[f] # None PROVE Alive(table[f])
    <3>1. table[f] \in Conns /\ timer[table[f]]
      BY <2>1 DEF ClientInv, Types, TimerInv
    <3> QED
      BY <3>1, TimerAlive
  <2>2. ASSUME NEW t \in Threads, kept[t] # None PROVE Alive(kept[t])
    <3>1. kept[t] \in Conns /\ timer[kept[t]]
      BY <2>2 DEF ClientInv, Types, TimerInv
    <3> QED
      BY <3>1, TimerAlive
  <2>3. ASSUME NEW i \in Iocs, NEW n \in 1 .. Len(queue[i]) PROVE Alive(queue[i][n])
    <3>1. queue[i] \in Seq(Conns)
      BY DEF ClientInv, Types
    <3>2. queue[i][n] \in Conns
      BY <3>1
    <3>3. timer[queue[i][n]]
      BY DEF ClientInv, TimerInv
    <3> QED
      BY <3>2, <3>3, TimerAlive
  <2> QED
    BY <2>1, <2>2, <2>3 DEF ReferredExist
<1> QED
  BY <1>1, ClientInvariant, PTL

(* m_manager_mutex: while the program runs, an I/O thread or a business thread holds it     *)
(* exactly when it is in its critical section, from which nothing it waits for keeps it,    *)
(* and the reconnect timer's handler holds it only while it has connects to start.          *)
MutexExact ==
  status = "running" =>
    /\ \A i \in Iocs : mutex = IoThread(i) <=> io[i].at = "insert"
    /\ \A t \in Threads : mutex = BizThread(t) <=> biz[t] = "pick"
    /\ mutex = Connector => \E s \in Servers : todo[s] > 0
    /\ mutex \in {Nobody, Connector} \cup {IoThread(i) : i \in Iocs} \cup {BizThread(t) : t \in Threads}

\* What it adds to MutexInv.
HolderInv ==
  /\ todo \in [Servers -> Nat]
  /\ mutex \in {Nobody, Connector} \cup {IoThread(i) : i \in Iocs} \cup {BizThread(t) : t \in Threads}
  /\ status = "running" =>
       /\ \A i \in Iocs : mutex = IoThread(i) => io[i].at = "insert"
       /\ \A t \in Threads : mutex = BizThread(t) => biz[t] = "pick"
       /\ mutex = Connector => \E s \in Servers : todo[s] > 0

\* A step that leaves the mutex and whoever holds it alone.
LEMMA HolderSame ==
  ASSUME HolderInv, UNCHANGED <<mutex, todo>>, status' = "running" => status = "running",
         \A i \in Iocs : io[i].at = "insert" => io'[i].at = "insert",
         \A t \in Threads : biz[t] = "pick" => biz'[t] = "pick"
  PROVE  HolderInv'
BY DEF HolderInv

\* A step that ends with the mutex free.
LEMMA HolderNobody ==
  ASSUME HolderInv, mutex' = Nobody, todo' = todo PROVE HolderInv'
BY ClientConstants DEF HolderInv

\* The connector thread takes the mutex for connects, and gives it back after the last one.
LEMMA ConnectorHolder ==
  ASSUME ClientInv, HolderInv, Reconnect \/ \E s \in Servers : Connect(s) PROVE HolderInv'
<1>0. UNCHANGED <<io, biz, status>>
  BY DEF Reconnect, Connect, bizVars
<1>1. CASE Reconnect
  <2>1. mutex' = Connector /\ todo' = [s \in Servers |-> IF Lacks(s) THEN PerConn ELSE 0]
    BY <1>1 DEF Reconnect
  <2>2. PICK s \in Servers : Lacks(s)
    BY <1>1 DEF Reconnect
  <2>3. PerConn \in Nat \ {0}
    BY ClientAssumption
  <2>4. todo' \in [Servers -> Nat] /\ todo'[s] > 0
    BY <2>1, <2>2, <2>3
  <2> QED
    BY <2>1, <2>4, ClientConstants DEF HolderInv
<1>2. ASSUME NEW s \in Servers, Connect(s) PROVE HolderInv'
  <2>1. /\ todo[s] > 0 /\ todo' = [todo EXCEPT ![s] = @ - 1]
        /\ mutex' = IF \A r \in Servers : todo'[r] = 0 /\ mutex = Connector THEN Nobody ELSE mutex
    BY <1>2 DEF Connect
  <2>2. todo' \in [Servers -> Nat]
    <3>1. todo \in [Servers -> Nat] /\ todo[s] \in Nat /\ todo[s] - 1 \in Nat
      BY <2>1 DEF HolderInv
    <3> QED
      BY <2>1, <3>1
  <2>3. CASE mutex = Connector
    <3>1. CASE \A r \in Servers : todo'[r] = 0
      <4>1. mutex' = Nobody
        BY <2>1, <2>3, <3>1
      <4> QED
        BY <2>2, <4>1, ClientConstants DEF HolderInv
    <3>2. CASE \E r \in Servers : todo'[r] # 0
      <4>1. mutex' = Connector /\ \E r \in Servers : todo'[r] > 0
        <5>1. mutex' = Connector
          BY <2>1, <2>3, <3>2
        <5> QED
          BY <2>2, <3>2, <5>1
      <4> QED
        BY <2>2, <4>1, ClientConstants DEF HolderInv
    <3> QED
      BY <3>1, <3>2
  <2>4. CASE mutex # Connector
    <3>1. mutex' = mutex
      BY <2>1, <2>4
    <3> QED
      BY <1>0, <2>2, <2>4, <3>1 DEF HolderInv
  <2> QED
    BY <2>3, <2>4
<1> QED
  BY <1>1, <1>2

\* handle_connect takes the mutex and gives it back.
LEMMA InsertHolder ==
  ASSUME ClientInv, HolderInv, NEW i \in Iocs, LockInsert(i) \/ Insert(i) PROVE HolderInv'
<1>0. UNCHANGED <<biz, status, todo>> /\ io \in [Iocs -> Handlers]
  BY DEF LockInsert, Insert, bizVars, ClientInv, Types
<1>1. CASE LockInsert(i)
  <2> DEFINE h == [at |-> "insert", conn |-> io[i].conn, key |-> io[i].key]
  <2>1. mutex' = IoThread(i) /\ io' = [io EXCEPT ![i] = h] /\ h.at = "insert"
    BY <1>1 DEF LockInsert, Goto
  <2> HIDE DEF h
  <2>2. io'[i].at = "insert"
    BY <1>0, <2>1
  <2> QED
    BY <1>0, <2>1, <2>2, ClientConstants DEF HolderInv
<1>2. CASE Insert(i)
  <2>1. io' = [io EXCEPT ![i] = Idle] /\ mutex' = IF mutex = IoThread(i) THEN Nobody ELSE mutex
    BY <1>2 DEF Insert
  <2>2. CASE mutex = IoThread(i)
    BY <1>0, <2>1, <2>2, HolderNobody
  <2>3. CASE mutex # IoThread(i)
    <3>1. mutex' = mutex /\ \A j \in Iocs : j # i => io'[j] = io[j]
      BY <1>0, <2>1, <2>3
    <3> QED
      BY <1>0, <2>3, <3>1 DEF HolderInv
  <2> QED
    BY <2>2, <2>3
<1> QED
  BY <1>1, <1>2

\* The other handlers of the I/O threads.
LEMMA IoHolder ==
  ASSUME ClientInv, HolderInv, status = "running", NEW i \in Iocs,
         Release(i) \/ \E c \in Conns : Network(i, c) \/ RunWrite(i, c)
  PROVE  HolderInv'
<1>1. UNCHANGED <<mutex, todo, biz>> /\ io \in [Iocs -> Handlers]
  BY DEF Release, Network, RunRefused, RunConnected, RunEnd, RunWrite, bizVars, ClientInv, Types
<1>2. \/ io' = io
      \/ io[i].at # "insert" /\ \E h : io' = [io EXCEPT ![i] = h]
  BY ClientConstants DEF Release, Network, RunRefused, RunConnected, RunEnd, RunWrite, Ready, Goto
<1>3. \A j \in Iocs : io[j].at = "insert" => io'[j].at = "insert"
  BY <1>1, <1>2
<1> QED
  BY <1>1, <1>3, HolderSame

\* The business threads.
LEMMA BizHolder ==
  ASSUME ClientInv, HolderInv, NEW t \in Threads, Ask(t) \/ RunBiz(t) PROVE HolderInv'
<1>0. UNCHANGED <<io, todo>> /\ biz \in [Threads -> {"idle", "lock", "pick", "copy", "send"}]
  BY DEF Ask, RunBiz, LockPick, Pick, Copy, Send, ClientInv, Types
<1>1. CASE LockPick(t)
  <2>1. mutex' = BizThread(t) /\ biz'[t] = "pick" /\ UNCHANGED status
    BY <1>0, <1>1 DEF LockPick, BizGoto
  <2> QED
    BY <1>0, <2>1, ClientConstants DEF HolderInv
<1>2. CASE Pick(t)
  <2>1. mutex' = Nobody
    BY <1>2 DEF Pick
  <2> QED
    BY <1>0, <2>1, HolderNobody
<1>3. CASE Ask(t) \/ Copy(t) \/ Send(t)
  <2>1. biz[t] # "pick" /\ UNCHANGED mutex
    BY <1>3 DEF Ask, Copy, Send
  <2>2. \A u \in Threads : biz[u] = "pick" => biz'[u] = "pick"
    BY <1>0, <1>3, <2>1 DEF Ask, Copy, Send, BizGoto
  <2>3. status' = "running" => status = "running"
    BY <1>3 DEF Ask, Copy, Send
  <2> QED
    BY <1>0, <2>1, <2>2, <2>3, HolderSame
<1> QED
  BY <1>1, <1>2, <1>3 DEF RunBiz

\* Every step.
LEMMA NextHolder == ASSUME ClientInv, HolderInv, [Next]_vars PROVE HolderInv'
<1>1. CASE Reconnect \/ \E s \in Servers : Connect(s)
  BY <1>1, ConnectorHolder
<1>2. CASE status = "running" /\ \E i \in Iocs : RunIo(i) \/ \E c \in Conns : Network(i, c)
  BY <1>2, InsertHolder, IoHolder DEF RunIo
<1>3. CASE \E t \in Threads : Ask(t) \/ RunBiz(t)
  BY <1>3, BizHolder
<1>4. CASE (\E c \in Conns : Expire(c)) \/ Race \/ Ended \/ UNCHANGED vars
  <2>1. UNCHANGED <<mutex, todo, io, biz>> /\ (status' = "running" => status = "running")
    BY <1>4 DEF Expire, Race, Ended, vars, bizVars
  <2> QED
    BY <2>1, HolderSame
<1> QED
  BY <1>1, <1>2, <1>3, <1>4 DEF Next

(* Client::handle_connect, get_conn and the reconnect timer's handler: m_manager_mutex is   *)
(* held by nobody who is not about to give it back.                                          *)
THEOREM MutexExactHolds == SafeSpec => []MutexExact
<1>1. Init => HolderInv
  BY ClientAssumption, ClientConstants DEF Init, HolderInv
<1>2. ClientInv /\ HolderInv => MutexExact
  BY DEF ClientInv, MutexInv, HolderInv, MutexExact
<1> QED
  BY <1>1, <1>2, NextHolder, ClientInvariant, PTL DEF SafeSpec

-----------------------------------------------------------------------------
\* The types that nothing above needs.
RestTypes ==
  /\ server \in [Conns -> Servers] /\ count \in [Servers -> Nat] /\ todo \in [Servers -> 0 .. PerConn]
  /\ status \in {"running", "terminated", "empty", "dangling", "race"}
  /\ closes \in BOOLEAN /\ loss \in BOOLEAN

\* Connects that are planned and started.
LEMMA ConnectorTypes ==
  ASSUME RestTypes, Reconnect \/ \E s \in Servers : Connect(s) PROVE RestTypes'
<1>0. UNCHANGED <<count, status, closes>>
  BY DEF Reconnect, Connect, histVars
<1>1. CASE Reconnect
  <2>1. todo' = [s \in Servers |-> IF Lacks(s) THEN PerConn ELSE 0] /\ UNCHANGED <<server, loss>>
    BY <1>1 DEF Reconnect, connVars, histVars
  <2>2. PerConn \in 0 .. PerConn /\ 0 \in 0 .. PerConn
    BY ClientAssumption
  <2>3. todo' \in [Servers -> 0 .. PerConn]
    BY <2>1, <2>2
  <2> QED
    BY <1>0, <2>1, <2>3 DEF RestTypes
<1>2. ASSUME NEW s \in Servers, Connect(s) PROVE RestTypes'
  <2>1. PICK c \in Unused, f \in FreeFds :
          /\ todo[s] > 0 /\ server' = [server EXCEPT ![c] = s] /\ todo' = [todo EXCEPT ![s] = @ - 1]
          /\ loss' = (loss \/ \E i \in Iocs : io[i].at = "release" /\ io[i].key = f)
    BY <1>2 DEF Connect
  <2>2. todo[s] - 1 \in 0 .. PerConn
    BY <2>1, ClientAssumption DEF RestTypes
  <2>3. todo' \in [Servers -> 0 .. PerConn] /\ server' \in [Conns -> Servers]
    BY <2>1, <2>2 DEF RestTypes
  <2>4. loss' \in BOOLEAN
    BY <2>1 DEF RestTypes
  <2> QED
    BY <1>0, <2>3, <2>4 DEF RestTypes
<1> QED
  BY <1>1, <1>2

\* The handlers of the I/O threads.
LEMMA IoTypes ==
  ASSUME RestTypes, NEW i \in Iocs, RunIo(i) \/ \E c \in Conns : Network(i, c) PROVE RestTypes'
<1>0. UNCHANGED <<server, todo>>
  BY DEF RunIo, Network, LockInsert, Insert, Release, RunWrite, RunRefused, RunConnected, RunEnd, connVars
<1>1. CASE Insert(i)
  <2>1. count' = [count EXCEPT ![server[io[i].conn]] = @ + 1] /\ UNCHANGED <<status, closes, loss>>
    BY <1>1 DEF Insert, histVars
  <2>2. count' \in [Servers -> Nat]
    <3> DEFINE r == server[io[i].conn]
    <3>1. count \in [Servers -> Nat] /\ count' = [count EXCEPT ![r] = @ + 1]
      BY <2>1 DEF RestTypes
    <3> HIDE DEF r
    <3>2. count' = [s \in Servers |-> IF s = r THEN count[s] + 1 ELSE count[s]]
      BY <3>1
    <3>3. \A s \in Servers : count[s] \in Nat /\ count[s] + 1 \in Nat
      BY <3>1
    <3> QED
      BY <3>2, <3>3
  <2> QED
    BY <1>0, <2>1, <2>2 DEF RestTypes
<1>2. ASSUME NEW c \in Conns, Network(i, c) PROVE RestTypes'
  <2>1. /\ status' \in {status, "terminated"} /\ closes' \in {closes, TRUE} /\ UNCHANGED count
    BY <1>2 DEF Network, RunRefused, RunConnected, RunEnd, histVars
  <2>2. loss' \in BOOLEAN
    <3>1. loss' = loss \/ \E k \in Fds \cup {None} : loss' = (loss \/ k # None)
      BY <1>2, Zenon DEF Network, RunRefused, RunConnected, RunEnd, histVars
    <3>2. ASSUME NEW k \in Fds \cup {None}, loss' = (loss \/ k # None) PROVE loss' \in BOOLEAN
      BY <3>2, Zenon
    <3> QED
      BY <3>1, <3>2 DEF RestTypes
  <2> QED
    BY <1>0, <2>1, <2>2 DEF RestTypes
<1>3. CASE LockInsert(i) \/ Release(i) \/ \E c \in Conns : RunWrite(i, c)
  <2>1. UNCHANGED <<count, status, closes, loss>>
    BY <1>3 DEF LockInsert, Release, RunWrite, histVars
  <2> QED
    BY <1>0, <2>1 DEF RestTypes
<1> QED
  BY <1>1, <1>2, <1>3 DEF RunIo

\* Every step.
LEMMA NextTypes == ASSUME RestTypes, [Next]_vars PROVE RestTypes'
<1>1. CASE Reconnect \/ \E s \in Servers : Connect(s)
  BY <1>1, ConnectorTypes
<1>2. CASE \E i \in Iocs : RunIo(i) \/ \E c \in Conns : Network(i, c)
  BY <1>2, IoTypes
<1>3. CASE (\E t \in Threads : Ask(t) \/ RunBiz(t)) \/ (\E c \in Conns : Expire(c)) \/ Race \/ Ended \/ UNCHANGED vars
  <2>1. UNCHANGED <<server, count, todo, closes, loss>>
    BY <1>3 DEF Ask, RunBiz, LockPick, Pick, Copy, Send, Expire, Race, Ended, vars, connVars, histVars
  <2>2. status' \in {status, "empty", "dangling", "race"}
    BY <1>3 DEF Ask, RunBiz, LockPick, Pick, Copy, Send, Expire, Race, Ended, vars
  <2> QED
    BY <2>1, <2>2 DEF RestTypes
<1> QED
  BY <1>1, <1>2, <1>3 DEF Next

(* Client's state: every descriptor, counter, queue and pointer keeps its range; no more     *)
(* connects than m_per_conn_num are ever due for a server, and m_ioc_pos stays in range.      *)
THEOREM TypeCorrect == Servers # {} => (SafeSpec => []TypeOK)
<1> SUFFICES ASSUME Servers # {} PROVE SafeSpec => []TypeOK
  OBVIOUS
<1>1. Init => RestTypes
  <2> SUFFICES ASSUME Init PROVE RestTypes
    OBVIOUS
  <2>1. (CHOOSE s \in Servers : TRUE) \in Servers
    OBVIOUS
  <2>2. PerConn \in 0 .. PerConn
    BY ClientAssumption
  <2> QED
    BY <2>1, <2>2 DEF Init, RestTypes
<1>2. Init => HolderInv
  BY ClientAssumption, ClientConstants DEF Init, HolderInv
<1>3. ClientInv /\ HolderInv /\ RestTypes => TypeOK
  BY DEF ClientInv, Types, HolderInv, RestTypes, TypeOK, Handlers
<1> QED
  BY <1>1, <1>2, <1>3, NextHolder, NextTypes, ClientInvariant, PTL DEF SafeSpec
=============================================================================
