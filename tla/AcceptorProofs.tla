--------------------------- MODULE AcceptorProofs ---------------------------
(***************************************************************************)
(* Theorems about Acceptor, for every number of ports, I/O threads, peers    *)
(* and descriptors.                                                          *)
(***************************************************************************)
EXTENDS Acceptor, SequenceTheorems, TLAPS

\* Outside its loop a thread is back at the first acceptor; main never handles an accept.
LoopOK ==
  /\ \A t \in Threads : ~Looping(t) => port[t] = 1
  /\ at["main"] \notin {"handle", "read"}
  /\ at["acceptor"] # "idle" => handled \in Peers

TypeInv == TypeOK /\ LoopOK

Places == {"idle", "index", "bump", "compare", "wrap", "arm", "handle", "read"}

-----------------------------------------------------------------------------
\* The first acceptor and the first I/O context exist.
LEMMA FirstOnes == 1 \in Ports /\ 0 \in Iocs
BY AcceptorAssumption DEF Ports, Iocs

\* What start() begins with is of the right type.
LEMMA InitType == Init => TypeInv
<1> SUFFICES ASSUME Init PROVE TypeInv
  OBVIOUS
<1>1. pos \in Nat /\ seen \in [Threads -> Iocs] /\ port \in [Threads -> Ports]
  BY FirstOnes DEF Init
<1>2. at \in [Threads -> Places]
  BY DEF Init, Places
<1>3. armed \in [Ports -> Seq(Iocs)] /\ posted \in [Iocs -> Seq({"insert", "end"} \X Peers)]
  BY DEF Init
<1>4. ioc \in [Peers -> Iocs] /\ fd \in [Peers -> Fds \cup {0}]
  BY FirstOnes DEF Init
<1>5. TypeOK
  BY <1>1, <1>2, <1>3, <1>4 DEF Init, TypeOK, Places
<1>6. LoopOK
  BY DEF Init, LoopOK, Threads
<1> QED
  BY <1>5, <1>6 DEF TypeInv

\* Taking an index keeps the types.
LEMMA IndexType ==
  ASSUME TypeInv, NEW t \in Threads, Index(t) PROVE TypeInv'
<1>1. seen' \in [Threads -> Iocs] /\ at' \in [Threads -> Places]
  BY DEF TypeInv, TypeOK, Index, Goto, Places
<1>2. status' \in {"running", "terminated", "undefined"} /\ overlap' \in BOOLEAN
  BY DEF TypeInv, TypeOK, Index
<1>3. TypeOK'
  BY <1>1, <1>2 DEF TypeInv, TypeOK, Index, connVars, ioVars, Places
<1>4. LoopOK'
  BY DEF TypeInv, TypeOK, LoopOK, Looping, Threads, Index, Goto, connVars
<1> QED
  BY <1>3, <1>4 DEF TypeInv

\* Incrementing m_ioc_pos keeps the types.
LEMMA BumpType ==
  ASSUME TypeInv, NEW t \in Threads, Bump(t) PROVE TypeInv'
<1>1. pos' \in Nat
  BY DEF TypeInv, TypeOK, Bump
<1>2. at' \in [Threads -> Places]
  BY DEF TypeInv, TypeOK, Bump, Goto, Places
<1>3. TypeOK'
  BY <1>1, <1>2 DEF TypeInv, TypeOK, Bump, connVars, ioVars, histVars, Places
<1>4. LoopOK'
  BY DEF TypeInv, TypeOK, LoopOK, Looping, Threads, Bump, Goto, connVars
<1> QED
  BY <1>3, <1>4 DEF TypeInv

\* Comparing m_ioc_pos keeps the types.
LEMMA CompareType ==
  ASSUME TypeInv, NEW t \in Threads, Compare(t) PROVE TypeInv'
<1>1. at' \in [Threads -> Places]
  BY DEF TypeInv, TypeOK, Compare, Goto, Places
<1>2. TypeOK'
  BY <1>1 DEF TypeInv, TypeOK, Compare, connVars, ioVars, histVars, Places
<1>3. LoopOK'
  BY DEF TypeInv, TypeOK, LoopOK, Looping, Threads, Compare, Goto, connVars
<1> QED
  BY <1>2, <1>3 DEF TypeInv

\* Resetting m_ioc_pos keeps the types.
LEMMA WrapType ==
  ASSUME TypeInv, NEW t \in Threads, Wrap(t) PROVE TypeInv'
<1>1. pos' \in Nat
  BY DEF TypeInv, TypeOK, Wrap
<1>2. at' \in [Threads -> Places]
  BY DEF TypeInv, TypeOK, Wrap, Goto, Places
<1>3. TypeOK'
  BY <1>1, <1>2 DEF TypeInv, TypeOK, Wrap, connVars, ioVars, histVars, Places
<1>4. LoopOK'
  BY DEF TypeInv, TypeOK, LoopOK, Looping, Threads, Wrap, Goto, connVars
<1> QED
  BY <1>3, <1>4 DEF TypeInv

\* Arming an acceptor keeps the types, and the loop leaves its port at the first acceptor.
LEMMA ArmType ==
  ASSUME TypeInv, NEW t \in Threads, Arm(t) PROVE TypeInv'
<1>1. armed' \in [Ports -> Seq(Iocs)]
  BY DEF TypeInv, TypeOK, Arm
<1>2. port' \in [Threads -> Ports]
  <2>1. CASE LastPort(t)
    BY <2>1, FirstOnes DEF TypeInv, TypeOK, Arm
  <2>2. CASE ~LastPort(t)
    <3>1. port[t] \in Ports /\ port[t] + 1 \in Ports
      BY <2>2, AcceptorAssumption DEF TypeInv, TypeOK, LastPort, Ports
    <3> QED
      BY <2>2, <3>1 DEF TypeInv, TypeOK, Arm
  <2> QED
    BY <2>1, <2>2
<1>3. at' \in [Threads -> Places]
  BY DEF TypeInv, TypeOK, Arm, Goto, Places
<1>4. TypeOK'
  BY <1>1, <1>2, <1>3 DEF TypeInv, TypeOK, Arm, connVars, ioVars, histVars, Places
<1>5. LoopOK'
  BY DEF TypeInv, TypeOK, LoopOK, Looping, Threads, Arm, Goto, connVars
<1> QED
  BY <1>4, <1>5 DEF TypeInv

\* An accepted connection gets an I/O context and a descriptor.
LEMMA AcceptType ==
  ASSUME TypeInv, NEW p \in Peers, Accept(p) PROVE TypeInv'
<1>1. on[p] \in Ports /\ armed[on[p]] \in Seq(Iocs) /\ armed[on[p]] # <<>>
  BY DEF TypeInv, TypeOK, Accept
<1>2. Head(armed[on[p]]) \in Iocs /\ Tail(armed[on[p]]) \in Seq(Iocs)
  BY <1>1
<1>3. armed' \in [Ports -> Seq(Iocs)] /\ ioc' \in [Peers -> Iocs]
  BY <1>1, <1>2 DEF TypeInv, TypeOK, Accept
<1>4. fd' \in [Peers -> Fds \cup {0}]
  BY DEF TypeInv, TypeOK, Accept, FreeFds
<1>5. elsewhere' \in [Ports -> Nat]
  BY DEF TypeInv, TypeOK, Accept
<1>6. TypeOK'
  BY <1>3, <1>4, <1>5 DEF TypeInv, TypeOK, Accept, Goto, ioVars
<1>7. LoopOK'
  BY DEF TypeInv, TypeOK, LoopOK, Looping, Threads, Accept, Goto
<1> QED
  BY <1>6, <1>7 DEF TypeInv

\* A failed accept keeps the types.
LEMMA AcceptFailsType ==
  ASSUME TypeInv, NEW p \in Peers, AcceptFails(p) PROVE TypeInv'
<1>1. on[p] \in Ports /\ armed[on[p]] \in Seq(Iocs) /\ armed[on[p]] # <<>>
  BY DEF TypeInv, TypeOK, AcceptFails
<1>2. Tail(armed[on[p]]) \in Seq(Iocs)
  BY <1>1
<1>3. armed' \in [Ports -> Seq(Iocs)]
  BY <1>1, <1>2 DEF TypeInv, TypeOK, AcceptFails
<1>4. failures' \in [Ports -> Nat]
  BY <1>1 DEF TypeInv, TypeOK, AcceptFails
<1>5. TypeOK'
  BY <1>3, <1>4 DEF TypeInv, TypeOK, AcceptFails, loopVars, connVars, ioVars
<1>6. LoopOK'
  BY DEF TypeInv, LoopOK, Looping, AcceptFails, loopVars, connVars
<1> QED
  BY <1>5, <1>6 DEF TypeInv

\* handle_accept posts the insertion of the peer it handles.
LEMMA HandleAcceptType ==
  ASSUME TypeInv, HandleAccept PROVE TypeInv'
<1>1. handled \in Peers
  BY DEF TypeInv, LoopOK, HandleAccept
<1>2. posted' \in [Iocs -> Seq({"insert", "end"} \X Peers)]
  <2>1. ioc[handled] \in Iocs /\ <<"insert", handled>> \in {"insert", "end"} \X Peers
    BY <1>1 DEF TypeInv, TypeOK
  <2>2. Append(posted[ioc[handled]], <<"insert", handled>>) \in Seq({"insert", "end"} \X Peers)
    BY <2>1 DEF TypeInv, TypeOK
  <2> QED
    BY <2>1, <2>2 DEF TypeInv, TypeOK, HandleAccept
<1>3. peer' \in [Peers -> {"away", "backlog", "accepted", "set", "reading", "ended", "closed"}]
  BY <1>1 DEF TypeInv, TypeOK, HandleAccept
<1>4. at' \in [Threads -> Places] /\ status' \in {"running", "terminated", "undefined"}
  BY DEF TypeInv, TypeOK, HandleAccept, Goto, Places
<1>5. TypeOK'
  BY <1>2, <1>3, <1>4 DEF TypeInv, TypeOK, HandleAccept, histVars, Places
<1>6. LoopOK'
  BY <1>1 DEF TypeInv, TypeOK, LoopOK, Looping, Threads, HandleAccept, Goto
<1> QED
  BY <1>5, <1>6 DEF TypeInv

\* The first read, which ends the accept handler.
LEMMA StartReadType ==
  ASSUME TypeInv, StartRead PROVE TypeInv'
BY DEF TypeInv, TypeOK, LoopOK, Looping, Threads, StartRead, Goto, ioVars, histVars

\* A read that ends posts its handler.
LEMMA ReadEndsType ==
  ASSUME TypeInv, NEW p \in Peers, ReadEnds(p) PROVE TypeInv'
<1>1. posted' \in [Iocs -> Seq({"insert", "end"} \X Peers)]
  <2>1. ioc[p] \in Iocs /\ <<"end", p>> \in {"insert", "end"} \X Peers
    BY DEF TypeInv, TypeOK
  <2>2. Append(posted[ioc[p]], <<"end", p>>) \in Seq({"insert", "end"} \X Peers)
    BY <2>1 DEF TypeInv, TypeOK
  <2> QED
    BY <2>1, <2>2 DEF TypeInv, TypeOK, ReadEnds
<1> QED
  BY <1>1 DEF TypeInv, TypeOK, LoopOK, Looping, Threads, ReadEnds, loopVars, histVars

\* What an I/O thread finds at the head of its queue.
LEMMA HeadType ==
  ASSUME TypeOK, NEW i \in Iocs, posted[i] # <<>>
  PROVE  /\ posted[i] \in Seq({"insert", "end"} \X Peers)
         /\ Head(posted[i]) \in {"insert", "end"} \X Peers
         /\ Tail(posted[i]) \in Seq({"insert", "end"} \X Peers)
BY DEF TypeOK

\* An insertion into a table.
LEMMA InsertType ==
  ASSUME TypeInv, NEW i \in Iocs, Insert(i) PROVE TypeInv'
<1>1. /\ posted[i] \in Seq({"insert", "end"} \X Peers)
      /\ Head(posted[i]) \in {"insert", "end"} \X Peers
      /\ Tail(posted[i]) \in Seq({"insert", "end"} \X Peers)
  BY HeadType DEF TypeInv, Insert
<1>2. posted' \in [Iocs -> Seq({"insert", "end"} \X Peers)]
  BY <1>1 DEF TypeInv, TypeOK, Insert
<1>3. table' \in [Iocs -> [Fds -> Peers \cup {NoPeer}]]
  BY <1>1 DEF TypeInv, TypeOK, Insert, Table
<1>4. TypeOK'
  BY <1>2, <1>3 DEF TypeInv, TypeOK, Insert, loopVars, connVars, histVars
<1>5. LoopOK'
  BY DEF TypeInv, LoopOK, Looping, Insert, loopVars
<1> QED
  BY <1>4, <1>5 DEF TypeInv

\* Closing a socket.
LEMMA CloseSocketType ==
  ASSUME TypeInv, NEW i \in Iocs, CloseSocket(i) PROVE TypeInv'
<1>1. /\ posted[i] \in Seq({"insert", "end"} \X Peers)
      /\ Head(posted[i]) \in {"insert", "end"} \X Peers
      /\ Tail(posted[i]) \in Seq({"insert", "end"} \X Peers)
  BY HeadType DEF TypeInv, CloseSocket
<1>2. posted' \in [Iocs -> Seq({"insert", "end"} \X Peers)]
  BY <1>1 DEF TypeInv, TypeOK, CloseSocket
<1>3. closing' \in [Iocs -> Peers \cup {NoPeer}]
  BY <1>1 DEF TypeInv, TypeOK, CloseSocket
<1>4. peer' \in [Peers -> {"away", "backlog", "accepted", "set", "reading", "ended", "closed"}]
  BY <1>1 DEF TypeInv, TypeOK, CloseSocket
<1>5. TypeOK'
  BY <1>2, <1>3, <1>4 DEF TypeInv, TypeOK, CloseSocket, loopVars, histVars
<1>6. LoopOK'
  BY DEF TypeInv, LoopOK, Looping, CloseSocket, loopVars
<1> QED
  BY <1>5, <1>6 DEF TypeInv

\* Erasing an entry.
LEMMA ReleaseType ==
  ASSUME TypeInv, NEW i \in Iocs, Release(i) PROVE TypeInv'
<1>1. table' \in [Iocs -> [Fds -> Peers \cup {NoPeer}]]
  BY DEF TypeInv, TypeOK, Release, Table
<1>2. closing' \in [Iocs -> Peers \cup {NoPeer}]
  BY DEF TypeInv, TypeOK, Release
<1>3. TypeOK'
  BY <1>1, <1>2 DEF TypeInv, TypeOK, Release, loopVars, connVars, histVars
<1>4. LoopOK'
  BY DEF TypeInv, LoopOK, Looping, Release, loopVars
<1> QED
  BY <1>3, <1>4 DEF TypeInv

\* What a peer does.
LEMMA PeerType ==
  ASSUME TypeInv, NEW p \in Peers, PeerConnects(p) \/ PeerResets(p) PROVE TypeInv'
<1>1. CASE PeerConnects(p)
  BY <1>1 DEF TypeInv, TypeOK, LoopOK, Looping, PeerConnects, loopVars, ioVars, histVars
<1>2. CASE PeerResets(p)
  BY <1>2 DEF TypeInv, TypeOK, LoopOK, Looping, PeerResets, loopVars, ioVars, histVars
<1> QED
  BY <1>1, <1>2

\* A step that changes nothing.
LEMMA StutterType ==
  ASSUME TypeInv, UNCHANGED vars PROVE TypeInv'
BY DEF TypeInv, TypeOK, LoopOK, Looping, vars, loopVars, connVars, ioVars, histVars

\* Every step is one of these.
LEMMA NextCases ==
  ASSUME [Next]_vars
  PROVE  \/ \E t \in Threads : Index(t) \/ Bump(t) \/ Compare(t) \/ Wrap(t) \/ Arm(t)
         \/ HandleAccept \/ StartRead
         \/ \E i \in Iocs : Insert(i) \/ CloseSocket(i) \/ Release(i)
         \/ \E p \in Peers : \/ PeerConnects(p) \/ PeerResets(p)
                              \/ Accept(p) \/ AcceptFails(p) \/ ReadEnds(p)
         \/ UNCHANGED vars
BY DEF Next, Run, IoThread, Finished

\* TypeInv is inductive.
LEMMA NextType ==
  ASSUME TypeInv, [Next]_vars PROVE TypeInv'
BY NextCases, IndexType, BumpType, CompareType, WrapType, ArmType, HandleAcceptType, StartReadType,
   InsertType, CloseSocketType, ReleaseType, PeerType, AcceptType, AcceptFailsType,
   ReadEndsType, StutterType

\* The variables of the acceptor have their types, whatever the threads and the peers do.
THEOREM TypeCorrect == Spec => []TypeOK
<1>1. Init => TypeInv
  BY InitType
<1>2. TypeInv /\ [Next]_vars => TypeInv'
  BY NextType
<1>3. TypeInv => TypeOK
  BY DEF TypeInv
<1> QED
  BY <1>1, <1>2, <1>3, PTL DEF Spec, SafeSpec

-----------------------------------------------------------------------------
\* ArmedExact, with what its counts range over.
LEMMA ArmedCounts ==
  ASSUME TypeOK, NEW a \in Ports
  PROVE  /\ Len(armed[a]) \in Nat /\ elsewhere[a] \in Nat /\ failures[a] \in Nat
         /\ Due("main", a) \in 0 .. 1 /\ Due("acceptor", a) \in 0 .. 1
BY DEF TypeOK, Due

\* At first all acceptors are due.
LEMMA InitArmed == Init => ArmedExact
<1> SUFFICES ASSUME Init, NEW a \in Ports
             PROVE  Len(armed[a]) + Due("main", a) + Due("acceptor", a) = 1 + elsewhere[a] - failures[a]
  BY DEF ArmedExact
<1>1. Len(armed[a]) = 0 /\ elsewhere[a] = 0 /\ failures[a] = 0
  BY DEF Init
<1>2. Due("main", a) = 1
  BY AcceptorAssumption DEF Init, Due, Looping, Threads, Ports
<1>3. Due("acceptor", a) = 0
  BY DEF Init, Due, Looping, Threads
<1> QED
  BY <1>1, <1>2, <1>3

\* Arming an acceptor makes it no longer due.
LEMMA ArmArmed ==
  ASSUME TypeInv, ArmedExact, NEW t \in Threads, Arm(t) PROVE ArmedExact'
<1> SUFFICES ASSUME NEW a \in Ports
             PROVE  Len(armed'[a]) + Due("main", a)' + Due("acceptor", a)' = 1 + elsewhere'[a] - failures'[a]
  BY DEF ArmedExact
<1>0. PICK u \in Threads : u # t /\ Threads = {t, u}
  BY DEF Threads
<1>1. Len(armed[a]) + Due(t, a) + Due(u, a) = 1 + elsewhere[a] - failures[a]
  BY <1>0, ArmedCounts DEF ArmedExact, Threads, TypeInv
<1>2. Due(u, a)' = Due(u, a)
  BY <1>0 DEF Due, Looping, Arm, Goto, TypeInv, TypeOK
<1>3. Looping(t) /\ port[t] \in Ports
  BY DEF Arm, Looping, TypeInv, TypeOK
<1>4. CASE a = port[t]
  <2>1. Due(t, a) = 1
    BY <1>3, <1>4, AcceptorAssumption DEF Due, Ports
  <2>2. Due(t, a)' = 0
    <3>1. CASE LastPort(t)
      BY <3>1 DEF Due, Looping, Arm, Goto, TypeInv, TypeOK
    <3>2. CASE ~LastPort(t)
      <4>1. port'[t] = port[t] + 1
        BY <3>2 DEF Arm, TypeInv, TypeOK
      <4> QED
        BY <4>1, <1>4, <1>3, AcceptorAssumption DEF Due, Ports
    <3> QED
      BY <3>1, <3>2
  <2>3. Len(armed'[a]) = Len(armed[a]) + 1
    <3>1. armed'[a] = Append(armed[a], seen[t]) /\ armed[a] \in Seq(Iocs) /\ seen[t] \in Iocs
      BY <1>4 DEF Arm, TypeInv, TypeOK
    <3> QED
      BY <3>1
  <2>4. elsewhere' = elsewhere /\ failures' = failures
    BY DEF Arm, histVars
  <2> QED
    BY <1>0, <1>1, <1>2, <2>1, <2>2, <2>3, <2>4, ArmedCounts DEF Threads, TypeInv
<1>5. CASE a # port[t]
  <2>1. armed'[a] = armed[a] /\ elsewhere' = elsewhere /\ failures' = failures
    BY <1>5 DEF Arm, histVars, TypeInv, TypeOK
  <2>2. Due(t, a)' = Due(t, a)
    <3>1. CASE LastPort(t)
      <4>1. ~Looping(t)'
        BY <3>1 DEF Looping, Arm, Goto, TypeInv, TypeOK
      <4>2. ~(port[t] <= a)
        BY <3>1, <1>5, AcceptorAssumption DEF LastPort, Ports
      <4> QED
        BY <4>1, <4>2 DEF Due
    <3>2. CASE ~LastPort(t)
      <4>1. port'[t] = port[t] + 1 /\ Looping(t)'
        BY <3>2 DEF Arm, Goto, Looping, TypeInv, TypeOK
      <4>2. port[t] + 1 <= a <=> port[t] <= a
        BY <1>3, <1>5, AcceptorAssumption DEF Ports
      <4> QED
        BY <4>1, <4>2, <1>3 DEF Due
    <3> QED
      BY <3>1, <3>2
  <2> QED
    BY <1>0, <1>1, <1>2, <2>1, <2>2, ArmedCounts DEF Threads, TypeInv
<1> QED
  BY <1>4, <1>5

\* The accept that a peer completes is made up for by the loop that begins, at its own port; at
\* the other ports the loop adds one.
LEMMA AcceptArmed ==
  ASSUME TypeInv, ArmedExact, NEW p \in Peers, Accept(p) PROVE ArmedExact'
<1> SUFFICES ASSUME NEW a \in Ports
             PROVE  Len(armed'[a]) + Due("main", a)' + Due("acceptor", a)' = 1 + elsewhere'[a] - failures'[a]
  BY DEF ArmedExact
<1>1. Len(armed[a]) + Due("main", a) + Due("acceptor", a) = 1 + elsewhere[a] - failures[a]
  BY DEF ArmedExact
<1>2. Due("acceptor", a) = 0
  BY DEF Due, Looping, Accept
<1>3. Due("acceptor", a)' = 1
  <2>1. port["acceptor"] = 1 /\ port' = port
    BY DEF TypeInv, LoopOK, Looping, Accept, Threads
  <2>2. at'["acceptor"] = "index"
    BY DEF Accept, Goto, TypeInv, TypeOK, Threads
  <2>3. 1 <= a
    BY AcceptorAssumption DEF Ports
  <2> QED
    BY <2>1, <2>2, <2>3 DEF Due, Looping
<1>4. Due("main", a)' = Due("main", a)
  BY DEF Due, Looping, Accept, Goto, TypeInv, TypeOK, Threads
<1>5. Len(armed'[a]) = Len(armed[a]) - IF a = on[p] THEN 1 ELSE 0
  <2>1. armed[a] \in Seq(Iocs)
    BY DEF TypeInv, TypeOK
  <2>2. CASE a = on[p]
    <3>1. armed'[a] = Tail(armed[a]) /\ armed[a] # <<>>
      BY <2>2 DEF Accept, TypeInv, TypeOK
    <3> QED
      BY <3>1, <2>1, <2>2
  <2>3. CASE a # on[p]
    BY <2>3, <2>1 DEF Accept, TypeInv, TypeOK
  <2> QED
    BY <2>2, <2>3
<1>6. elsewhere'[a] = elsewhere[a] + (IF a = on[p] THEN 0 ELSE 1) /\ failures' = failures
  BY DEF Accept
<1>7. /\ Len(armed[a]) \in Nat /\ elsewhere[a] \in Nat /\ failures[a] \in Nat
      /\ Due("main", a) \in 0 .. 1 /\ Due("acceptor", a) \in 0 .. 1
  BY ArmedCounts DEF TypeInv
<1>8. CASE a = on[p]
  BY <1>1, <1>2, <1>3, <1>4, <1>5, <1>6, <1>7, <1>8
<1>9. CASE a # on[p]
  BY <1>1, <1>2, <1>3, <1>4, <1>5, <1>6, <1>7, <1>9
<1> QED
  BY <1>8, <1>9

\* A failed accept is one less, and counted.
LEMMA AcceptFailsArmed ==
  ASSUME TypeInv, ArmedExact, NEW p \in Peers, AcceptFails(p) PROVE ArmedExact'
<1> SUFFICES ASSUME NEW a \in Ports
             PROVE  Len(armed'[a]) + Due("main", a)' + Due("acceptor", a)' = 1 + elsewhere'[a] - failures'[a]
  BY DEF ArmedExact
<1>0. /\ Len(armed[a]) \in Nat /\ elsewhere[a] \in Nat /\ failures[a] \in Nat
      /\ Due("main", a) \in 0 .. 1 /\ Due("acceptor", a) \in 0 .. 1
  BY ArmedCounts DEF TypeInv
<1>1. Len(armed[a]) + Due("main", a) + Due("acceptor", a) = 1 + elsewhere[a] - failures[a]
  BY DEF ArmedExact
<1>2. Due("main", a)' = Due("main", a) /\ Due("acceptor", a)' = Due("acceptor", a) /\ elsewhere' = elsewhere
  BY DEF Due, Looping, AcceptFails, loopVars
<1>3. armed[a] \in Seq(Iocs)
  BY DEF TypeInv, TypeOK
<1>4. CASE a = on[p]
  <2>1. armed'[a] = Tail(armed[a]) /\ armed[a] # <<>>
    BY <1>4 DEF AcceptFails, TypeInv, TypeOK
  <2>2. Len(armed'[a]) = Len(armed[a]) - 1
    BY <2>1, <1>3
  <2>3. failures'[a] = failures[a] + 1
    BY <1>4 DEF AcceptFails, TypeInv, TypeOK
  <2> DEFINE m == Due("main", a)
             c == Due("acceptor", a)
             n == Len(armed[a])
             e == elsewhere[a]
             f == failures[a]
  <2>4. n \in Int /\ m \in Int /\ c \in Int /\ e \in Int /\ f \in Int /\ n + m + c = 1 + e - f
    BY <1>0, <1>1
  <2>5. (n - 1) + m + c = 1 + e - (f + 1)
    <3> HIDE DEF m, c, n, e, f
    <3> QED
      BY <2>4
  <2> QED
    BY <1>2, <2>2, <2>3, <2>5
<1>5. CASE a # on[p]
  <2>1. armed'[a] = armed[a] /\ failures'[a] = failures[a]
    BY <1>5 DEF AcceptFails, TypeInv, TypeOK
  <2> QED
    BY <1>1, <1>2, <2>1
<1> QED
  BY <1>4, <1>5

\* The other steps leave the accepts, and what is due, alone.
LEMMA OtherArmed ==
  ASSUME TypeInv, ArmedExact,
         armed' = armed, elsewhere' = elsewhere, failures' = failures, port' = port,
         \A t \in Threads : Looping(t)' <=> Looping(t)
  PROVE  ArmedExact'
<1>1. "main" \in Threads /\ "acceptor" \in Threads
  BY DEF Threads
<1> QED
  BY <1>1 DEF ArmedExact, Due

\* ArmedExact is inductive relative to TypeInv.
LEMMA NextArmed ==
  ASSUME TypeInv, ArmedExact, [Next]_vars PROVE ArmedExact'
<1>1. ASSUME NEW t \in Threads, Index(t) \/ Bump(t) \/ Compare(t) \/ Wrap(t) PROVE ArmedExact'
  <2>1. armed' = armed /\ elsewhere' = elsewhere /\ failures' = failures /\ port' = port
    BY <1>1 DEF Index, Bump, Compare, Wrap, histVars
  <2>2. \A u \in Threads : Looping(u)' <=> Looping(u)
    <3>1. CASE Index(t)
      BY <3>1 DEF Index, Goto, Looping, TypeInv, TypeOK
    <3>2. CASE Bump(t)
      BY <3>2 DEF Bump, Goto, Looping, TypeInv, TypeOK
    <3>3. CASE Wrap(t)
      BY <3>3 DEF Wrap, Goto, Looping, TypeInv, TypeOK
    <3>4. CASE Compare(t)
      BY <3>4 DEF Compare, Goto, Looping, TypeInv, TypeOK
    <3> QED
      BY <1>1, <3>1, <3>2, <3>3, <3>4
  <2> QED
    BY <2>1, <2>2, OtherArmed
<1>2. ASSUME HandleAccept \/ StartRead PROVE ArmedExact'
  <2>1. armed' = armed /\ elsewhere' = elsewhere /\ failures' = failures /\ port' = port
    BY <1>2 DEF HandleAccept, StartRead, histVars
  <2>2. \A u \in Threads : Looping(u)' <=> Looping(u)
    BY <1>2 DEF HandleAccept, StartRead, Goto, Looping, TypeInv, TypeOK
  <2> QED
    BY <2>1, <2>2, OtherArmed
<1>3. ASSUME NEW i \in Iocs, Insert(i) \/ CloseSocket(i) \/ Release(i) PROVE ArmedExact'
  BY <1>3, OtherArmed DEF Insert, CloseSocket, Release, loopVars, histVars, Looping
<1>4. ASSUME NEW p \in Peers, PeerConnects(p) \/ PeerResets(p) \/ ReadEnds(p) PROVE ArmedExact'
  BY <1>4, OtherArmed DEF PeerConnects, PeerResets, ReadEnds, loopVars, histVars, Looping
<1>5. ASSUME UNCHANGED vars PROVE ArmedExact'
  BY <1>5, OtherArmed DEF vars, loopVars, histVars, Looping
<1> QED
  BY NextCases, <1>1, <1>2, <1>3, <1>4, <1>5, ArmArmed, AcceptArmed, AcceptFailsArmed

\* async_accept's accounts balance: at each port there wait, or are due, exactly the first accept,
\* less the failed ones, and one for every connection accepted elsewhere.
THEOREM AcceptsAccounted == Spec => []ArmedExact
<1>1. Init => TypeInv /\ ArmedExact
  BY InitType, InitArmed
<1>2. TypeInv /\ ArmedExact /\ [Next]_vars => (TypeInv /\ ArmedExact)'
  BY NextType, NextArmed
<1> QED
  BY <1>1, <1>2, PTL DEF Spec, SafeSpec

-----------------------------------------------------------------------------
\* While nobody else is in async_accept's loop, m_ioc_pos is what the thread in it took, and then
\* one more, and otherwise an index.
Between == {"bump", "compare", "wrap"}

PosExact ==
  ~overlap =>
    /\ \A t \in Threads : at[t] = "bump" => pos = seen[t]
    /\ \A t \in Threads : at[t] = "compare" => pos = seen[t] + 1
    /\ \A t, u \in Threads : at[t] \in Between /\ at[u] \in Between => t = u
    /\ (\A t \in Threads : at[t] \notin {"compare", "wrap"}) => pos \in Iocs

\* Taking an index: past the end only if another thread is between increment and comparison.
LEMMA IndexPos ==
  ASSUME TypeInv, PosExact, IndexInRange, NEW t \in Threads, Index(t)
  PROVE  PosExact' /\ IndexInRange'
<1>0. PICK u \in Threads : u # t /\ Threads = {t, u}
  BY DEF Threads
<1>1. CASE overlap'
  BY <1>1 DEF PosExact, IndexInRange
<1>2. CASE ~overlap'
  <2>1. ~overlap /\ at[t] = "index" /\ at[u] = "idle"
    BY <1>0, <1>2 DEF Index
  <2>2. pos \in Iocs
    BY <1>0, <2>1 DEF PosExact
  <2>3. at' = [at EXCEPT ![t] = "bump"] /\ seen' = [seen EXCEPT ![t] = pos] /\ pos' = pos /\ status' = status
    BY <2>2 DEF Index, Goto
  <2>4. at'[t] = "bump" /\ at'[u] = "idle" /\ seen'[t] = pos
    BY <1>0, <2>1, <2>3 DEF TypeInv, TypeOK
  <2>5. PosExact'
    BY <1>0, <2>2, <2>3, <2>4 DEF PosExact, Between
  <2>6. IndexInRange'
    BY <2>1, <2>3 DEF IndexInRange
  <2> QED
    BY <2>5, <2>6
<1> QED
  BY <1>1, <1>2

\* Incrementing what nobody else has changed.
LEMMA BumpPos ==
  ASSUME TypeInv, PosExact, NEW t \in Threads, Bump(t), ~overlap PROVE PosExact'
<1>0. PICK u \in Threads : u # t /\ Threads = {t, u}
  BY DEF Threads
<1>1. pos = seen[t] /\ at[u] \notin Between
  BY <1>0 DEF PosExact, Bump, Between
<1>2. pos' = seen[t] + 1 /\ seen' = seen
  BY <1>1 DEF Bump
<1>3. at'[t] = "compare" /\ at'[u] = at[u]
  BY <1>0 DEF Bump, Goto, TypeInv, TypeOK
<1> QED
  BY <1>0, <1>1, <1>2, <1>3 DEF PosExact, Between

\* Comparing what nobody else has changed finds m_ioc_pos in range, or sends the thread to reset it.
LEMMA ComparePos ==
  ASSUME TypeInv, PosExact, NEW t \in Threads, Compare(t), ~overlap PROVE PosExact'
<1>0. PICK u \in Threads : u # t /\ Threads = {t, u}
  BY DEF Threads
<1>1. pos = seen[t] + 1 /\ at[u] \notin Between /\ seen[t] \in Iocs
  BY <1>0 DEF PosExact, Compare, Between, TypeInv, TypeOK
<1>2. pos' = pos /\ seen' = seen /\ at'[u] = at[u] /\ at'[t] = IF PastEnd(pos) THEN "wrap" ELSE "arm"
  BY <1>0 DEF Compare, Goto, TypeInv, TypeOK
<1>3. at'[t] = "arm" => pos' \in Iocs
  BY <1>1, <1>2, AcceptorAssumption DEF PastEnd, Iocs
<1> QED
  BY <1>0, <1>1, <1>2, <1>3 DEF PosExact, Between

\* Resetting m_ioc_pos brings it back into range.
LEMMA WrapPos ==
  ASSUME TypeInv, PosExact, NEW t \in Threads, Wrap(t), ~overlap PROVE PosExact'
<1>0. PICK u \in Threads : u # t /\ Threads = {t, u}
  BY DEF Threads
<1>1. at[u] \notin Between
  BY <1>0 DEF PosExact, Wrap, Between
<1>2. pos' \in Iocs
  BY FirstOnes DEF Wrap
<1>3. at'[t] = "arm" /\ at'[u] = at[u]
  BY <1>0 DEF Wrap, Goto, TypeInv, TypeOK
<1> QED
  BY <1>0, <1>1, <1>2, <1>3 DEF PosExact, Between

\* A step that leaves m_ioc_pos alone and brings nobody to it.
LEMMA OtherPos ==
  ASSUME PosExact, overlap' = overlap, pos' = pos, seen' = seen,
         \A t \in Threads : at'[t] = at[t] \/ (at[t] \notin Between /\ at'[t] \notin Between)
  PROVE  PosExact'
BY DEF PosExact, Between

\* PosExact is inductive relative to TypeInv, and keeps IndexInRange.
LEMMA NextPos ==
  ASSUME TypeInv, PosExact, IndexInRange, [Next]_vars PROVE PosExact' /\ IndexInRange'
<1>1. ASSUME NEW t \in Threads, Bump(t) PROVE PosExact' /\ IndexInRange'
  <2>1. status' = status /\ overlap' = overlap
    BY <1>1 DEF Bump, histVars
  <2> QED
    BY <1>1, <2>1, BumpPos DEF PosExact, IndexInRange
<1>2. ASSUME NEW t \in Threads, Wrap(t) PROVE PosExact' /\ IndexInRange'
  <2>1. status' = status /\ overlap' = overlap
    BY <1>2 DEF Wrap, histVars
  <2> QED
    BY <1>2, <2>1, WrapPos DEF PosExact, IndexInRange
<1>9. ASSUME NEW t \in Threads, Compare(t) PROVE PosExact' /\ IndexInRange'
  <2>1. status' = status /\ overlap' = overlap
    BY <1>9 DEF Compare, histVars
  <2> QED
    BY <1>9, <2>1, ComparePos DEF PosExact, IndexInRange
<1>3. ASSUME NEW t \in Threads, Arm(t) PROVE PosExact' /\ IndexInRange'
  <2>1. status' = status /\ overlap' = overlap /\ pos' = pos /\ seen' = seen
    BY <1>3 DEF Arm, histVars
  <2>2. at[t] = "arm" /\ at'[t] \in {"idle", "handle", "index"}
    BY <1>3 DEF Arm, Goto, TypeInv, TypeOK
  <2>3. \A u \in Threads : u # t => at'[u] = at[u]
    BY <1>3 DEF Arm, Goto, TypeInv, TypeOK
  <2> QED
    BY <2>1, <2>2, <2>3, OtherPos DEF IndexInRange, Between
<1>4. ASSUME HandleAccept \/ StartRead PROVE PosExact' /\ IndexInRange'
  <2>1. status' # "undefined" \/ status' = status
    BY <1>4 DEF HandleAccept, StartRead
  <2>2. overlap' = overlap /\ pos' = pos /\ seen' = seen
    BY <1>4 DEF HandleAccept, StartRead, histVars
  <2>3. at["acceptor"] \in {"handle", "read"} /\ at'["acceptor"] \in {"handle", "read", "idle"}
    BY <1>4 DEF HandleAccept, StartRead, Goto, TypeInv, TypeOK, Threads
  <2>4. \A u \in Threads : u # "acceptor" => at'[u] = at[u]
    BY <1>4 DEF HandleAccept, StartRead, Goto, TypeInv, TypeOK
  <2> QED
    BY <2>1, <2>2, <2>3, <2>4, OtherPos DEF IndexInRange, Between
<1>5. ASSUME NEW i \in Iocs, Insert(i) \/ CloseSocket(i) \/ Release(i) PROVE PosExact' /\ IndexInRange'
  BY <1>5, OtherPos DEF Insert, CloseSocket, Release, loopVars, histVars, IndexInRange
<1>6. ASSUME NEW p \in Peers, PeerConnects(p) \/ PeerResets(p) \/ AcceptFails(p) \/ ReadEnds(p)
      PROVE PosExact' /\ IndexInRange'
  BY <1>6, OtherPos DEF PeerConnects, PeerResets, AcceptFails, ReadEnds, loopVars, histVars, IndexInRange
<1>7. ASSUME NEW p \in Peers, Accept(p) PROVE PosExact' /\ IndexInRange'
  <2>1. status' = status /\ overlap' = overlap /\ pos' = pos /\ seen' = seen
    BY <1>7 DEF Accept
  <2>2. at["acceptor"] = "idle" /\ at'["acceptor"] = "index"
    BY <1>7 DEF Accept, Goto, TypeInv, TypeOK, Threads
  <2>3. \A u \in Threads : u # "acceptor" => at'[u] = at[u]
    BY <1>7 DEF Accept, Goto, TypeInv, TypeOK
  <2> QED
    BY <2>1, <2>2, <2>3, OtherPos DEF IndexInRange, Between
<1>8. ASSUME UNCHANGED vars PROVE PosExact' /\ IndexInRange'
  BY <1>8, OtherPos DEF vars, loopVars, histVars, IndexInRange
<1> QED
  BY NextCases, IndexPos, <1>1, <1>2, <1>3, <1>4, <1>5, <1>6, <1>7, <1>8, <1>9

\* get_iocontext takes no index past the end, unless a connection was accepted while start() was
\* arming the acceptors.
THEOREM IndexStaysInRange == Spec => []IndexInRange
<1>1. Init => TypeInv /\ PosExact /\ IndexInRange
  <2>1. ASSUME Init PROVE PosExact /\ IndexInRange
    BY <2>1, FirstOnes DEF Init, PosExact, Between, IndexInRange, Threads
  <2> QED
    BY <2>1, InitType
<1>2. TypeInv /\ PosExact /\ IndexInRange /\ [Next]_vars => (TypeInv /\ PosExact /\ IndexInRange)'
  BY NextType, NextPos
<1> QED
  BY <1>1, <1>2, PTL DEF Spec, SafeSpec

-----------------------------------------------------------------------------
\* h is in the queue s.
In(h, s) == \E k \in 1 .. Len(s) : s[k] = h

\* Of one connection a queue has at most its insertion and its end, in this order.
Ordered(s) ==
  \A k, l \in 1 .. Len(s) : k < l /\ s[k][2] = s[l][2] => s[k][1] = "insert" /\ s[l][1] = "end"

\* What is in a queue after a handler is posted.
LEMMA AppendIn ==
  ASSUME NEW S, NEW s \in Seq(S), NEW x \in S, NEW h
  PROVE  In(h, Append(s, x)) <=> In(h, s) \/ h = x
<1>1. /\ Len(Append(s, x)) = Len(s) + 1 /\ Len(s) \in Nat
      /\ \A k \in 1 .. Len(s) : Append(s, x)[k] = s[k]
      /\ Append(s, x)[Len(s) + 1] = x
  OBVIOUS
<1>2. \A k \in 1 .. Len(s) + 1 : k \in 1 .. Len(s) \/ k = Len(s) + 1
  BY <1>1
<1>3. 1 .. Len(s) \subseteq 1 .. Len(s) + 1 /\ Len(s) + 1 \in 1 .. Len(s) + 1
  BY <1>1
<1> QED
  BY <1>1, <1>2, <1>3 DEF In

\* A handler posted last keeps the queue in order if nothing but its own insertion is before it.
LEMMA AppendOrdered ==
  ASSUME NEW S, NEW s \in Seq(S), NEW x \in S, Ordered(s),
         \A h \in S : In(h, s) /\ h[2] = x[2] => h[1] = "insert" /\ x[1] = "end"
  PROVE  Ordered(Append(s, x))
<1>1. /\ Len(Append(s, x)) = Len(s) + 1 /\ Len(s) \in Nat
      /\ \A k \in 1 .. Len(s) : Append(s, x)[k] = s[k] /\ s[k] \in S
      /\ Append(s, x)[Len(s) + 1] = x
  OBVIOUS
<1> SUFFICES ASSUME NEW k \in 1 .. Len(s) + 1, NEW l \in 1 .. Len(s) + 1, k < l,
                    Append(s, x)[k][2] = Append(s, x)[l][2]
             PROVE  Append(s, x)[k][1] = "insert" /\ Append(s, x)[l][1] = "end"
  BY <1>1 DEF Ordered
<1>2. k \in 1 .. Len(s)
  BY <1>1
<1>3. CASE l \in 1 .. Len(s)
  BY <1>1, <1>2, <1>3 DEF Ordered
<1>4. CASE l = Len(s) + 1
  <2>1. Append(s, x)[l] = x /\ Append(s, x)[k] = s[k] /\ s[k] \in S
    BY <1>1, <1>2, <1>4
  <2>2. In(s[k], s)
    BY <1>2 DEF In
  <2> QED
    BY <2>1, <2>2
<1> QED
  BY <1>1, <1>3, <1>4

\* What is in a queue, in order, after its first handler has been taken.
LEMMA TailIn ==
  ASSUME NEW S, NEW s \in Seq(S), s # <<>>, Ordered(s)
  PROVE  /\ \A h : In(h, Tail(s)) <=> In(h, s) /\ h # Head(s)
         /\ Ordered(Tail(s))
         /\ In(Head(s), s)
<1>1. /\ Len(s) \in Nat /\ Len(s) >= 1 /\ Len(Tail(s)) = Len(s) - 1
      /\ \A k \in 1 .. Len(s) - 1 : Tail(s)[k] = s[k + 1]
      /\ Head(s) = s[1]
  OBVIOUS
<1>2. \A k \in 1 .. Len(s) - 1 : k + 1 \in 1 .. Len(s) /\ 1 < k + 1
  BY <1>1
<1>3. \A k \in 1 .. Len(s) : k # 1 => k - 1 \in 1 .. Len(s) - 1 /\ (k - 1) + 1 = k /\ 1 < k
  BY <1>1
<1>4. 1 \in 1 .. Len(s)
  BY <1>1
<1>5. \A k \in 1 .. Len(s) : k # 1 => s[k] # s[1]
  BY <1>3, <1>4 DEF Ordered
<1>6. ASSUME NEW h, In(h, Tail(s)) PROVE In(h, s) /\ h # Head(s)
  <2>1. PICK k \in 1 .. Len(s) - 1 : Tail(s)[k] = h
    BY <1>1, <1>6 DEF In
  <2>2. k + 1 \in 1 .. Len(s) /\ k + 1 # 1 /\ s[k + 1] = h
    BY <1>1, <1>2, <2>1
  <2> QED
    BY <1>1, <1>5, <2>2 DEF In
<1>7. ASSUME NEW h, In(h, s), h # Head(s) PROVE In(h, Tail(s))
  <2>1. PICK k \in 1 .. Len(s) : s[k] = h
    BY <1>7 DEF In
  <2>2. k - 1 \in 1 .. Len(s) - 1 /\ Tail(s)[k - 1] = h
    BY <1>1, <1>3, <1>7, <2>1
  <2> QED
    BY <1>1, <2>2 DEF In
<1>8. Ordered(Tail(s))
  <2> SUFFICES ASSUME NEW k \in 1 .. Len(s) - 1, NEW l \in 1 .. Len(s) - 1, k < l,
                      Tail(s)[k][2] = Tail(s)[l][2]
               PROVE  Tail(s)[k][1] = "insert" /\ Tail(s)[l][1] = "end"
    BY <1>1 DEF Ordered
  <2>1. Tail(s)[k] = s[k + 1] /\ Tail(s)[l] = s[l + 1] /\ k + 1 < l + 1
    BY <1>1
  <2> QED
    BY <1>2, <2>1 DEF Ordered
<1>9. In(Head(s), s)
  BY <1>1, <1>4 DEF In
<1> QED
  BY <1>6, <1>7, <1>8, <1>9

\* No insertion of a connection is behind its end.
LEMMA EndIsLast ==
  ASSUME NEW S, NEW s \in Seq(S), s # <<>>, Ordered(s), NEW p, Head(s) = <<"end", p>>
  PROVE  ~In(<<"insert", p>>, s)
<1>1. Len(s) \in Nat /\ Len(s) >= 1 /\ Head(s) = s[1]
  OBVIOUS
<1> SUFFICES ASSUME NEW k \in 1 .. Len(s), s[k] = <<"insert", p>>
             PROVE  FALSE
  BY DEF In
<1>2. s[1][1] = "end" /\ s[1][2] = p /\ s[k][1] = "insert" /\ s[k][2] = p
  BY <1>1
<1>3. 1 \in 1 .. Len(s) /\ (k = 1 \/ 1 < k)
  BY <1>1
<1> QED
  BY <1>2, <1>3 DEF Ordered

-----------------------------------------------------------------------------
\* The accept handler has its peer, which nobody else touches before the first read.
StageOK ==
  at["acceptor"] # "idle" => peer[handled] = IF at["acceptor"] = "read" THEN "set" ELSE "accepted"

\* Queues are in order, and have handlers only of the thread's own connections, at their stages.
QueueOK ==
  \A i \in Iocs :
    /\ Ordered(posted[i])
    /\ \A p \in Peers :
         /\ In(<<"insert", p>>, posted[i]) => ioc[p] = i /\ peer[p] \in {"set", "reading", "ended"}
         /\ In(<<"end", p>>, posted[i]) => ioc[p] = i /\ peer[p] = "ended"

\* Open connections have descriptors of their own.
FdsOK == \A p, q \in Peers : Open(p) /\ Open(q) /\ fd[p] = fd[q] => p = q

\* A thread closes its own connections.
CloseOK == \A i \in Iocs, p \in Peers : closing[i] = p => ioc[p] = i /\ peer[p] = "closed"

Listed(p) == peer[p] \in {"set", "reading", "ended"} /\ ~In(<<"insert", p>>, posted[ioc[p]])

\* TableExact, about the insertions left in the queue.
TableOK ==
  \A i \in Iocs, f \in Fds, p \in Peers :
    table[i][f] = p <=> ioc[p] = i /\ fd[p] = f /\ (Listed(p) \/ closing[i] = p)

ConnInv == StageOK /\ QueueOK /\ FdsOK /\ CloseOK /\ TableOK

\* At first there are no connections.
LEMMA InitConn == Init => ConnInv
<1> SUFFICES ASSUME Init PROVE ConnInv
  OBVIOUS
<1>1. StageOK
  BY DEF Init, StageOK, Threads
<1>2. QueueOK
  BY DEF Init, QueueOK, In, Ordered
<1>3. FdsOK
  BY DEF Init, FdsOK, Open
<1>4. CloseOK
  BY AcceptorAssumption DEF Init, CloseOK
<1>5. TableOK
  BY AcceptorAssumption DEF Init, TableOK, Listed
<1> QED
  BY <1>1, <1>2, <1>3, <1>4, <1>5 DEF ConnInv

\* Steps that leave connections, queues and tables alone.
LEMMA OtherConn ==
  ASSUME ConnInv, UNCHANGED <<peer, ioc, fd, posted, closing, table>>, StageOK'
  PROVE  ConnInv'
<1>1. QueueOK'
  BY DEF ConnInv, QueueOK
<1>2. FdsOK'
  BY DEF ConnInv, FdsOK, Open
<1>3. CloseOK'
  BY DEF ConnInv, CloseOK
<1>4. \A q : Listed(q)' <=> Listed(q)
  BY DEF Listed
<1>5. TableOK'
  BY <1>4 DEF ConnInv, TableOK
<1> QED
  BY <1>1, <1>2, <1>3, <1>5 DEF ConnInv

\* async_accept's loop.
LEMMA LoopConn ==
  ASSUME TypeInv, ConnInv, NEW t \in Threads, Index(t) \/ Bump(t) \/ Compare(t) \/ Wrap(t) \/ Arm(t)
  PROVE  ConnInv'
<1>1. UNCHANGED <<peer, ioc, fd, posted, closing, table, handled>>
  BY DEF Index, Bump, Compare, Wrap, Arm, connVars, ioVars
<1>2. at[t] \in {"index", "bump", "compare", "wrap", "arm"}
  BY DEF Index, Bump, Compare, Wrap, Arm
<1>3. /\ at'[t] \in {"index", "bump", "compare", "wrap", "arm", "handle"} \/ t = "main"
      /\ \A u \in Threads : u # t => at'[u] = at[u]
  <2>1. CASE Index(t)
    BY <2>1 DEF Index, Goto, TypeInv, TypeOK
  <2>2. CASE Bump(t)
    BY <2>2 DEF Bump, Goto, TypeInv, TypeOK
  <2>3. CASE Wrap(t)
    BY <2>3 DEF Wrap, Goto, TypeInv, TypeOK
  <2>4. CASE Arm(t)
    BY <2>4 DEF Arm, Goto, TypeInv, TypeOK
  <2>5. CASE Compare(t)
    BY <2>5 DEF Compare, Goto, TypeInv, TypeOK
  <2> QED
    BY <2>1, <2>2, <2>3, <2>4, <2>5
<1>4. StageOK'
  <2>1. CASE t = "main"
    BY <2>1, <1>1, <1>3 DEF ConnInv, StageOK, Threads
  <2>2. CASE t = "acceptor"
    BY <2>2, <1>1, <1>2, <1>3 DEF ConnInv, StageOK
  <2> QED
    BY <2>1, <2>2 DEF Threads
<1> QED
  BY <1>1, <1>4, OtherConn

\* Accepting a connection: it gets a descriptor no open connection has, and is in no queue or table.
LEMMA AcceptConn ==
  ASSUME TypeInv, ConnInv, NEW p \in Peers, Accept(p) PROVE ConnInv'
<1>1. /\ peer[p] = "backlog" /\ peer' = [peer EXCEPT ![p] = "accepted"]
      /\ handled' = p /\ posted' = posted /\ closing' = closing /\ table' = table
  BY DEF Accept, ioVars
<1>2. peer'[p] = "accepted" /\ \A q \in Peers : q # p => peer'[q] = peer[q] /\ ioc'[q] = ioc[q] /\ fd'[q] = fd[q]
  BY DEF Accept, TypeInv, TypeOK
<1>3. StageOK'
  <2>1. at'["acceptor"] = "index"
    BY DEF Accept, Goto, TypeInv, TypeOK, Threads
  <2> QED
    BY <1>1, <1>2, <2>1 DEF StageOK
<1>4. QueueOK'
  <2> SUFFICES ASSUME NEW i \in Iocs, NEW q \in Peers
               PROVE  /\ Ordered(posted[i])
                      /\ In(<<"insert", q>>, posted[i]) => ioc'[q] = i /\ peer'[q] \in {"set", "reading", "ended"}
                      /\ In(<<"end", q>>, posted[i]) => ioc'[q] = i /\ peer'[q] = "ended"
    BY <1>1 DEF QueueOK
  <2>1. /\ Ordered(posted[i])
        /\ In(<<"insert", q>>, posted[i]) => ioc[q] = i /\ peer[q] \in {"set", "reading", "ended"}
        /\ In(<<"end", q>>, posted[i]) => ioc[q] = i /\ peer[q] = "ended"
    BY DEF ConnInv, QueueOK
  <2> QED
    BY <1>1, <1>2, <2>1
<1>5. FdsOK'
  <2>1. fd'[p] \in FreeFds
    BY DEF Accept, TypeInv, TypeOK
  <2>2. \A q \in Peers : Open(q) => fd[q] # fd'[p]
    BY <2>1 DEF FreeFds
  <2>3. \A q \in Peers : q # p => (Open(q)' <=> Open(q))
    BY <1>2 DEF Open
  <2> QED
    BY <1>2, <2>2, <2>3 DEF ConnInv, FdsOK
<1>6. CloseOK'
  BY <1>1, <1>2 DEF ConnInv, CloseOK
<1>7. TableOK'
  <2> SUFFICES ASSUME NEW i \in Iocs, NEW f \in Fds, NEW q \in Peers
               PROVE  table[i][f] = q <=> ioc'[q] = i /\ fd'[q] = f /\ (Listed(q)' \/ closing[i] = q)
    BY <1>1 DEF TableOK
  <2>1. CASE q = p
    <3>1. ~Listed(p) /\ ~Listed(p)'
      BY <1>1, <1>2 DEF Listed
    <3>2. closing[i] # p
      BY <1>1 DEF ConnInv, CloseOK
    <3> QED
      BY <2>1, <3>1, <3>2 DEF ConnInv, TableOK
  <2>2. CASE q # p
    <3>1. Listed(q)' <=> Listed(q)
      BY <1>1, <1>2, <2>2 DEF Listed
    <3> QED
      BY <1>2, <2>2, <3>1 DEF ConnInv, TableOK
  <2> QED
    BY <2>1, <2>2
<1> QED
  BY <1>3, <1>4, <1>5, <1>6, <1>7 DEF ConnInv

\* A peer arrives, which is in no queue or table, or resets, or an accept fails.
LEMMA PeerConn ==
  ASSUME TypeInv, ConnInv, NEW p \in Peers, PeerConnects(p) \/ PeerResets(p) \/ AcceptFails(p)
  PROVE  ConnInv'
<1>1. CASE PeerResets(p) \/ AcceptFails(p)
  <2>1. UNCHANGED <<peer, ioc, fd, posted, closing, table, handled, at>>
    BY <1>1 DEF PeerResets, AcceptFails, connVars, ioVars, loopVars
  <2>2. StageOK'
    BY <2>1 DEF ConnInv, StageOK
  <2> QED
    BY <2>1, <2>2, OtherConn
<1>2. CASE PeerConnects(p)
  <2>1. peer[p] = "away" /\ UNCHANGED <<ioc, fd, posted, closing, table, handled, at>>
    BY <1>2 DEF PeerConnects, ioVars, loopVars
  <2>2. peer'[p] = "backlog" /\ \A q \in Peers : q # p => peer'[q] = peer[q]
    BY <1>2 DEF PeerConnects, TypeInv, TypeOK
  <2>3. StageOK'
    BY <2>1, <2>2 DEF ConnInv, StageOK, TypeInv, LoopOK
  <2>4. QueueOK'
    BY <2>1, <2>2 DEF ConnInv, QueueOK
  <2>5. FdsOK'
    BY <2>1, <2>2 DEF ConnInv, FdsOK, Open
  <2>6. CloseOK'
    BY <2>1, <2>2 DEF ConnInv, CloseOK
  <2>7. \A q \in Peers : Listed(q)' <=> Listed(q)
    BY <2>1, <2>2 DEF Listed
  <2>8. TableOK'
    BY <2>1, <2>7 DEF ConnInv, TableOK
  <2> QED
    BY <2>3, <2>4, <2>5, <2>6, <2>8 DEF ConnInv
<1> QED
  BY <1>1, <1>2

\* handle_accept posts the insertion of a connection that is in no queue and no table.
LEMMA HandleAcceptConn ==
  ASSUME TypeInv, ConnInv, HandleAccept PROVE ConnInv'
<1> DEFINE p == handled
<1>0. p \in Peers /\ ioc[p] \in Iocs /\ at["acceptor"] = "handle" /\ peer[p] = "accepted"
  BY DEF HandleAccept, ConnInv, StageOK, TypeInv, TypeOK, LoopOK
<1>1. CASE UNCHANGED <<peer, posted, at>>
  <2>1. UNCHANGED <<peer, ioc, fd, posted, closing, table, handled, at>>
    BY <1>1 DEF HandleAccept
  <2>2. StageOK'
    BY <2>1 DEF ConnInv, StageOK
  <2> QED
    BY <2>1, <2>2, OtherConn
<1>2. CASE /\ peer' = [peer EXCEPT ![p] = "set"]
           /\ posted' = [posted EXCEPT ![ioc[p]] = Append(@, <<"insert", p>>)]
           /\ Goto("acceptor", "read")
  <2> HIDE DEF p
  <2>1. UNCHANGED <<ioc, fd, closing, table, handled>>
    BY DEF HandleAccept
  <2>2. peer'[p] = "set" /\ \A q \in Peers : q # p => peer'[q] = peer[q]
    BY <1>0, <1>2 DEF TypeInv, TypeOK
  <2>3. \A i \in Iocs : posted'[i] = IF i = ioc[p] THEN Append(posted[i], <<"insert", p>>) ELSE posted[i]
    BY <1>2 DEF TypeInv, TypeOK
  <2>4. \A i \in Iocs : ~In(<<"insert", p>>, posted[i]) /\ ~In(<<"end", p>>, posted[i])
    BY <1>0 DEF ConnInv, QueueOK
  <2>5. \A i \in Iocs : posted[i] \in Seq({"insert", "end"} \X Peers)
    BY DEF TypeInv, TypeOK
  <2>6. <<"insert", p>> \in {"insert", "end"} \X Peers
    BY <1>0
  <2>7. ASSUME NEW i \in Iocs, NEW h
        PROVE  In(h, posted'[i]) <=> In(h, posted[i]) \/ (i = ioc[p] /\ h = <<"insert", p>>)
    <3>1. CASE i = ioc[p]
      <4>1. In(h, Append(posted[i], <<"insert", p>>)) <=> In(h, posted[i]) \/ h = <<"insert", p>>
        BY <2>5, <2>6, AppendIn
      <4> QED
        BY <2>3, <3>1, <4>1
    <3>2. CASE i # ioc[p]
      BY <2>3, <3>2
    <3> QED
      BY <3>1, <3>2
  <2>8. ASSUME NEW i \in Iocs PROVE Ordered(posted'[i])
    <3>1. Ordered(posted[i])
      BY DEF ConnInv, QueueOK
    <3>2. \A h \in {"insert", "end"} \X Peers : In(h, posted[i]) => h[2] # p
      <4> SUFFICES ASSUME NEW h \in {"insert", "end"} \X Peers, In(h, posted[i]), h[2] = p
                   PROVE  FALSE
        OBVIOUS
      <4>1. h = <<"insert", p>> \/ h = <<"end", p>>
        OBVIOUS
      <4> QED
        BY <4>1, <2>4
    <3>3. Ordered(Append(posted[i], <<"insert", p>>))
      BY <2>5, <2>6, <3>1, <3>2, AppendOrdered
    <3> QED
      BY <2>3, <3>1, <3>3
  <2>9. StageOK'
    <3>1. at'["acceptor"] = "read"
      BY <1>2 DEF Goto, TypeInv, TypeOK, Threads
    <3> QED
      BY <2>1, <2>2, <3>1 DEF StageOK, p
  <2>10. QueueOK'
    <3> SUFFICES ASSUME NEW i \in Iocs, NEW q \in Peers
                 PROVE  /\ In(<<"insert", q>>, posted'[i]) => ioc[q] = i /\ peer'[q] \in {"set", "reading", "ended"}
                        /\ In(<<"end", q>>, posted'[i]) => ioc[q] = i /\ peer'[q] = "ended"
      BY <2>1, <2>8 DEF QueueOK
    <3>1. /\ In(<<"insert", q>>, posted'[i]) <=> In(<<"insert", q>>, posted[i]) \/ (i = ioc[p] /\ q = p)
          /\ In(<<"end", q>>, posted'[i]) <=> In(<<"end", q>>, posted[i])
      BY <2>7
    <3>2. /\ In(<<"insert", q>>, posted[i]) => ioc[q] = i /\ peer[q] \in {"set", "reading", "ended"}
          /\ In(<<"end", q>>, posted[i]) => ioc[q] = i /\ peer[q] = "ended"
      BY DEF ConnInv, QueueOK
    <3> QED
      BY <1>0, <2>2, <3>1, <3>2
  <2>11. FdsOK'
    <3>1. \A q \in Peers : Open(q)' <=> Open(q)
      BY <1>0, <2>2 DEF Open
    <3> QED
      BY <2>1, <3>1 DEF ConnInv, FdsOK
  <2>12. CloseOK'
    BY <1>0, <2>1, <2>2 DEF ConnInv, CloseOK
  <2>13. ASSUME NEW q \in Peers PROVE Listed(q)' <=> Listed(q)
    <3>1. ioc[q] \in Iocs /\ ioc' = ioc
      BY <2>1 DEF TypeInv, TypeOK
    <3>2. In(<<"insert", q>>, posted'[ioc[q]]) <=> In(<<"insert", q>>, posted[ioc[q]]) \/ q = p
      BY <2>7, <3>1
    <3> QED
      BY <1>0, <2>2, <3>1, <3>2 DEF Listed
  <2>14. TableOK'
    BY <2>1, <2>13 DEF ConnInv, TableOK
  <2> QED
    BY <2>9, <2>10, <2>11, <2>12, <2>14 DEF ConnInv
<1> QED
  BY <1>1, <1>2 DEF HandleAccept

\* The first read is started: the insertion may have run or not.
LEMMA StartReadConn ==
  ASSUME TypeInv, ConnInv, StartRead PROVE ConnInv'
<1>0. handled \in Peers /\ peer[handled] = "set"
  BY DEF StartRead, ConnInv, StageOK, TypeInv, LoopOK
<1>1. UNCHANGED <<ioc, fd, posted, closing, table>>
  BY DEF StartRead, ioVars
<1>2. peer'[handled] = "reading" /\ \A q \in Peers : q # handled => peer'[q] = peer[q]
  BY <1>0 DEF StartRead, TypeInv, TypeOK
<1>3. StageOK'
  BY DEF StartRead, Goto, StageOK, TypeInv, TypeOK, Threads
<1>4. QueueOK'
  <2> SUFFICES ASSUME NEW i \in Iocs, NEW q \in Peers
               PROVE  /\ Ordered(posted[i])
                      /\ In(<<"insert", q>>, posted[i]) => ioc[q] = i /\ peer'[q] \in {"set", "reading", "ended"}
                      /\ In(<<"end", q>>, posted[i]) => ioc[q] = i /\ peer'[q] = "ended"
    BY <1>0, <1>1 DEF QueueOK
  <2>1. /\ Ordered(posted[i])
        /\ In(<<"insert", q>>, posted[i]) => ioc[q] = i /\ peer[q] \in {"set", "reading", "ended"}
        /\ In(<<"end", q>>, posted[i]) => ioc[q] = i /\ peer[q] = "ended"
    BY DEF ConnInv, QueueOK
  <2> QED
    BY <1>0, <1>2, <2>1
<1>5. FdsOK'
  <2>1. \A q \in Peers : Open(q)' <=> Open(q)
    BY <1>0, <1>2 DEF Open
  <2> QED
    BY <1>1, <2>1 DEF ConnInv, FdsOK
<1>6. CloseOK'
  BY <1>0, <1>1, <1>2 DEF ConnInv, CloseOK
<1>7. \A q \in Peers : Listed(q)' <=> Listed(q)
  BY <1>0, <1>1, <1>2 DEF Listed
<1>8. TableOK'
  BY <1>1, <1>7 DEF ConnInv, TableOK
<1> QED
  BY <1>3, <1>4, <1>5, <1>6, <1>8 DEF ConnInv

\* The last read posts the end of the connection behind its insertion.
LEMMA ReadEndsConn ==
  ASSUME TypeInv, ConnInv, NEW p \in Peers, ReadEnds(p) PROVE ConnInv'
<1>0. ioc[p] \in Iocs /\ peer[p] = "reading"
  BY DEF ReadEnds, TypeInv, TypeOK
<1>1. UNCHANGED <<ioc, fd, closing, table, handled, at>>
  BY DEF ReadEnds, loopVars
<1>2. peer'[p] = "ended" /\ \A q \in Peers : q # p => peer'[q] = peer[q]
  BY DEF ReadEnds, TypeInv, TypeOK
<1>3. \A i \in Iocs : posted'[i] = IF i = ioc[p] THEN Append(posted[i], <<"end", p>>) ELSE posted[i]
  BY DEF ReadEnds, TypeInv, TypeOK
<1>4. \A i \in Iocs : ~In(<<"end", p>>, posted[i])
  BY <1>0 DEF ConnInv, QueueOK
<1>5. \A i \in Iocs : posted[i] \in Seq({"insert", "end"} \X Peers)
  BY DEF TypeInv, TypeOK
<1>6. <<"end", p>> \in {"insert", "end"} \X Peers
  OBVIOUS
<1>7. ASSUME NEW i \in Iocs, NEW h
      PROVE  In(h, posted'[i]) <=> In(h, posted[i]) \/ (i = ioc[p] /\ h = <<"end", p>>)
  <2>1. CASE i = ioc[p]
    <3>1. In(h, Append(posted[i], <<"end", p>>)) <=> In(h, posted[i]) \/ h = <<"end", p>>
      BY <1>5, <1>6, AppendIn
    <3> QED
      BY <1>3, <2>1, <3>1
  <2>2. CASE i # ioc[p]
    BY <1>3, <2>2
  <2> QED
    BY <2>1, <2>2
<1>8. ASSUME NEW i \in Iocs PROVE Ordered(posted'[i])
  <2>1. Ordered(posted[i])
    BY DEF ConnInv, QueueOK
  <2>2. \A h \in {"insert", "end"} \X Peers : In(h, posted[i]) /\ h[2] = p => h[1] = "insert"
    <3> SUFFICES ASSUME NEW h \in {"insert", "end"} \X Peers, In(h, posted[i]), h[2] = p, h[1] # "insert"
                 PROVE  FALSE
      OBVIOUS
    <3>1. h = <<"end", p>>
      OBVIOUS
    <3> QED
      BY <3>1, <1>4
  <2>3. Ordered(Append(posted[i], <<"end", p>>))
    BY <1>5, <1>6, <2>1, <2>2, AppendOrdered
  <2> QED
    BY <1>3, <2>1, <2>3
<1>9. StageOK'
  BY <1>0, <1>1, <1>2 DEF ConnInv, StageOK, TypeInv, LoopOK
<1>10. QueueOK'
  <2> SUFFICES ASSUME NEW i \in Iocs, NEW q \in Peers
               PROVE  /\ In(<<"insert", q>>, posted'[i]) => ioc[q] = i /\ peer'[q] \in {"set", "reading", "ended"}
                      /\ In(<<"end", q>>, posted'[i]) => ioc[q] = i /\ peer'[q] = "ended"
    BY <1>1, <1>8 DEF QueueOK
  <2>1. /\ In(<<"insert", q>>, posted'[i]) <=> In(<<"insert", q>>, posted[i])
        /\ In(<<"end", q>>, posted'[i]) <=> In(<<"end", q>>, posted[i]) \/ (i = ioc[p] /\ q = p)
    BY <1>7
  <2>2. /\ In(<<"insert", q>>, posted[i]) => ioc[q] = i /\ peer[q] \in {"set", "reading", "ended"}
        /\ In(<<"end", q>>, posted[i]) => ioc[q] = i /\ peer[q] = "ended"
    BY DEF ConnInv, QueueOK
  <2> QED
    BY <1>0, <1>2, <2>1, <2>2
<1>11. FdsOK'
  <2>1. \A q \in Peers : Open(q)' <=> Open(q)
    BY <1>0, <1>2 DEF Open
  <2> QED
    BY <1>1, <2>1 DEF ConnInv, FdsOK
<1>12. CloseOK'
  BY <1>0, <1>1, <1>2 DEF ConnInv, CloseOK
<1>13. ASSUME NEW q \in Peers PROVE Listed(q)' <=> Listed(q)
  <2>1. ioc[q] \in Iocs /\ ioc' = ioc
    BY <1>1 DEF TypeInv, TypeOK
  <2>2. In(<<"insert", q>>, posted'[ioc[q]]) <=> In(<<"insert", q>>, posted[ioc[q]])
    BY <1>7, <2>1
  <2>3. peer'[q] \in {"set", "reading", "ended"} <=> peer[q] \in {"set", "reading", "ended"}
    BY <1>0, <1>2
  <2> QED
    BY <2>1, <2>2, <2>3 DEF Listed
<1>14. TableOK'
  BY <1>1, <1>13 DEF ConnInv, TableOK
<1> QED
  BY <1>9, <1>10, <1>11, <1>12, <1>14 DEF ConnInv

\* The first handler of a thread's queue is taken: what it is, and what is left.
LEMMA TakeHandler ==
  ASSUME TypeOK, QueueOK, NEW i \in Iocs, posted[i] # <<>>,
         posted' = [posted EXCEPT ![i] = Tail(@)]
  PROVE  /\ Head(posted[i]) \in {"insert", "end"} \X Peers /\ In(Head(posted[i]), posted[i])
         /\ \A j \in Iocs : Ordered(posted'[j])
         /\ \A j \in Iocs : \A h :
              In(h, posted'[j]) <=> In(h, posted[j]) /\ ~(j = i /\ h = Head(posted[i]))
<1>1. posted[i] \in Seq({"insert", "end"} \X Peers) /\ Head(posted[i]) \in {"insert", "end"} \X Peers
  BY HeadType
<1>2. \A j \in Iocs : Ordered(posted[j])
  BY DEF QueueOK
<1>3. /\ \A h : In(h, Tail(posted[i])) <=> In(h, posted[i]) /\ h # Head(posted[i])
      /\ Ordered(Tail(posted[i])) /\ In(Head(posted[i]), posted[i])
  BY <1>1, <1>2, TailIn
<1>4. posted'[i] = Tail(posted[i]) /\ \A j \in Iocs : j # i => posted'[j] = posted[j]
  BY DEF TypeOK
<1> QED
  BY <1>1, <1>2, <1>3, <1>4

\* An insertion: no other open connection has the descriptor, and none is being closed.
LEMMA InsertConn ==
  ASSUME TypeInv, ConnInv, NEW i \in Iocs, Insert(i) PROVE ConnInv'
<1> DEFINE p == Head(posted[i])[2]
<1>0. /\ closing[i] = NoPeer /\ table' = [table EXCEPT ![i][fd[p]] = p]
      /\ UNCHANGED <<peer, ioc, fd, closing, handled, at>>
  BY DEF Insert, Table, connVars, loopVars
<1>1. /\ Head(posted[i]) \in {"insert", "end"} \X Peers /\ In(Head(posted[i]), posted[i])
      /\ \A j \in Iocs : Ordered(posted'[j])
      /\ \A j \in Iocs : \A h :
           In(h, posted'[j]) <=> In(h, posted[j]) /\ ~(j = i /\ h = Head(posted[i]))
  BY TakeHandler DEF Insert, TypeInv, ConnInv
<1>2. p \in Peers /\ Head(posted[i]) = <<"insert", p>>
  BY <1>1 DEF Insert
<1> HIDE DEF p
<1>3. In(<<"insert", p>>, posted[i]) /\ ioc[p] = i /\ peer[p] \in {"set", "reading", "ended"}
  <2>1. In(<<"insert", p>>, posted[i])
    BY <1>1, <1>2
  <2> QED
    BY <1>2, <2>1 DEF ConnInv, QueueOK
<1>4. StageOK'
  BY <1>0 DEF ConnInv, StageOK
<1>5. QueueOK'
  <2> SUFFICES ASSUME NEW j \in Iocs, NEW q \in Peers
               PROVE  /\ In(<<"insert", q>>, posted'[j]) => ioc[q] = j /\ peer[q] \in {"set", "reading", "ended"}
                      /\ In(<<"end", q>>, posted'[j]) => ioc[q] = j /\ peer[q] = "ended"
    BY <1>0, <1>1 DEF QueueOK
  <2>1. /\ In(<<"insert", q>>, posted'[j]) => In(<<"insert", q>>, posted[j])
        /\ In(<<"end", q>>, posted'[j]) => In(<<"end", q>>, posted[j])
    BY <1>1
  <2> QED
    BY <2>1 DEF ConnInv, QueueOK
<1>6. FdsOK'
  BY <1>0 DEF ConnInv, FdsOK, Open
<1>7. CloseOK'
  BY <1>0 DEF ConnInv, CloseOK
<1>8. ASSUME NEW q \in Peers PROVE Listed(q)' <=> Listed(q) \/ q = p
  <2>1. ioc[q] \in Iocs /\ ioc' = ioc /\ peer' = peer
    BY <1>0 DEF TypeInv, TypeOK
  <2>2. In(<<"insert", q>>, posted'[ioc[q]]) <=> In(<<"insert", q>>, posted[ioc[q]]) /\ ~(ioc[q] = i /\ q = p)
    BY <1>1, <1>2, <2>1
  <2> QED
    BY <1>3, <2>1, <2>2 DEF Listed
<1>9. TableOK'
  <2> SUFFICES ASSUME NEW j \in Iocs, NEW f \in Fds, NEW q \in Peers
               PROVE  table'[j][f] = q <=> ioc[q] = j /\ fd[q] = f /\ (Listed(q)' \/ closing[j] = q)
    BY <1>0 DEF TableOK
  <2>1. table[j][f] = q <=> ioc[q] = j /\ fd[q] = f /\ (Listed(q) \/ closing[j] = q)
    BY DEF ConnInv, TableOK
  <2>2. table'[j][f] = IF j = i /\ f = fd[p] THEN p ELSE table[j][f]
    BY <1>0 DEF TypeInv, TypeOK
  <2>3. CASE q = p
    BY <1>3, <1>8, <2>1, <2>2, <2>3
  <2>4. CASE q # p /\ j = i /\ f = fd[p]
    <3>0. Open(p) /\ (Listed(q) => Open(q))
      BY <1>3 DEF Open, Listed
    <3>1. Listed(q) /\ fd[q] = f => q = p
      BY <1>2, <2>4, <3>0 DEF ConnInv, FdsOK
    <3>2. closing[j] # q
      BY <1>0, <2>4, AcceptorAssumption
    <3> QED
      BY <1>8, <2>2, <2>4, <3>1, <3>2
  <2>5. CASE q # p /\ ~(j = i /\ f = fd[p])
    BY <1>8, <2>1, <2>2, <2>5
  <2> QED
    BY <2>3, <2>4, <2>5
<1> QED
  BY <1>4, <1>5, <1>6, <1>7, <1>9 DEF ConnInv

\* The socket is closed: its insertion has run, and its entry stays for release().
LEMMA CloseSocketConn ==
  ASSUME TypeInv, ConnInv, NEW i \in Iocs, CloseSocket(i) PROVE ConnInv'
<1> DEFINE p == Head(posted[i])[2]
<1>0. /\ closing[i] = NoPeer /\ closing' = [closing EXCEPT ![i] = p]
      /\ peer' = [peer EXCEPT ![p] = "closed"]
      /\ UNCHANGED <<ioc, fd, table, handled, at>>
  BY DEF CloseSocket, loopVars
<1>1. /\ Head(posted[i]) \in {"insert", "end"} \X Peers /\ In(Head(posted[i]), posted[i])
      /\ \A j \in Iocs : Ordered(posted'[j])
      /\ \A j \in Iocs : \A h :
           In(h, posted'[j]) <=> In(h, posted[j]) /\ ~(j = i /\ h = Head(posted[i]))
  BY TakeHandler DEF CloseSocket, TypeInv, ConnInv
<1>2. p \in Peers /\ Head(posted[i]) = <<"end", p>>
  BY <1>1 DEF CloseSocket
<1> HIDE DEF p
<1>3. ioc[p] = i /\ peer[p] = "ended"
  <2>1. In(<<"end", p>>, posted[i])
    BY <1>1, <1>2
  <2> QED
    BY <1>2, <2>1 DEF ConnInv, QueueOK
<1>4. ~In(<<"insert", p>>, posted[i])
  <2>1. posted[i] \in Seq({"insert", "end"} \X Peers) /\ Ordered(posted[i]) /\ posted[i] # <<>>
    BY DEF CloseSocket, TypeInv, TypeOK, ConnInv, QueueOK
  <2> QED
    BY <1>2, <2>1, EndIsLast
<1>5. peer'[p] = "closed" /\ \A q \in Peers : q # p => peer'[q] = peer[q]
  BY <1>0, <1>2 DEF TypeInv, TypeOK
<1>6. closing'[i] = p /\ \A j \in Iocs : j # i => closing'[j] = closing[j]
  BY <1>0 DEF TypeInv, TypeOK
<1>7. StageOK'
  BY <1>0, <1>3, <1>5 DEF ConnInv, StageOK, TypeInv, LoopOK
<1>8. QueueOK'
  <2> SUFFICES ASSUME NEW j \in Iocs, NEW q \in Peers
               PROVE  /\ In(<<"insert", q>>, posted'[j]) => ioc[q] = j /\ peer'[q] \in {"set", "reading", "ended"}
                      /\ In(<<"end", q>>, posted'[j]) => ioc[q] = j /\ peer'[q] = "ended"
    BY <1>0, <1>1 DEF QueueOK
  <2>1. /\ In(<<"insert", q>>, posted'[j]) => In(<<"insert", q>>, posted[j])
        /\ In(<<"end", q>>, posted'[j]) => In(<<"end", q>>, posted[j]) /\ ~(j = i /\ q = p)
    BY <1>1, <1>2
  <2>2. /\ In(<<"insert", q>>, posted[j]) => ioc[q] = j /\ peer[q] \in {"set", "reading", "ended"}
        /\ In(<<"end", q>>, posted[j]) => ioc[q] = j /\ peer[q] = "ended"
    BY DEF ConnInv, QueueOK
  <2> QED
    BY <1>3, <1>4, <1>5, <2>1, <2>2
<1>9. FdsOK'
  <2>1. \A q \in Peers : Open(q)' => Open(q)
    BY <1>5 DEF Open
  <2> QED
    BY <1>0, <2>1 DEF ConnInv, FdsOK
<1>10. CloseOK'
  <2> SUFFICES ASSUME NEW j \in Iocs, NEW q \in Peers, closing'[j] = q
               PROVE  ioc[q] = j /\ peer'[q] = "closed"
    BY <1>0 DEF CloseOK
  <2>1. CASE j = i
    BY <1>3, <1>5, <1>6, <2>1
  <2>2. CASE j # i
    BY <1>5, <1>6, <2>2 DEF ConnInv, CloseOK
  <2> QED
    BY <2>1, <2>2
<1>11. ASSUME NEW q \in Peers PROVE Listed(q)' <=> Listed(q) /\ q # p
  <2>1. ioc[q] \in Iocs /\ ioc' = ioc
    BY <1>0 DEF TypeInv, TypeOK
  <2>2. In(<<"insert", q>>, posted'[ioc[q]]) <=> In(<<"insert", q>>, posted[ioc[q]])
    BY <1>1, <1>2, <2>1
  <2> QED
    BY <1>5, <2>1, <2>2 DEF Listed
<1>12. Listed(p)
  BY <1>3, <1>4 DEF Listed
<1>13. TableOK'
  <2> SUFFICES ASSUME NEW j \in Iocs, NEW f \in Fds, NEW q \in Peers
               PROVE  table[j][f] = q <=> ioc[q] = j /\ fd[q] = f /\ (Listed(q)' \/ closing'[j] = q)
    BY <1>0 DEF TableOK
  <2>1. table[j][f] = q <=> ioc[q] = j /\ fd[q] = f /\ (Listed(q) \/ closing[j] = q)
    BY DEF ConnInv, TableOK
  <2>2. CASE q = p
    BY <1>3, <1>6, <1>12, <2>1, <2>2
  <2>3. CASE q # p
    <3>1. closing'[j] = q <=> closing[j] = q
      BY <1>0, <1>6, <2>3, AcceptorAssumption
    <3> QED
      BY <1>11, <2>1, <2>3, <3>1
  <2> QED
    BY <2>2, <2>3
<1> QED
  BY <1>7, <1>8, <1>9, <1>10, <1>13 DEF ConnInv

\* release() erases the closed connection's entry: a connection that has got the descriptor since
\* cannot be in this table, as its insertion waits behind.
LEMMA ReleaseConn ==
  ASSUME TypeInv, ConnInv, NEW i \in Iocs, Release(i) PROVE ConnInv'
<1> DEFINE p == closing[i]
<1>0. /\ table' = [table EXCEPT ![i][fd[p]] = NoPeer] /\ closing' = [closing EXCEPT ![i] = NoPeer]
      /\ UNCHANGED <<peer, ioc, fd, posted, handled, at>>
  BY DEF Release, Table, connVars, loopVars
<1>1. p \in Peers
  BY DEF Release, TypeInv, TypeOK
<1>2. ioc[p] = i /\ peer[p] = "closed"
  BY <1>1 DEF ConnInv, CloseOK
<1>3. closing'[i] = NoPeer /\ \A j \in Iocs : j # i => closing'[j] = closing[j]
  BY <1>0 DEF TypeInv, TypeOK
<1>4. StageOK'
  BY <1>0 DEF ConnInv, StageOK
<1>5. QueueOK'
  BY <1>0 DEF ConnInv, QueueOK
<1>6. FdsOK'
  BY <1>0 DEF ConnInv, FdsOK, Open
<1>7. CloseOK'
  BY <1>0, <1>3, AcceptorAssumption DEF ConnInv, CloseOK
<1>8. \A q \in Peers : Listed(q)' <=> Listed(q)
  BY <1>0 DEF Listed
<1>9. ~Listed(p)
  BY <1>2 DEF Listed
<1>10. TableOK'
  <2> SUFFICES ASSUME NEW j \in Iocs, NEW f \in Fds, NEW q \in Peers
               PROVE  table'[j][f] = q <=> ioc[q] = j /\ fd[q] = f /\ (Listed(q) \/ closing'[j] = q)
    BY <1>0, <1>8 DEF TableOK
  <2>1. /\ table[j][f] = q <=> ioc[q] = j /\ fd[q] = f /\ (Listed(q) \/ closing[j] = q)
        /\ table[j][f] = p <=> ioc[p] = j /\ fd[p] = f /\ (Listed(p) \/ closing[j] = p)
    BY <1>1 DEF ConnInv, TableOK
  <2>2. table'[j][f] = IF j = i /\ f = fd[p] THEN NoPeer ELSE table[j][f]
    BY <1>0 DEF TypeInv, TypeOK
  <2>3. q # NoPeer
    BY AcceptorAssumption
  <2>4. CASE j # i
    BY <1>3, <2>1, <2>2, <2>4
  <2>5. CASE j = i /\ q = p
    BY <1>3, <1>9, <2>1, <2>2, <2>3, <2>5
  <2>6. CASE j = i /\ q # p /\ f = fd[p]
    <3>1. table[j][f] = p
      BY <1>2, <2>1, <2>6
    <3> QED
      BY <1>3, <2>1, <2>2, <2>3, <2>6, <3>1
  <2>7. CASE j = i /\ q # p /\ f # fd[p]
    BY <1>3, <2>1, <2>2, <2>3, <2>7
  <2> QED
    BY <2>4, <2>5, <2>6, <2>7
<1> QED
  BY <1>4, <1>5, <1>6, <1>7, <1>10 DEF ConnInv

\* ConnInv is inductive relative to TypeInv.
LEMMA NextConn ==
  ASSUME TypeInv, ConnInv, [Next]_vars PROVE ConnInv'
<1>1. ASSUME UNCHANGED vars PROVE ConnInv'
  <2>1. UNCHANGED <<peer, ioc, fd, posted, closing, table, handled, at>>
    BY <1>1 DEF vars, loopVars, connVars, ioVars
  <2>2. StageOK'
    BY <2>1 DEF ConnInv, StageOK
  <2> QED
    BY <2>1, <2>2, OtherConn
<1> QED
  BY NextCases, <1>1, LoopConn, HandleAcceptConn, StartReadConn, InsertConn, CloseSocketConn,
     ReleaseConn, PeerConn, AcceptConn, ReadEndsConn

\* Each I/O thread's table has exactly the open connections it serves, and the one it is closing,
\* although descriptors are given to new connections before release() has erased their entries.
THEOREM TablesAreExact == Spec => []TableExact
<1>1. Init => TypeInv /\ ConnInv
  BY InitType, InitConn
<1>2. TypeInv /\ ConnInv /\ [Next]_vars => (TypeInv /\ ConnInv)'
  BY NextType, NextConn
<1>3. TypeInv /\ ConnInv => TableExact
  <2> SUFFICES ASSUME TypeInv, ConnInv PROVE TableExact
    OBVIOUS
  <2>1. \A p : Registered(p) <=> Listed(p)
    BY DEF Registered, Listed, In
  <2> QED
    BY <2>1 DEF ConnInv, TableOK, TableExact, Table
<1> QED
  BY <1>1, <1>2, <1>3, PTL DEF Spec, SafeSpec
=============================================================================
