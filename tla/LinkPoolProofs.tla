--------------------------- MODULE LinkPoolProofs ---------------------------
(***************************************************************************)
(* Proofs about LinkPool for any number of threads, links and Dao objects.  *)
(***************************************************************************)
EXTENDS LinkPool, FiniteSetTheorems, TLAPS

USE LinkPoolAssumption

(* A thread's own steps, and what others do to it.                            *)
ThreadStep(t) == Dao(t) \/ Step(t) \/ TimeUp(t) \/ SpuriousWake(t)

(* Every step is a thread's, or changes nothing.                              *)
LEMMA NextIsThreadStep ==
  ASSUME [Next]_vars
  PROVE  (\E t \in Threads : ThreadStep(t)) \/ UNCHANGED vars
BY DEF Next, ThreadStep, Finished

-----------------------------------------------------------------------------
(* Types.                                                                     *)

(* init() leaves links 1 to size0 in the pool and no thread with a Dao.        *)
LEMMA InitType == Init => TypeOK
<1> SUFFICES ASSUME Init PROVE TypeOK
  OBVIOUS
<1>1. size0 \in Nat /\ size0 \in 0 .. MaxSize
  BY DEF Init
<1>2. pool \in Seq(0 .. made)
  BY <1>1 DEF Init, Opened
<1> QED
  BY <1>1, <1>2 DEF Init, TypeOK, Places, NoLink

(* A thread gets a new link or none, and links are numbered on.                *)
LEMMA CreateLinkType ==
  ASSUME TypeOK, NEW t \in Threads, CreateLink(t), UNCHANGED pool
  PROVE  /\ made' \in Nat /\ made <= made'
         /\ held' \in [Threads -> 0 .. made']
         /\ pool' \in Seq(0 .. made')
         /\ err' \subseteq 1 .. made' /\ stale' \subseteq 1 .. made'
<1>1. CASE /\ held' = [held EXCEPT ![t] = made + 1] /\ made' = made + 1
           /\ \E e \in Connect(made + 1) : stale' = (stale \ {held[t]}) \cup e
  <2>1. 0 .. made \subseteq 0 .. made' /\ 1 .. made \subseteq 1 .. made' /\ made + 1 \in 1 .. made'
        /\ made + 1 \in 0 .. made'
    BY <1>1 DEF TypeOK
  <2>2. stale' \subseteq 1 .. made'
    BY <1>1, <2>1 DEF Connect, TypeOK
  <2>3. err' \subseteq 1 .. made'
    BY <2>1 DEF CreateLink, TypeOK
  <2> QED
    BY <1>1, <2>1, <2>2, <2>3 DEF TypeOK
<1>2. CASE /\ held' = [held EXCEPT ![t] = NoLink] /\ UNCHANGED made
           /\ stale' = stale \ {held[t]}
  <2>1. err' \subseteq 1 .. made' /\ stale' \subseteq 1 .. made'
    BY <1>2 DEF CreateLink, TypeOK
  <2> QED
    BY <1>2, <2>1 DEF TypeOK, NoLink
<1> QED
  BY <1>1, <1>2 DEF CreateLink

(* Every step of a thread keeps the types.                                     *)
LEMMA ThreadStepType ==
  ASSUME TypeOK, NEW t \in Threads, ThreadStep(t)
  PROVE  TypeOK'
<1>1. CASE GetCall(t)
  <2>1. calls' \in 0 .. MaxCalls
    BY <1>1 DEF GetCall, TypeOK
  <2> QED
    BY <1>1, <2>1 DEF GetCall, TypeOK, Places
<1>2. CASE StatementFails(t)
  <2>1. held[t] \in 1 .. made
    BY <1>2 DEF StatementFails, TypeOK, NoLink
  <2> QED
    BY <1>2, <2>1 DEF StatementFails, TypeOK, Places
<1>3. CASE GetPop(t)
  <2>1. Head(pool) \in 0 .. made /\ Tail(pool) \in Seq(0 .. made)
    BY <1>3 DEF GetPop, TypeOK
  <2> QED
    BY <1>3, <2>1 DEF GetPop, TypeOK, Places
<1>4. CASE GetWait(t)
  BY <1>4 DEF GetWait, TypeOK, Places
<1>5. CASE GetNothing(t)
  BY <1>5 DEF GetNothing, TypeOK, Places, NoLink
<1>6. CASE Reuse(t)
  BY <1>6 DEF Reuse, TypeOK, Places
<1>7. CASE Replace(t)
  BY <1>7, CreateLinkType DEF Replace, TypeOK, Places
<1>8. CASE ReturnSame(t)
  BY <1>8 DEF ReturnSame, TypeOK, Places
<1>9. CASE ReturnOther(t)
  BY <1>9, CreateLinkType DEF ReturnOther, TypeOK, Places
<1>10. CASE Put(t)
  <2>1. Append(pool, held[t]) \in Seq(0 .. made)
    BY DEF TypeOK
  <2> QED
    BY <1>10, <2>1 DEF Put, TypeOK, Places, NoLink
<1>11. CASE Notify(t)
  BY <1>11 DEF Notify, TypeOK, Places, Waiters
<1>12. CASE TimeUp(t)
  BY <1>12 DEF TimeUp, TypeOK, Places
<1>13. CASE SpuriousWake(t)
  BY <1>13 DEF SpuriousWake, TypeOK, Places
<1> QED
  BY <1>1, <1>2, <1>3, <1>4, <1>5, <1>6, <1>7, <1>8, <1>9, <1>10, <1>11, <1>12, <1>13
     DEF ThreadStep, Dao, Step, Return

(* No step of the pool breaks the types.                                      *)
LEMMA NextType == TypeOK /\ [Next]_vars => TypeOK'
<1>1. CASE UNCHANGED vars
  BY <1>1 DEF TypeOK, vars
<1> QED
  BY <1>1, NextIsThreadStep, ThreadStepType

(* Every variable of the pool keeps its type; in particular the pool holds      *)
(* only links that were made, and null pointers.                                *)
THEOREM TypeCorrect == SafeSpec => []TypeOK
BY InitType, NextType, PTL DEF SafeSpec

-----------------------------------------------------------------------------
(* Links.  A link that is put back is one on which no statement failed, so the  *)
(* pool stays clean; a statement can only fail on a link that somebody holds,   *)
(* which by LinkExclusive is neither in the pool nor about to be put back.      *)
PutClean == \A t \in Threads : tpc[t] = "put" => held[t] \notin err

LinksOK == LinkExclusive /\ PoolClean /\ PutClean

(* The links of init() are different ones and unused.                         *)
LEMMA InitLinks == Init => LinksOK
<1> SUFFICES ASSUME Init PROVE LinksOK
  OBVIOUS
<1>1. size0 \in Nat
  BY DEF Init
<1>2. Len(pool) = size0 /\ \A i \in 1 .. size0 : pool[i] = i
  BY <1>1 DEF Init, Opened
<1> QED
  BY <1>1, <1>2 DEF Init, LinksOK, LinkExclusive, PoolClean, PutClean, NoLink

(* A new link is not in the pool, with no other thread and no statement ran on it. *)
LEMMA CreateLinkLinks ==
  ASSUME TypeOK, LinksOK, NEW t \in Threads, CreateLink(t), UNCHANGED pool,
         \A u \in Threads : u # t => tpc'[u] = tpc[u]
  PROVE  LinksOK'
<1>1. \A i \in 1 .. Len(pool) : pool[i] \in 0 .. made
  BY DEF TypeOK
<1>2. \A u \in Threads : held[u] \in 0 .. made
  BY DEF TypeOK
<1>3. made \in Nat /\ err \subseteq 1 .. made /\ made + 1 \notin err /\ NoLink \notin err
      /\ err' \subseteq err
  BY DEF TypeOK, NoLink, CreateLink
<1>4. \A u \in Threads : u # t => held'[u] = held[u]
  BY DEF CreateLink, TypeOK
<1>5. held'[t] = NoLink \/ held'[t] = made + 1
  BY DEF CreateLink, TypeOK
<1>6. LinkExclusive'
  <2>1. \A u \in Threads : u # t => held'[u] # made + 1
    BY <1>2, <1>3, <1>4
  <2>2. \A i \in 1 .. Len(pool) : pool[i] # made + 1
    BY <1>1, <1>3
  <2>3. \A u, v \in Threads : held'[u] = held'[v] /\ held'[u] # NoLink => u = v
    BY <1>4, <1>5, <2>1 DEF LinksOK, LinkExclusive
  <2>4. \A u \in Threads, i \in 1 .. Len(pool) : held'[u] = pool[i] => held'[u] = NoLink
    BY <1>4, <1>5, <2>2 DEF LinksOK, LinkExclusive
  <2> QED
    BY <2>3, <2>4 DEF LinksOK, LinkExclusive, NoLink
<1>7. PoolClean'
  BY <1>3 DEF LinksOK, PoolClean
<1>8. PutClean'
  BY <1>3, <1>4, <1>5 DEF LinksOK, PutClean
<1> QED
  BY <1>6, <1>7, <1>8 DEF LinksOK

(* A thread takes the first entry of the pool.                                  *)
LEMMA GetPopLinks ==
  ASSUME TypeOK, LinksOK, NEW t \in Threads, GetPop(t)
  PROVE  LinksOK'
<1>1. /\ Len(pool) \in Nat /\ Len(pool) > 0 /\ Len(pool') = Len(pool) - 1
      /\ \A i \in 1 .. Len(pool') : pool'[i] = pool[i + 1]
      /\ held'[t] = pool[1]
      /\ \A u \in Threads : u # t => held'[u] = held[u] /\ tpc'[u] = tpc[u]
      /\ tpc'[t] = "taken" /\ err' = err
  BY DEF GetPop, TypeOK
<1>2. \A i \in 1 .. Len(pool') : i + 1 \in 1 .. Len(pool) /\ i + 1 # 1
  BY <1>1
<1>3. LinkExclusive'
  BY <1>1, <1>2 DEF LinksOK, LinkExclusive, NoLink
<1>4. PoolClean'
  BY <1>1, <1>2 DEF LinksOK, PoolClean
<1>5. PutClean'
  BY <1>1 DEF LinksOK, PutClean
<1> QED
  BY <1>3, <1>4, <1>5 DEF LinksOK

(* A thread puts its entry at the end of the pool and has no link any more.     *)
LEMMA PutLinks ==
  ASSUME TypeOK, LinksOK, NEW t \in Threads, Put(t)
  PROVE  LinksOK'
<1>1. /\ Len(pool) \in Nat /\ Len(pool') = Len(pool) + 1
      /\ \A i \in 1 .. Len(pool) : pool'[i] = pool[i]
      /\ pool'[Len(pool) + 1] = held[t]
      /\ held'[t] = NoLink
      /\ \A u \in Threads : u # t => held'[u] = held[u] /\ tpc'[u] = tpc[u]
      /\ tpc'[t] = "notify" /\ err' = err
  BY DEF Put, TypeOK
<1>2. \A i \in 1 .. Len(pool') : i \in 1 .. Len(pool) \/ i = Len(pool) + 1
  BY <1>1
<1>3. LinkExclusive'
  BY <1>1, <1>2 DEF LinksOK, LinkExclusive, NoLink
<1>4. PoolClean'
  BY <1>1, <1>2 DEF LinksOK, PoolClean, PutClean, Put
<1>5. PutClean'
  BY <1>1 DEF LinksOK, PutClean
<1> QED
  BY <1>3, <1>4, <1>5 DEF LinksOK

(* Every step of a thread keeps the links apart and the pool clean.             *)
LEMMA ThreadStepLinks ==
  ASSUME TypeOK, LinksOK, NEW t \in Threads, ThreadStep(t)
  PROVE  LinksOK'
<1> USE DEF LinksOK, LinkExclusive, PoolClean, PutClean
<1>1. CASE GetCall(t)
  BY <1>1 DEF GetCall, TypeOK
<1>2. CASE StatementFails(t)
  <2>1. /\ UNCHANGED <<pool, tpc, held>> /\ err' = err \cup {held[t]} /\ held[t] # NoLink
        /\ tpc[t] = "using"
    BY <1>2 DEF StatementFails
  <2>2. \A i \in 1 .. Len(pool) : pool[i] # held[t]
    BY <2>1
  <2>3. \A u \in Threads : tpc[u] = "put" => held[u] # held[t]
    BY <2>1
  <2> QED
    BY <2>1, <2>2, <2>3
<1>3. CASE GetPop(t)
  BY <1>3, GetPopLinks
<1>4. CASE GetWait(t)
  BY <1>4 DEF GetWait, TypeOK
<1>5. CASE GetNothing(t)
  BY <1>5 DEF GetNothing, TypeOK, NoLink
<1>6. CASE Reuse(t)
  BY <1>6 DEF Reuse, TypeOK
<1>7. CASE Replace(t)
  BY <1>7, CreateLinkLinks DEF Replace, TypeOK
<1>8. CASE ReturnSame(t)
  BY <1>8 DEF ReturnSame, CanKeep, TypeOK
<1>9. CASE ReturnOther(t)
  BY <1>9, CreateLinkLinks DEF ReturnOther, TypeOK
<1>10. CASE Put(t)
  BY <1>10, PutLinks
<1>11. CASE Notify(t)
  BY <1>11 DEF Notify, TypeOK, Waiters
<1>12. CASE TimeUp(t)
  BY <1>12 DEF TimeUp, TypeOK
<1>13. CASE SpuriousWake(t)
  BY <1>13 DEF SpuriousWake, TypeOK
<1> QED
  BY <1>1, <1>2, <1>3, <1>4, <1>5, <1>6, <1>7, <1>8, <1>9, <1>10, <1>11, <1>12, <1>13
     DEF ThreadStep, Dao, Step, Return

(* No step of the pool shares a link or puts a failed one back.               *)
LEMMA NextLinks == TypeOK /\ LinksOK /\ [Next]_vars => LinksOK'
<1>1. CASE UNCHANGED vars
  BY <1>1 DEF LinksOK, LinkExclusive, PoolClean, PutClean, vars
<1> QED
  BY <1>1, NextIsThreadStep, ThreadStepLinks

(* However threads, failures and time-outs interleave, no two threads ever use   *)
(* the same link: get_link hands out a link that is nowhere else.                *)
THEOREM LinksAreExclusive == SafeSpec => []LinkExclusive
<1>1. LinksOK => LinkExclusive
  BY DEF LinksOK
<1> QED
  BY <1>1, InitType, NextType, InitLinks, NextLinks, PTL DEF SafeSpec

(* A link on which a statement has failed is never in the pool.                  *)
THEOREM FailedLinksStayOut == SafeSpec => []PoolClean
<1>1. LinksOK => PoolClean
  BY DEF LinksOK
<1> QED
  BY <1>1, InitType, NextType, InitLinks, NextLinks, PTL DEF SafeSpec

-----------------------------------------------------------------------------
(* Counting.                                                                    *)

(* A set of threads can be counted.                                              *)
LEMMA ThreadsCount ==
  ASSUME NEW S, S \subseteq Threads
  PROVE  IsFiniteSet(S) /\ Cardinality(S) \in Nat
BY FS_Subset, FS_CardinalityType

(* A thread that joins a set of threads.                                      *)
LEMMA CountJoins ==
  ASSUME NEW S, S \subseteq Threads, NEW t, t \notin S
  PROVE  Cardinality(S \cup {t}) = Cardinality(S) + 1
BY ThreadsCount, FS_AddElement

(* A thread that leaves a set of threads.                                     *)
LEMMA CountLeaves ==
  ASSUME NEW S, S \subseteq Threads, NEW t, t \in S
  PROVE  Cardinality(S \ {t}) = Cardinality(S) - 1
BY ThreadsCount, FS_RemoveElement

(* At first all entries are in the pool.                                         *)
LEMMA InitEntries == Init => EntriesConserved
<1> SUFFICES ASSUME Init PROVE EntriesConserved
  OBVIOUS
<1>1. size0 \in Nat /\ Len(pool) = size0
  BY DEF Init, Opened
<1>2. Owing = {}
  BY DEF Init, Owing
<1>3. Cardinality(Owing) = 0
  BY <1>2, FS_EmptySet
<1> QED
  BY <1>1, <1>3 DEF Init, EntriesConserved

(* An entry is taken by a thread that owes it, or put back by one.               *)
LEMMA ThreadStepEntries ==
  ASSUME TypeOK, EntriesConserved, NEW t \in Threads, ThreadStep(t)
  PROVE  EntriesConserved'
<1>1. Owing \subseteq Threads /\ Cardinality(Owing) \in Nat
  BY ThreadsCount DEF Owing
<1>2. Len(pool) \in Nat /\ size0 \in Nat /\ grown \in Nat
  BY DEF TypeOK
<1>3. Len(pool) + Cardinality(Owing) = size0 + grown
  BY DEF EntriesConserved
<1>4. ASSUME Owing' = Owing, UNCHANGED <<pool, size0, grown>>
      PROVE  EntriesConserved'
  BY <1>3, <1>4 DEF EntriesConserved
<1>5. CASE GetPop(t)
  <2>1. t \notin Owing /\ Owing' = Owing \cup {t}
    BY <1>5 DEF GetPop, Owing, TypeOK
  <2>2. Len(pool') = Len(pool) - 1
    BY <1>5 DEF GetPop, TypeOK
  <2>3. Cardinality(Owing') = Cardinality(Owing) + 1
    BY <1>1, <2>1, CountJoins
  <2>4. UNCHANGED <<size0, grown>>
    BY <1>5 DEF GetPop
  <2> QED
    BY <1>1, <1>2, <1>3, <2>2, <2>3, <2>4 DEF EntriesConserved
<1>6. CASE GetNothing(t)
  <2>1. t \notin Owing /\ Owing' = Owing \cup {t}
    BY <1>6 DEF GetNothing, Owing, TypeOK
  <2>2. Cardinality(Owing') = Cardinality(Owing) + 1
    BY <1>1, <2>1, CountJoins
  <2>3. UNCHANGED <<pool, size0>> /\ grown' = grown + 1
    BY <1>6 DEF GetNothing
  <2> QED
    BY <1>1, <1>2, <1>3, <2>2, <2>3 DEF EntriesConserved
<1>7. CASE Put(t)
  <2>1. t \in Owing /\ Owing' = Owing \ {t}
    BY <1>7 DEF Put, Owing, TypeOK
  <2>2. Len(pool') = Len(pool) + 1
    BY <1>7 DEF Put, TypeOK
  <2>3. Cardinality(Owing') = Cardinality(Owing) - 1
    BY <1>1, <2>1, CountLeaves
  <2>4. UNCHANGED <<size0, grown>>
    BY <1>7 DEF Put
  <2> QED
    BY <1>1, <1>2, <1>3, <2>2, <2>3, <2>4 DEF EntriesConserved
<1>8. CASE Reuse(t) \/ Replace(t) \/ Return(t)
  BY <1>4, <1>8 DEF Reuse, Replace, Return, ReturnSame, ReturnOther, Owing, TypeOK
<1>9. CASE Dao(t) \/ GetWait(t) \/ TimeUp(t) \/ SpuriousWake(t)
  BY <1>4, <1>9 DEF Dao, GetCall, StatementFails, GetWait, TimeUp, SpuriousWake, Owing, TypeOK
<1>10. CASE Notify(t)
  BY <1>4, <1>10 DEF Notify, Waiters, Owing, TypeOK
<1> QED
  BY <1>5, <1>6, <1>7, <1>8, <1>9, <1>10 DEF ThreadStep, Step

(* No step of the pool loses an entry.                                        *)
LEMMA NextEntries == TypeOK /\ EntriesConserved /\ [Next]_vars => EntriesConserved'
<1>1. CASE UNCHANGED vars
  BY <1>1 DEF EntriesConserved, Owing, vars
<1> QED
  BY <1>1, NextIsThreadStep, ThreadStepEntries

(* No entry of the pool is ever lost, whatever fails: the entries in the pool and    *)
(* those with a thread are the ones of init() and one for each wait without a link.  *)
THEOREM NoEntryIsLost == SafeSpec => []EntriesConserved
BY InitType, NextType, InitEntries, NextEntries, PTL DEF SafeSpec

-----------------------------------------------------------------------------
(* Wake-ups.                                                                    *)

(* More threads awake count for more.                                            *)
LEMMA AwakeGrows ==
  ASSUME Awake \subseteq Awake'
  PROVE  Cardinality(Awake) <= Cardinality(Awake')
<1>1. Awake' \subseteq Threads
  BY DEF Awake
<1> QED
  BY <1>1, ThreadsCount, FS_Subset

(* An entry taken takes away one thread that was awake, an entry put back adds the   *)
(* thread that will notify, and notify_one hands its part over to the one it wakes.  *)
LEMMA ThreadStepWakeup ==
  ASSUME TypeOK, WaiterWakeup, NEW t \in Threads, ThreadStep(t)
  PROVE  WaiterWakeup'
<1>1. Awake \subseteq Threads /\ Cardinality(Awake) \in Nat /\ Len(pool) \in Nat
  BY ThreadsCount DEF Awake, TypeOK
<1>2. Cardinality(Awake') \in Nat
  <2>1. Awake' \subseteq Threads
    BY DEF Awake
  <2> QED
    BY <2>1, ThreadsCount
<1>3. ASSUME Waiters' \subseteq Waiters, Awake \subseteq Awake', UNCHANGED pool
      PROVE  WaiterWakeup'
  BY <1>1, <1>2, <1>3, AwakeGrows DEF WaiterWakeup
<1>4. ASSUME pool' = <<>>
      PROVE  WaiterWakeup'
  BY <1>2, <1>4 DEF WaiterWakeup
<1>5. CASE GetPop(t)
  <2>1. t \in Awake /\ Awake' = Awake \ {t} /\ Waiters' = Waiters
    BY <1>5 DEF GetPop, Awake, Waiters, TypeOK
  <2>2. Cardinality(Awake') = Cardinality(Awake) - 1
    BY <1>1, <2>1, CountLeaves
  <2>3. Len(pool') = Len(pool) - 1
    BY <1>5 DEF GetPop, TypeOK
  <2> QED
    BY <1>1, <2>1, <2>2, <2>3 DEF WaiterWakeup
<1>6. CASE GetWait(t) \/ GetNothing(t)
  BY <1>4, <1>6 DEF GetWait, GetNothing
<1>7. CASE Put(t)
  <2>1. t \notin Awake /\ Awake' = Awake \cup {t} /\ Waiters' = Waiters
    BY <1>7 DEF Put, Awake, Waiters, TypeOK
  <2>2. Cardinality(Awake') = Cardinality(Awake) + 1
    BY <1>1, <2>1, CountJoins
  <2>3. Len(pool') = Len(pool) + 1
    BY <1>7 DEF Put, TypeOK
  <2> QED
    BY <1>1, <2>1, <2>2, <2>3 DEF WaiterWakeup
<1>8. CASE Notify(t)
  <2>1. CASE Waiters = {}
    <3>1. Waiters' = {}
      BY <1>8, <2>1 DEF Notify, Waiters, TypeOK
    <3> QED
      BY <3>1 DEF WaiterWakeup
  <2>2. CASE Waiters # {}
    <3>1. PICK w \in Waiters : tpc' = [tpc EXCEPT ![t] = "idle", ![w] = "get"]
      BY <1>8, <2>2 DEF Notify
    <3>2. w \in Threads /\ w # t /\ w \notin Awake /\ t \in Awake
      BY <1>8, <3>1 DEF Notify, Waiters, Awake
    <3>3. Awake' = (Awake \ {t}) \cup {w}
      BY <3>1, <3>2 DEF Awake, TypeOK
    <3>4. Cardinality(Awake \ {t}) = Cardinality(Awake) - 1
      BY <1>1, <3>2, CountLeaves
    <3>5. Cardinality(Awake') = Cardinality(Awake \ {t}) + 1
      <4>1. Awake \ {t} \subseteq Threads /\ w \notin Awake \ {t}
        BY <1>1, <3>2
      <4> QED
        BY <3>3, <4>1, CountJoins
    <3>6. UNCHANGED pool
      BY <1>8 DEF Notify
    <3> QED
      BY <1>1, <2>2, <3>4, <3>5, <3>6 DEF WaiterWakeup
  <2> QED
    BY <2>1, <2>2
<1>9. CASE Reuse(t) \/ Replace(t) \/ Return(t)
  BY <1>3, <1>9 DEF Reuse, Replace, Return, ReturnSame, ReturnOther, Awake, Waiters, TypeOK
<1>10. CASE Dao(t) \/ TimeUp(t) \/ SpuriousWake(t)
  BY <1>3, <1>10 DEF Dao, GetCall, StatementFails, TimeUp, SpuriousWake, Awake, Waiters, TypeOK
<1> QED
  BY <1>5, <1>6, <1>7, <1>8, <1>9, <1>10 DEF ThreadStep, Step

(* No step of the pool loses a wake-up.                                       *)
LEMMA NextWakeup == TypeOK /\ WaiterWakeup /\ [Next]_vars => WaiterWakeup'
<1>1. CASE UNCHANGED vars
  BY <1>1 DEF WaiterWakeup, Waiters, Awake, vars
<1> QED
  BY <1>1, NextIsThreadStep, ThreadStepWakeup

(* No thread stays blocked in get_link() beside an entry: entries are covered by      *)
(* threads that will take one or notify.                                              *)
THEOREM NoLostWaiterWakeup == SafeSpec => []WaiterWakeup
<1>1. Init => WaiterWakeup
  BY DEF Init, WaiterWakeup, Waiters
<1> QED
  BY <1>1, InitType, NextType, NextWakeup, PTL DEF SafeSpec
=============================================================================
