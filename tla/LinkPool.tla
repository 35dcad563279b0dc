------------------------------ MODULE LinkPool ------------------------------
(***************************************************************************)
(* The database link pool: dao/db_link_pool.h, as Dao (dao/dao.h) uses it.    *)
(* A Dao takes a link when it is made and returns it when it is destroyed.    *)
(*                                                                            *)
(* What a thread does under m_mutex is one step; ping, connect and the        *)
(* notification happen without it.  Whether a ping, a connect or a statement  *)
(* succeeds, and whether a link has been idle for more than six hours, is up  *)
(* to the database and the clock: any outcome is possible at any time.         *)
(***************************************************************************)
EXTENDS Integers, Sequences, FiniteSets

CONSTANTS
  Threads,    \* the threads that make Dao objects
  MaxSize,    \* maxsize of init()
  MaxCalls    \* bound: Dao objects made

ASSUME LinkPoolAssumption ==
  /\ IsFiniteSet(Threads)
  /\ MaxSize \in Nat /\ MaxCalls \in Nat

\* Links are numbered in the order in which they are made.
NoLink == 0

VARIABLES
  pool,      \* m_pool: links and null pointers
  size0,     \* entries of the pool after init()
  tpc,       \* where each thread is in the life of its Dao
  held,      \* its link, m_link
  made,      \* links made so far
  err,       \* links, not yet destroyed, on which a statement failed
  stale,     \* those opened with the error of a failed attempt left in m_db_err
  calls,     \* Dao objects made so far
  grown      \* history: waits that ended without a link

vars == <<pool, size0, tpc, held, made, err, stale, calls, grown>>

Waiters == {t \in Threads : tpc[t] = "waiting"}
Awake == {t \in Threads : tpc[t] \in {"get", "late", "notify"}}

\* Threads that have an entry of the pool, or will add one.
Owing == {t \in Threads : tpc[t] \in {"taken", "using", "put"}}

\* init_impl stops at the first link it cannot open.
Opened(k) == [i \in 1 .. k |-> i]

Init ==
  /\ size0 \in 0 .. MaxSize
  /\ pool = Opened(size0) /\ made = size0
  /\ tpc = [t \in Threads |-> "idle"] /\ held = [t \in Threads |-> NoLink]
  /\ err = {} /\ stale \in SUBSET (1 .. size0) /\ calls = 0 /\ grown = 0

-----------------------------------------------------------------------------
(* connect() of a new link: it may fail an option or an attempt, note the error in    *)
(* m_db_err and still succeed; the error is not taken back.                            *)
Connect(l) == {{}, {l}}

\* create_link: a link that is connected, or a null pointer.  The old link is destroyed.
CreateLink(t) ==
  /\ \/ /\ held' = [held EXCEPT ![t] = made + 1] /\ made' = made + 1
        /\ \E e \in Connect(made + 1) : stale' = (stale \ {held[t]}) \cup e
     \/ /\ held' = [held EXCEPT ![t] = NoLink] /\ UNCHANGED made
        /\ stale' = stale \ {held[t]}
  /\ err' = err \ {held[t]}

\* Dao::Dao calls get_link.
GetCall(t) ==
  /\ tpc[t] = "idle" /\ calls < MaxCalls
  /\ tpc' = [tpc EXCEPT ![t] = "get"]
  /\ calls' = calls + 1
  /\ UNCHANGED <<pool, size0, held, made, err, stale, grown>>

\* A bug: front() without pop_front().
GetPopKeeps(t) ==
  /\ tpc[t] \in {"get", "late"} /\ pool # <<>>
  /\ tpc' = [tpc EXCEPT ![t] = "taken"]
  /\ held' = [held EXCEPT ![t] = Head(pool)]
  /\ UNCHANGED <<pool, size0, made, err, stale, calls, grown>>

\* There is an entry: it is taken, also if the time was up.
GetPop(t) ==
  /\ tpc[t] \in {"get", "late"} /\ pool # <<>>
  /\ tpc' = [tpc EXCEPT ![t] = "taken"]
  /\ held' = [held EXCEPT ![t] = Head(pool)]
  /\ pool' = Tail(pool)
  /\ UNCHANGED <<size0, made, err, stale, calls, grown>>

GetWait(t) ==
  /\ tpc[t] = "get" /\ pool = <<>>
  /\ tpc' = [tpc EXCEPT ![t] = "waiting"]
  /\ UNCHANGED <<pool, size0, held, made, err, stale, calls, grown>>

\* wait_for ends, by its time or spuriously.
TimeUp(t) ==
  /\ tpc[t] = "waiting"
  /\ tpc' = [tpc EXCEPT ![t] = "late"]
  /\ UNCHANGED <<pool, size0, held, made, err, stale, calls, grown>>

SpuriousWake(t) ==
  /\ tpc[t] = "waiting"
  /\ tpc' = [tpc EXCEPT ![t] = "get"]
  /\ UNCHANGED <<pool, size0, held, made, err, stale, calls, grown>>

\* The time is up and there is still no entry: a null pointer.
GetNothing(t) ==
  /\ tpc[t] = "late" /\ pool = <<>>
  /\ tpc' = [tpc EXCEPT ![t] = "using"]
  /\ held' = [held EXCEPT ![t] = NoLink]
  /\ grown' = grown + 1
  /\ UNCHANGED <<pool, size0, made, err, stale, calls>>

\* The link answers a ping and has not been idle for too long.
Reuse(t) ==
  /\ tpc[t] = "taken" /\ held[t] # NoLink
  /\ tpc' = [tpc EXCEPT ![t] = "using"]
  /\ UNCHANGED <<pool, size0, held, made, err, stale, calls, grown>>

\* A null pointer, a link that does not answer, or one that is too old.
Replace(t) ==
  /\ tpc[t] = "taken"
  /\ tpc' = [tpc EXCEPT ![t] = "using"]
  /\ CreateLink(t)
  /\ UNCHANGED <<pool, size0, calls, grown>>

\* A statement of the Dao fails: m_db_err is set for good.
StatementFails(t) ==
  /\ tpc[t] = "using" /\ held[t] # NoLink
  /\ err' = err \cup {held[t]}
  /\ UNCHANGED <<pool, size0, tpc, held, made, stale, calls, grown>>

\* There is a link and not has_error().
CanKeep(l) == l # NoLink /\ l \notin err \cup stale

\* return_back, with a link that is in order and with another one made for it.
ReturnSame(t) ==
  /\ tpc[t] = "using" /\ CanKeep(held[t])
  /\ tpc' = [tpc EXCEPT ![t] = "put"]
  /\ UNCHANGED <<pool, size0, held, made, err, stale, calls, grown>>

\* A bug: nothing is returned if there is no link.
ReturnOtherDropped(t) ==
  /\ tpc[t] = "using" /\ ~CanKeep(held[t])
  /\ CreateLink(t)
  /\ tpc' = [tpc EXCEPT ![t] = IF held'[t] = NoLink THEN "idle" ELSE "put"]
  /\ UNCHANGED <<pool, size0, calls, grown>>

ReturnOther(t) ==
  /\ tpc[t] = "using" /\ ~CanKeep(held[t])
  /\ tpc' = [tpc EXCEPT ![t] = "put"]
  /\ CreateLink(t)
  /\ UNCHANGED <<pool, size0, calls, grown>>

\* A bug: the notification is left out.
PutSilent(t) ==
  /\ tpc[t] = "put"
  /\ pool' = Append(pool, held[t])
  /\ held' = [held EXCEPT ![t] = NoLink]
  /\ tpc' = [tpc EXCEPT ![t] = "idle"]
  /\ UNCHANGED <<size0, made, err, stale, calls, grown>>

Put(t) ==
  /\ tpc[t] = "put"
  /\ pool' = Append(pool, held[t])
  /\ held' = [held EXCEPT ![t] = NoLink]
  /\ tpc' = [tpc EXCEPT ![t] = "notify"]
  /\ UNCHANGED <<size0, made, err, stale, calls, grown>>

\* notify_one, after the lock is released.
Notify(t) ==
  /\ tpc[t] = "notify"
  /\ IF Waiters = {}
       THEN tpc' = [tpc EXCEPT ![t] = "idle"]
       ELSE \E w \in Waiters : tpc' = [tpc EXCEPT ![t] = "idle", ![w] = "get"]
  /\ UNCHANGED <<pool, size0, held, made, err, stale, calls, grown>>

\* ~LinkGuard
Return(t) == ReturnSame(t) \/ ReturnOther(t)

\* What the owner of a Dao decides: to make it, and the statements it gives it.
Dao(t) == GetCall(t) \/ StatementFails(t)

-----------------------------------------------------------------------------
\* The steps a thread takes by itself; time and spurious wake-ups are not its own.
Step(t) ==
  \/ GetPop(t) \/ GetWait(t) \/ GetNothing(t)
  \/ Reuse(t) \/ Replace(t)
  \/ Return(t) \/ Put(t) \/ Notify(t)

\* Every Dao has been destroyed, and no other is made.
Finished ==
  /\ calls = MaxCalls /\ \A t \in Threads : tpc[t] = "idle"
  /\ UNCHANGED vars

Next ==
  \/ \E t \in Threads : Dao(t) \/ Step(t) \/ TimeUp(t) \/ SpuriousWake(t)
  \/ Finished

SafeSpec == Init /\ [][Next]_vars

(* Every thread is scheduled and destroys its Dao some time.  The two seconds of a  *)
(* wait need not pass, and liveness may not rest on them.                           *)
Fairness == \A t \in Threads : WF_vars(Step(t))

Spec == SafeSpec /\ Fairness

-----------------------------------------------------------------------------
Places == {"idle", "get", "waiting", "late", "taken", "using", "put", "notify"}

TypeOK ==
  /\ made \in Nat /\ pool \in Seq(0 .. made) /\ size0 \in 0 .. MaxSize
  /\ tpc \in [Threads -> Places] /\ held \in [Threads -> 0 .. made]
  /\ err \subseteq 1 .. made /\ stale \subseteq 1 .. made
  /\ calls \in 0 .. MaxCalls /\ grown \in Nat

(* No two threads use the same link at the same time: a link is in the pool once    *)
(* or with one thread, never both.                                                  *)
LinkExclusive ==
  /\ \A i, j \in 1 .. Len(pool) : pool[i] = pool[j] /\ pool[i] # NoLink => i = j
  /\ \A t, u \in Threads : held[t] = held[u] /\ held[t] # NoLink => t = u
  /\ \A t \in Threads, i \in 1 .. Len(pool) : held[t] = pool[i] => held[t] = NoLink

(* A link on which a statement failed never goes back to the pool.  (A new link with  *)
(* an error of connect() does: return_back looks at the old link only.)                *)
PoolClean == \A i \in 1 .. Len(pool) : pool[i] \notin err

(* The pool does not leak: every entry that init() made is in it or will be put      *)
(* back, whatever fails meanwhile.  It is exact about the other direction too: each  *)
(* wait that ends without a link adds an entry for good.                              *)
EntriesConserved == Len(pool) + Cardinality(Owing) = size0 + grown

(* No thread stays blocked in get_link() beside an entry: with a thread waiting there  *)
(* are as many threads awake, or about to notify one, as there are entries.            *)
WaiterWakeup == Waiters # {} => Len(pool) <= Cardinality(Awake)

(* If init() made a link at all, get_link() returns to a thread that asks for one, also  *)
(* if no wait ever times out: the notifications alone see to it.                         *)
GetServed == \A t \in Threads : tpc[t] = "get" /\ size0 > 0 ~> tpc[t] = "using"
=============================================================================
