---------------------------- MODULE H1PoolProofs ----------------------------
(***************************************************************************)
(* Proofs about H1Pool, for every set of requests, probes and workers and  *)
(* every limit, and, at the end, about AutoShards, which decides over how  *)
(* many shards the pools of the client are spread.  The two share no       *)
(* variable.                                                               *)
(***************************************************************************)
EXTENDS H1Pool, AutoShards, FiniteSetTheorems, SequenceTheorems, TLAPS

-----------------------------------------------------------------------------
(* The operators of the model.                                              *)

\* The two acquire functions, written with opposite tests, decide alike: the
\* guard that lets acquire_plain connect is the negation of the one that makes
\* acquire_tls wait.
THEOREM PlainAndTlsAgree ==
  ASSUME NEW woke \in BOOLEAN, NEW res \in Nat, TypeOK
  PROVE  PlainMayConnect(woke, res) <=> ~TlsMustWait(woke, res)
<1>1. active \in Nat /\ connecting \in Nat /\ MaxConnections \in Nat /\ MaxConnecting \in Nat
  BY LimitsAssumption DEF TypeOK, MaxConnections, MaxConnecting
<1> QED
  BY <1>1 DEF PlainMayConnect, TlsMustWait

LEMMA LimitTypes ==
  /\ MaxConnections \in Nat /\ MaxConnections >= 1
  /\ MaxConnecting \in Nat /\ MaxConnecting >= 1
BY LimitsAssumption DEF MaxConnections, MaxConnecting

LEMMA CoroutinesFinite == IsFiniteSet(Coroutines)
BY CoroutinesAssumption, FS_Union DEF Coroutines

LEMMA FirstLiveType ==
  ASSUME NEW q \in Seq(Coroutines), NEW w, FirstLive(q, w) # {}
  PROVE  (CHOOSE i \in FirstLive(q, w) : TRUE) \in 1..Len(q)
BY DEF FirstLive

LEMMA PopWokenType ==
  ASSUME NEW q \in Seq(Coroutines), NEW w
  PROVE  PopWoken(q, w) \in Seq(Coroutines)
<1>1. CASE FirstLive(q, w) = {}
  BY <1>1 DEF PopWoken
<1>2. CASE FirstLive(q, w) # {}
  <2> DEFINE i == CHOOSE i \in FirstLive(q, w) : TRUE
  <2>1. i \in 1..Len(q)
    BY <1>2, FirstLiveType
  <2>2. i \in Nat /\ Len(q) \in Nat
    BY <2>1
  <2> HIDE DEF i
  <2>3. SubSeq(q, i + 1, Len(q)) \in Seq(Coroutines)
    BY <2>1, <2>2
  <2> QED
    BY <2>3, <1>2 DEF PopWoken, i
<1> QED
  BY <1>1, <1>2

LEMMA WakeType ==
  ASSUME NEW q \in Seq(Coroutines), NEW w \in [Coroutines -> WaiterRecord],
         NEW reserve \in BOOLEAN
  PROVE  Wake(q, w, reserve) \in [Coroutines -> WaiterRecord]
<1>1. CASE FirstLive(q, w) = {}
  BY <1>1 DEF Wake
<1>2. CASE FirstLive(q, w) # {}
  <2> DEFINE i == CHOOSE i \in FirstLive(q, w) : TRUE
             c == q[i]
  <2>1. i \in 1..Len(q)
    BY <1>2, FirstLiveType
  <2> HIDE DEF i
  <2>2. c \in Coroutines
    BY <2>1
  <2>3. WakeWaiter(w[c], reserve) \in WaiterRecord
    <3>1. w[c] \in WaiterRecord
      BY <2>2
    <3> QED
      BY <3>1 DEF WaiterRecord, AbortTimer, WakeWaiter
  <2>4. Wake(q, w, reserve) = [w EXCEPT ![c] = WakeWaiter(w[c], reserve)]
    BY <1>2 DEF Wake, i
  <2> QED
    BY <2>2, <2>3, <2>4
<1> QED
  BY <1>1, <1>2

LEMMA RemoveWaiterType ==
  ASSUME NEW q \in Seq(Coroutines), NEW c
  PROVE  RemoveWaiter(q, c) \in Seq(Coroutines)
<1>1. CASE \E i \in 1..Len(q) : q[i] = c
  <2> DEFINE i == CHOOSE j \in 1..Len(q) : q[j] = c
  <2>1. i \in 1..Len(q)
    BY <1>1
  <2> HIDE DEF i
  <2>2. SubSeq(q, 1, i - 1) \in Seq(Coroutines)
    BY <2>1
  <2>3. SubSeq(q, i + 1, Len(q)) \in Seq(Coroutines)
    BY <2>1
  <2>4. SubSeq(q, 1, i - 1) \o SubSeq(q, i + 1, Len(q)) \in Seq(Coroutines)
    BY <2>2, <2>3
  <2> QED
    BY <2>4, <1>1 DEF RemoveWaiter, i
<1>2. CASE ~ \E i \in 1..Len(q) : q[i] = c
  BY <1>2 DEF RemoveWaiter
<1> QED
  BY <1>1, <1>2

-----------------------------------------------------------------------------
(* Type correctness.                                                        *)

LEMMA FreshWaiterType == FreshWaiter \in WaiterRecord
BY DEF FreshWaiter, WaiterRecord

LEMMA DecType == ASSUME NEW n \in Nat PROVE Dec(n) \in Nat
BY DEF Dec

\* Waking, from Waiter objects w, keeps the types of queue and waiter.
LEMMA WakeOneType ==
  ASSUME TypeOK, NEW w \in [Coroutines -> WaiterRecord], WakeOne(w)
  PROVE  queue' \in Seq(Coroutines) /\ waiter' \in [Coroutines -> WaiterRecord]
<1>1. queue \in Seq(Coroutines)
  BY DEF TypeOK
<1> QED
  BY <1>1, PopWokenType, WakeType DEF WakeOne

LEMMA WakeTwoType ==
  ASSUME TypeOK, NEW w \in [Coroutines -> WaiterRecord], WakeTwo(w)
  PROVE  queue' \in Seq(Coroutines) /\ waiter' \in [Coroutines -> WaiterRecord]
<1>1. queue \in Seq(Coroutines)
  BY DEF TypeOK
<1> DEFINE q1 == PopWoken(queue, w)
           w1 == Wake(queue, w, FALSE)
<1>2. q1 \in Seq(Coroutines) /\ w1 \in [Coroutines -> WaiterRecord]
  BY <1>1, PopWokenType, WakeType
<1>3. queue' = PopWoken(q1, w1) /\ waiter' = Wake(q1, w1, FALSE)
  BY DEF WakeTwo
<1> HIDE DEF q1, w1
<1> QED
  BY <1>2, <1>3, PopWokenType, WakeType

LEMMA ReturnToIdleType ==
  ASSUME TypeOK, NEW s \in {"open", "closed"}, ReturnToIdle(s)
  PROVE  /\ idle' \in Seq({"open", "closed"})
         /\ Len(idle') = Len(idle) + 1
         /\ queue' \in Seq(Coroutines)
         /\ waiter' \in [Coroutines -> WaiterRecord]
         /\ reserved' \in Nat
         /\ reserved' \in {reserved, reserved + 1}
<1>1. /\ queue \in Seq(Coroutines) /\ waiter \in [Coroutines -> WaiterRecord]
      /\ idle \in Seq({"open", "closed"}) /\ reserved \in Nat
  BY DEF TypeOK
<1>2. queue' \in Seq(Coroutines) /\ waiter' \in [Coroutines -> WaiterRecord]
  BY <1>1, PopWokenType, WakeType DEF ReturnToIdle
<1>3. idle' \in Seq({"open", "closed"}) /\ Len(idle') = Len(idle) + 1
  BY <1>1 DEF ReturnToIdle
<1>4. reserved' \in Nat /\ reserved' \in {reserved, reserved + 1}
  BY <1>1 DEF ReturnToIdle
<1> QED
  BY <1>2, <1>3, <1>4

LEMMA PopIdleType ==
  ASSUME TypeOK, NEW hasRes \in BOOLEAN, idle # <<>>, PopIdle(hasRes)
  PROVE  /\ idle' \in Seq({"open", "closed"})
         /\ Len(idle') = Len(idle) - 1
         /\ Len(idle) \in Nat /\ Len(idle) >= 1
         /\ idle[Len(idle)] \in {"open", "closed", "cut"}
         /\ reserved' = (IF hasRes THEN Dec(reserved) ELSE reserved)
         /\ reserved' \in Nat
<1>1. idle \in Seq({"open", "closed"}) /\ reserved \in Nat
  BY DEF TypeOK
<1>2. Len(idle) \in Nat /\ Len(idle) >= 1
  BY <1>1
<1>3. idle' \in Seq({"open", "closed"}) /\ Len(idle') = Len(idle) - 1
  <2>1. \A i \in 1..(Len(idle) - 1) : idle[i] \in {"open", "closed"}
    BY <1>1, <1>2
  <2>2. 1 \in Int /\ Len(idle) - 1 \in Int
    BY <1>2
  <2>3. /\ SubSeq(idle, 1, Len(idle) - 1) \in Seq({"open", "closed"})
        /\ Len(SubSeq(idle, 1, Len(idle) - 1))
             = IF 1 <= Len(idle) - 1 THEN (Len(idle) - 1) - 1 + 1 ELSE 0
    BY <2>1, <2>2, SubSeqProperties
  <2> DEFINE rest == SubSeq(idle, 1, Len(idle) - 1)
  <2>4. idle' = rest
    BY DEF PopIdle
  <2>5. rest \in Seq({"open", "closed"}) /\ Len(rest) = Len(idle) - 1
    <3>1. (IF 1 <= Len(idle) - 1 THEN (Len(idle) - 1) - 1 + 1 ELSE 0) = Len(idle) - 1
      BY <1>2
    <3> QED
      BY <2>3, <3>1
  <2> HIDE DEF rest
  <2> QED
    BY <2>4, <2>5
<1>4. idle[Len(idle)] \in {"open", "closed"}
  BY <1>1, <1>2, ElementOfSeq
<1>5. reserved' = (IF hasRes THEN Dec(reserved) ELSE reserved)
  BY DEF PopIdle
<1>6. reserved' \in Nat
  BY <1>1, <1>5, DecType
<1> QED
  BY <1>2, <1>3, <1>4, <1>5, <1>6

LEMMA WaiterReset ==
  ASSUME TypeOK, NEW c \in Coroutines
  PROVE  [waiter EXCEPT ![c] = FreshWaiter] \in [Coroutines -> WaiterRecord]
BY FreshWaiterType DEF TypeOK

LEMMA AcquireType ==
  ASSUME TypeOK, NEW r \in Coroutines, NEW woke \in BOOLEAN,
         NEW hasRes \in BOOLEAN, Acquire(r, woke, hasRes)
  PROVE  TypeOK'
<1> DEFINE fresh == [waiter EXCEPT ![r] = FreshWaiter]
<1>0. fresh \in [Coroutines -> WaiterRecord]
  BY WaiterReset
<1> HIDE DEF fresh
<1>a. ReservedAfterMiss(hasRes) \in Nat
  BY DecType DEF ReservedAfterMiss, TypeOK
<1>1. CASE TakeIdle(r, woke, hasRes)
  <2>1. idle # <<>> /\ PopIdle(hasRes)
    BY <1>1 DEF TakeIdle, MayTakeIdle
  <2>2. /\ idle' \in Seq({"open", "closed"}) /\ reserved' \in Nat
        /\ idle[Len(idle)] \in {"open", "closed", "cut"}
    BY <2>1, PopIdleType
  <2>3. CASE Cancelled(r)
    <3>1. WakeOne(fresh) /\ active' = Dec(active)
      BY <1>1, <2>3 DEF TakeIdle, fresh
    <3>2. queue' \in Seq(Coroutines) /\ waiter' \in [Coroutines -> WaiterRecord]
      BY <1>0, <3>1, WakeOneType
    <3>3. active' \in Nat
      BY <3>1, DecType DEF TypeOK
    <3> QED
      BY <1>1, <2>2, <2>3, <3>2, <3>3 DEF TakeIdle, TypeOK, Ended
  <2>4. CASE ~Cancelled(r)
    BY <1>0, <1>1, <2>2, <2>4 DEF TakeIdle, TypeOK, Suspended, fresh
  <2> QED
    BY <2>3, <2>4
<1>2. CASE OpenConnection(r, woke, hasRes)
  <2>1. CASE Cancelled(r)
    <3>1. WakeOne(fresh)
      BY <1>2, <2>1 DEF OpenConnection, fresh
    <3>2. queue' \in Seq(Coroutines) /\ waiter' \in [Coroutines -> WaiterRecord]
      BY <1>0, <3>1, WakeOneType
    <3> QED
      BY <1>2, <1>a, <2>1, <3>2 DEF OpenConnection, TypeOK, Ended
  <2>2. CASE ~Cancelled(r)
    BY <1>0, <1>2, <1>a, <2>2 DEF OpenConnection, TypeOK, Suspended, fresh
  <2> QED
    BY <2>1, <2>2
<1>3. CASE Enqueue(r, woke, hasRes)
  BY <1>0, <1>3, <1>a DEF Enqueue, TypeOK, Suspended, Ended, fresh
<1> QED
  BY <1>1, <1>2, <1>3 DEF Acquire

LEMMA ProbeAcquireType ==
  ASSUME TypeOK, NEW p \in Coroutines, NEW hasRes \in BOOLEAN,
         ProbeAcquire(p, hasRes)
  PROVE  TypeOK'
<1> DEFINE fresh == [waiter EXCEPT ![p] = FreshWaiter]
<1>0. fresh \in [Coroutines -> WaiterRecord]
  BY WaiterReset
<1> HIDE DEF fresh
<1>1. CASE ProbeEnqueue(p, hasRes)
  BY <1>0, <1>1 DEF ProbeEnqueue, TypeOK, Suspended, Ended, fresh
<1>2. CASE ProbeTakeIdle(p, hasRes)
  <2>1. idle # <<>> /\ PopIdle(hasRes)
    BY <1>2 DEF ProbeTakeIdle
  <2>2. /\ idle' \in Seq({"open", "closed"}) /\ reserved' \in Nat
        /\ idle[Len(idle)] \in {"open", "closed", "cut"}
    BY <2>1, PopIdleType
  <2> QED
    BY <1>0, <1>2, <2>2 DEF ProbeTakeIdle, TypeOK, Suspended, Ended, fresh
<1>3. CASE ProbeOpenConnection(p, hasRes)
  <2>1. CASE Cancelled(p)
    <3>1. WakeOne(fresh)
      BY <1>3, <2>1 DEF ProbeOpenConnection, fresh
    <3>2. queue' \in Seq(Coroutines) /\ waiter' \in [Coroutines -> WaiterRecord]
      BY <1>0, <3>1, WakeOneType
    <3> QED
      BY <1>3, <2>1, <3>2 DEF ProbeOpenConnection, TypeOK, Ended
  <2>2. CASE ~Cancelled(p)
    <3>1. /\ waiter' = fresh /\ active' = active + 1 /\ connecting' = connecting + 1
          /\ pc' = [pc EXCEPT ![p] = "connect"] /\ UNCHANGED queue
          /\ UNCHANGED <<idle, reserved, conn, cancel, launched, evicted>>
      BY <1>3, <2>2 DEF ProbeOpenConnection, fresh
    <3> QED
      BY <1>0, <3>1 DEF TypeOK, Suspended
  <2> QED
    BY <2>1, <2>2
<1> QED
  BY <1>1, <1>2, <1>3 DEF ProbeAcquire

\* The worker's loop changes four variables, whatever it is given.
LEMMA WorkerLoopType ==
  ASSUME TypeOK, NEW w \in Coroutines, NEW n \in Nat, NEW k \in Nat,
         WorkerLoop(w, n, k)
  PROVE  /\ launched' \in Nat /\ active' \in Nat /\ connecting' \in Nat
         /\ pc' \in [Coroutines -> Suspended \cup Ended]
BY DEF WorkerLoop, TypeOK, Suspended, Ended

LEMMA StepType ==
  ASSUME TypeOK, NEW c \in Coroutines, Step(c)
  PROVE  TypeOK'
<1>0. waiter \in [Coroutines -> WaiterRecord] /\ active \in Nat /\ connecting \in Nat
  BY DEF TypeOK
<1>a. Dec(active) \in Nat /\ Dec(connecting) \in Nat
  BY <1>0, DecType
<1>b. waiter[c].reservedIdle \in BOOLEAN
  BY <1>0 DEF WaiterRecord
<1>1. CASE Start(c)
  <2>1. CASE Cancelled(c)
    BY <1>1, <2>1 DEF Start, TypeOK, Ended
  <2>2. CASE ~Cancelled(c)
    BY <1>1, <2>2, AcquireType DEF Start
  <2> QED
    BY <2>1, <2>2
<1>2. CASE ProbeStart(c)
  <2>1. CASE Cancelled(c)
    BY <1>2, <2>1 DEF ProbeStart, TypeOK, Ended
  <2>2. CASE ~Cancelled(c)
    BY <1>2, <2>2, ProbeAcquireType DEF ProbeStart
  <2> QED
    BY <2>1, <2>2
<1>3. CASE WorkerStart(c)
  <2>1. Len(idle) \in Nat
    BY DEF TypeOK
  <2>2. /\ launched' \in Nat /\ active' \in Nat /\ connecting' \in Nat
        /\ pc' \in [Coroutines -> Suspended \cup Ended]
    BY <1>0, <1>3, <2>1, WorkerLoopType DEF WorkerStart
  <2> QED
    BY <1>3, <2>2 DEF WorkerStart, TypeOK
<1>4. CASE WaitCancelled(c)
  <2>1. queue' \in Seq(Coroutines)
    BY <1>4, RemoveWaiterType DEF WaitCancelled, TypeOK
  <2>2. waiter' \in [Coroutines -> WaiterRecord]
    BY <1>0, <1>4 DEF WaitCancelled, WaiterRecord
  <2> QED
    BY <1>4, <2>1, <2>2 DEF WaitCancelled, TypeOK, Ended
<1>5. CASE WaitTimedOut(c)
  BY <1>5 DEF WaitTimedOut, TypeOK, Ended
<1>6. CASE WaitWoken(c)
  BY <1>6, <1>b, AcquireType, ProbeAcquireType DEF WaitWoken
<1>7. CASE ConnectOk(c)
  <2>1. CASE Cancelled(c)
    <3>1. queue' \in Seq(Coroutines) /\ waiter' \in [Coroutines -> WaiterRecord]
      BY <1>0, <1>7, <2>1, WakeTwoType DEF ConnectOk
    <3> QED
      BY <1>7, <1>a, <2>1, <3>1 DEF ConnectOk, TypeOK, Ended
  <2>2. CASE ~Cancelled(c)
    <3>1. queue' \in Seq(Coroutines) /\ waiter' \in [Coroutines -> WaiterRecord]
      BY <1>0, <1>7, <2>2, WakeOneType DEF ConnectOk
    <3> QED
      BY <1>7, <1>a, <2>2, <3>1 DEF ConnectOk, TypeOK, Suspended
  <2> QED
    BY <2>1, <2>2
<1>8. CASE ConnectFail(c)
  <2>1. queue' \in Seq(Coroutines) /\ waiter' \in [Coroutines -> WaiterRecord]
    BY <1>0, <1>8, WakeOneType DEF ConnectFail
  <2> QED
    BY <1>8, <1>a, <2>1 DEF ConnectFail, TypeOK, Ended
<1>9. CASE ProbeConnectOk(c)
  <2>1. queue' \in Seq(Coroutines) /\ waiter' \in [Coroutines -> WaiterRecord]
    BY <1>0, <1>9, WakeOneType DEF ProbeConnectOk
  <2> QED
    BY <1>9, <1>a, <2>1 DEF ProbeConnectOk, TypeOK, Suspended, Ended
<1>10. CASE ProbeFoundH2(c)
  <2>1. queue' \in Seq(Coroutines) /\ waiter' \in [Coroutines -> WaiterRecord]
    BY <1>0, <1>10, WakeTwoType DEF ProbeFoundH2
  <2> QED
    BY <1>10, <1>a, <2>1 DEF ProbeFoundH2, TypeOK, Ended
<1>11. CASE WorkerConnectOk(c)
  <2>1. /\ idle' \in Seq({"open", "closed"}) /\ queue' \in Seq(Coroutines)
        /\ waiter' \in [Coroutines -> WaiterRecord] /\ reserved' \in Nat
    BY <1>11, ReturnToIdleType DEF WorkerConnectOk
  <2>2. Len(idle) + 1 \in Nat
    BY DEF TypeOK
  <2>3. /\ launched' \in Nat /\ active' \in Nat /\ connecting' \in Nat
        /\ pc' \in [Coroutines -> Suspended \cup Ended]
    BY <1>11, <1>a, <2>2, WorkerLoopType DEF WorkerConnectOk
  <2> QED
    BY <1>11, <2>1, <2>3 DEF WorkerConnectOk, TypeOK
<1>12. CASE ExchangeOk(c)
  <2>1. /\ idle' \in Seq({"open", "closed"}) /\ queue' \in Seq(Coroutines)
        /\ waiter' \in [Coroutines -> WaiterRecord] /\ reserved' \in Nat
    BY <1>12, ReturnToIdleType DEF ExchangeOk
  <2> QED
    BY <1>12, <2>1 DEF ExchangeOk, TypeOK, Ended
<1>13. CASE ExchangeError(c)
  <2>1. queue' \in Seq(Coroutines) /\ waiter' \in [Coroutines -> WaiterRecord]
    BY <1>0, <1>13, WakeOneType DEF ExchangeError
  <2> QED
    BY <1>13, <1>a, <2>1 DEF ExchangeError, TypeOK, Ended
<1>14. CASE ProbeExchangeThrows(c)
  BY <1>14 DEF ProbeExchangeThrows, TypeOK, Ended
<1> QED
  BY <1>1, <1>2, <1>3, <1>4, <1>5, <1>6, <1>7, <1>8, <1>9, <1>10, <1>11, <1>12,
     <1>13, <1>14 DEF Step

LEMMA NextType == TypeOK /\ [Next]_vars => TypeOK'
<1> SUFFICES ASSUME TypeOK, [Next]_vars PROVE TypeOK'
  OBVIOUS
<1>1. ASSUME NEW c \in Coroutines, Step(c) PROVE TypeOK'
  BY <1>1, StepType
<1>2. ASSUME NEW c \in Coroutines, TimerFires(c) PROVE TypeOK'
  <2>1. waiter' \in [Coroutines -> WaiterRecord]
    BY <1>2 DEF TimerFires, TypeOK, WaiterRecord
  <2> QED
    BY <1>2, <2>1 DEF TimerFires, TypeOK
<1>3. ASSUME NEW c \in Coroutines, CancelEmit(c) PROVE TypeOK'
  <2> DEFINE r == [waiter[c] EXCEPT !.timer = AbortTimer(waiter[c].timer)]
  <2>a. waiter[c] \in WaiterRecord
    BY DEF TypeOK
  <2>b. r \in WaiterRecord
    BY <2>a DEF WaiterRecord, AbortTimer
  <2>c. waiter' = [waiter EXCEPT ![c] = r] \/ waiter' = waiter
    BY <1>3 DEF CancelEmit
  <2> HIDE DEF r
  <2>1. waiter' \in [Coroutines -> WaiterRecord]
    BY <2>b, <2>c DEF TypeOK
  <2> QED
    BY <1>3, <2>1 DEF CancelEmit, TypeOK
<1>4. ASSUME NEW c \in Coroutines, CancelOnShard(c) PROVE TypeOK'
  <2> DEFINE r == [waiter[c] EXCEPT !.cancelled = TRUE,
                                    !.timer = AbortTimer(waiter[c].timer)]
  <2>a. waiter[c] \in WaiterRecord
    BY DEF TypeOK
  <2>b. r \in WaiterRecord
    BY <2>a DEF WaiterRecord, AbortTimer
  <2>c. waiter' = [waiter EXCEPT ![c] = r] \/ waiter' = waiter
    BY <1>4 DEF CancelOnShard, TypeOK
  <2> HIDE DEF r
  <2>1. waiter' \in [Coroutines -> WaiterRecord]
    BY <2>b, <2>c DEF TypeOK
  <2> QED
    BY <1>4, <2>1 DEF CancelOnShard, TypeOK
<1>5. CASE ResetConnections
  <2>1. queue' \in Seq(Coroutines) /\ waiter' \in [Coroutines -> WaiterRecord]
    BY <1>5, WakeOneType DEF ResetConnections, TypeOK
  <2>2. active' \in Nat
    BY <1>5 DEF ResetConnections, TypeOK
  <2> QED
    BY <1>5, <2>1, <2>2 DEF ResetConnections, TypeOK
<1>6. CASE Evict
  BY <1>6 DEF Evict, TypeOK
<1>7. CASE Quiescent \/ UNCHANGED vars
  BY <1>7 DEF Quiescent, vars, TypeOK
<1> QED
  BY <1>1, <1>2, <1>3, <1>4, <1>5, <1>6, <1>7 DEF Next

LEMMA InitType == Init => TypeOK
<1> SUFFICES ASSUME Init PROVE TypeOK
  OBVIOUS
<1>1. waiter \in [Coroutines -> WaiterRecord]
  BY FreshWaiterType DEF Init
<1>2. idle \in Seq({"open", "closed"}) /\ queue \in Seq(Coroutines)
  BY DEF Init
<1>3. pc \in [Coroutines -> Suspended \cup Ended]
  BY DEF Init, Suspended
<1> QED
  BY <1>1, <1>2, <1>3 DEF Init, TypeOK

\* The fields of OriginPool, the Waiters and the coroutines' states keep their
\* types; in particular no std::size_t counter is ever decremented below 0.
THEOREM TypeCorrect == Spec => []TypeOK
BY InitType, NextType, PTL DEF Spec

-----------------------------------------------------------------------------
(* Counting.  A step moves at most one coroutine, so the sets the counters  *)
(* stand for change by at most one element.                                 *)

InHolding(v) == IF v \in {"connect", "exchange", "leaked"} THEN 1 ELSE 0
InConnecting(v) == IF v = "connect" THEN 1 ELSE 0

LEMMA HoldingFinite ==
  /\ IsFiniteSet(Holding) /\ Cardinality(Holding) \in Nat
  /\ IsFiniteSet(Connecting) /\ Cardinality(Connecting) \in Nat
BY CoroutinesFinite, FS_Subset, FS_CardinalityType DEF Holding, Connecting

LEMMA MoveOne ==
  ASSUME TypeOK, NEW c \in Coroutines, NEW v, pc' = [pc EXCEPT ![c] = v]
  PROVE  /\ Cardinality(Holding')
               = Cardinality(Holding) + InHolding(v) - InHolding(pc[c])
         /\ Cardinality(Connecting')
               = Cardinality(Connecting) + InConnecting(v) - InConnecting(pc[c])
         /\ InHolding(pc[c]) <= Cardinality(Holding)
         /\ InConnecting(pc[c]) <= Cardinality(Connecting)
<1> DEFINE H == Holding \ {c}
           K == Connecting \ {c}
<1>1. /\ IsFiniteSet(Holding) /\ Cardinality(Holding) \in Nat
      /\ IsFiniteSet(Connecting) /\ Cardinality(Connecting) \in Nat
  BY HoldingFinite
<1>2. /\ IsFiniteSet(H) /\ Cardinality(H) = Cardinality(Holding) - InHolding(pc[c])
      /\ IsFiniteSet(K) /\ Cardinality(K) = Cardinality(Connecting) - InConnecting(pc[c])
  <2>1. c \in Holding <=> pc[c] \in {"connect", "exchange", "leaked"}
    BY DEF Holding
  <2>2. c \in Connecting <=> pc[c] = "connect"
    BY DEF Connecting
  <2>3. /\ IsFiniteSet(H)
        /\ Cardinality(H) = IF c \in Holding THEN Cardinality(Holding) - 1
                                              ELSE Cardinality(Holding)
    BY <1>1, FS_RemoveElement
  <2>4. /\ IsFiniteSet(K)
        /\ Cardinality(K) = IF c \in Connecting THEN Cardinality(Connecting) - 1
                                                 ELSE Cardinality(Connecting)
    BY <1>1, FS_RemoveElement
  <2> QED
    BY <1>1, <2>1, <2>2, <2>3, <2>4 DEF InHolding, InConnecting
<1>3. Holding' = IF v \in {"connect", "exchange", "leaked"} THEN H \cup {c} ELSE H
  BY DEF Holding, TypeOK
<1>4. Connecting' = IF v = "connect" THEN K \cup {c} ELSE K
  BY DEF Connecting, TypeOK
<1>5. Cardinality(H \cup {c}) = Cardinality(H) + 1
  BY <1>2, FS_AddElement
<1>6. Cardinality(K \cup {c}) = Cardinality(K) + 1
  BY <1>2, FS_AddElement
<1>7. Cardinality(H) \in Nat /\ Cardinality(K) \in Nat
  BY <1>2, FS_CardinalityType
<1> HIDE DEF H, K
<1>8. /\ Cardinality(Holding') = Cardinality(H) + InHolding(v)
      /\ Cardinality(Connecting') = Cardinality(K) + InConnecting(v)
  BY <1>3, <1>4, <1>5, <1>6, <1>7 DEF InHolding, InConnecting
<1> QED
  BY <1>1, <1>2, <1>7, <1>8 DEF InHolding, InConnecting

LEMMA MoveNone ==
  ASSUME UNCHANGED pc
  PROVE  Holding' = Holding /\ Connecting' = Connecting
BY DEF Holding, Connecting

-----------------------------------------------------------------------------
(* The inductive invariant.  The accounting is what makes every guarded     *)
(* decrement of active take effect, and with it the cap is inductive.       *)

Counted ==
  /\ ConnectionAccounting
  /\ ConnectionCap
  /\ ReservationsBacked
  /\ ConnectingNotOvercounted

PoolInv == TypeOK /\ Counted

LEMMA Numbers ==
  ASSUME TypeOK
  PROVE  /\ Len(idle) \in Nat /\ active \in Nat /\ connecting \in Nat /\ reserved \in Nat
         /\ Cardinality(Holding) \in Nat /\ Cardinality(Connecting) \in Nat
BY HoldingFinite DEF TypeOK

\* Neither waiting nor ending costs the pool anything.
LEMMA CountedFrame ==
  ASSUME PoolInv, NEW c \in Coroutines, NEW v \in Suspended \cup Ended,
         pc' = [pc EXCEPT ![c] = v],
         InHolding(v) = InHolding(pc[c]), InConnecting(v) = InConnecting(pc[c]),
         UNCHANGED <<idle, active, connecting>>,
         reserved' \in Nat, reserved' <= reserved
  PROVE  Counted'
<1>1. /\ Cardinality(Holding') = Cardinality(Holding)
      /\ Cardinality(Connecting') = Cardinality(Connecting)
  <2>1. /\ Cardinality(Holding') = Cardinality(Holding) + InHolding(v) - InHolding(pc[c])
        /\ Cardinality(Connecting')
             = Cardinality(Connecting) + InConnecting(v) - InConnecting(pc[c])
    BY MoveOne DEF PoolInv
  <2> QED
    BY <2>1, Numbers DEF PoolInv, InHolding, InConnecting
<1> QED
  BY <1>1, Numbers DEF PoolInv, Counted, ConnectionAccounting, ConnectionCap,
     ReservationsBacked, ConnectingNotOvercounted

LEMMA AcquireCounted ==
  ASSUME PoolInv, NEW r \in Coroutines, NEW woke \in BOOLEAN,
         NEW hasRes \in BOOLEAN, Acquire(r, woke, hasRes),
         pc[r] \in {"start", "wait"}
  PROVE  Counted'
<1>0. TypeOK
  BY DEF PoolInv
<1>n. /\ Len(idle) \in Nat /\ active \in Nat /\ connecting \in Nat /\ reserved \in Nat
      /\ Cardinality(Holding) \in Nat /\ Cardinality(Connecting) \in Nat
  BY <1>0, Numbers
<1>h. InHolding(pc[r]) = 0 /\ InConnecting(pc[r]) = 0
  BY DEF InHolding, InConnecting
<1>r. ReservedAfterMiss(hasRes) \in Nat /\ ReservedAfterMiss(hasRes) <= reserved
  BY <1>n DEF ReservedAfterMiss, Dec
<1>i. /\ active = Len(idle) + Cardinality(Holding)
      /\ Len(idle) + Cardinality(Holding) <= MaxConnections
      /\ reserved <= Len(idle)
      /\ connecting <= Cardinality(Connecting)
  BY DEF PoolInv, Counted, ConnectionAccounting, ConnectionCap, ReservationsBacked,
     ConnectingNotOvercounted
<1>1. CASE TakeIdle(r, woke, hasRes)
  <2>1. idle # <<>> /\ PopIdle(hasRes) /\ (hasRes \/ reserved = 0)
    BY <1>1 DEF TakeIdle, MayTakeIdle
  <2>2. /\ Len(idle') = Len(idle) - 1 /\ Len(idle) >= 1
        /\ reserved' = (IF hasRes THEN Dec(reserved) ELSE reserved)
    BY <1>0, <2>1, PopIdleType
  <2>3. reserved' <= Len(idle')
    BY <1>n, <1>i, <2>1, <2>2 DEF Dec
  <2>4. CASE Cancelled(r)
    <3>1. pc' = [pc EXCEPT ![r] = "failed"] /\ active' = Dec(active) /\ connecting' = connecting
      BY <1>1, <2>4 DEF TakeIdle
    <3>2. /\ Cardinality(Holding') = Cardinality(Holding)
          /\ Cardinality(Connecting') = Cardinality(Connecting)
      <4>1. InHolding("failed") = 0 /\ InConnecting("failed") = 0
        BY DEF InHolding, InConnecting
      <4>2. /\ Cardinality(Holding') = Cardinality(Holding) + InHolding("failed") - InHolding(pc[r])
            /\ Cardinality(Connecting')
                 = Cardinality(Connecting) + InConnecting("failed") - InConnecting(pc[r])
        BY <1>0, <3>1, MoveOne
      <4> QED
        BY <1>n, <1>h, <4>1, <4>2
    <3> QED
      BY <1>n, <1>i, <2>2, <2>3, <3>1, <3>2, LimitTypes DEF Counted, Dec, ConnectionAccounting,
         ConnectionCap, ReservationsBacked, ConnectingNotOvercounted
  <2>5. CASE ~Cancelled(r)
    <3>1. pc' = [pc EXCEPT ![r] = "exchange"] /\ active' = active /\ connecting' = connecting
      BY <1>1, <2>5 DEF TakeIdle
    <3>2. /\ Cardinality(Holding') = Cardinality(Holding) + 1
          /\ Cardinality(Connecting') = Cardinality(Connecting)
      <4>1. InHolding("exchange") = 1 /\ InConnecting("exchange") = 0
        BY DEF InHolding, InConnecting
      <4>2. /\ Cardinality(Holding') = Cardinality(Holding) + InHolding("exchange") - InHolding(pc[r])
            /\ Cardinality(Connecting')
                 = Cardinality(Connecting) + InConnecting("exchange") - InConnecting(pc[r])
        BY <1>0, <3>1, MoveOne
      <4> QED
        BY <1>n, <1>h, <4>1, <4>2
    <3> QED
      BY <1>n, <1>i, <2>2, <2>3, <3>1, <3>2, LimitTypes, SMTT(30) DEF Counted, ConnectionAccounting,
         ConnectionCap, ReservationsBacked, ConnectingNotOvercounted
  <2> QED
    BY <2>4, <2>5
<1>2. CASE OpenConnection(r, woke, hasRes)
  <2>1. CASE Cancelled(r)
    <3>1. /\ pc' = [pc EXCEPT ![r] = "failed"] /\ UNCHANGED <<idle, active, connecting>>
          /\ reserved' = ReservedAfterMiss(hasRes)
      BY <1>2, <2>1 DEF OpenConnection
    <3>2. "failed" \in Ended /\ InHolding("failed") = 0 /\ InConnecting("failed") = 0
      BY DEF InHolding, InConnecting, Ended
    <3> QED
      BY <1>h, <1>r, <3>1, <3>2, CountedFrame
  <2>2. CASE ~Cancelled(r)
    <3>1. /\ pc' = [pc EXCEPT ![r] = "connect"] /\ idle' = idle
          /\ active' = active + 1 /\ connecting' = connecting + 1
          /\ reserved' = ReservedAfterMiss(hasRes)
      BY <1>2, <2>2 DEF OpenConnection
    <3>2. active < MaxConnections
      BY <1>2, <1>n, LimitTypes DEF OpenConnection, MayConnect, TlsMustWait, PlainMayConnect
    <3>3. /\ Cardinality(Holding') = Cardinality(Holding) + 1
          /\ Cardinality(Connecting') = Cardinality(Connecting) + 1
      <4>1. InHolding("connect") = 1 /\ InConnecting("connect") = 1
        BY DEF InHolding, InConnecting
      <4>2. /\ Cardinality(Holding') = Cardinality(Holding) + InHolding("connect") - InHolding(pc[r])
            /\ Cardinality(Connecting')
                 = Cardinality(Connecting) + InConnecting("connect") - InConnecting(pc[r])
        BY <1>0, <3>1, MoveOne
      <4> QED
        BY <1>n, <1>h, <4>1, <4>2
    <3> QED
      BY <1>n, <1>i, <1>r, <3>1, <3>2, <3>3, LimitTypes, SMTT(30) DEF Counted, ConnectionAccounting,
         ConnectionCap, ReservationsBacked, ConnectingNotOvercounted
  <2> QED
    BY <2>1, <2>2
<1>3. CASE Enqueue(r, woke, hasRes)
  <2> DEFINE v == IF Cancelled(r) THEN "abandoned" ELSE "wait"
  <2>1. /\ pc' = [pc EXCEPT ![r] = v] /\ UNCHANGED <<idle, active, connecting>>
        /\ reserved' = ReservedAfterMiss(hasRes)
    BY <1>3 DEF Enqueue
  <2>2. v \in Suspended \cup Ended /\ InHolding(v) = 0 /\ InConnecting(v) = 0
    BY DEF InHolding, InConnecting, Suspended, Ended
  <2> HIDE DEF v
  <2> QED
    BY <1>h, <1>r, <2>1, <2>2, CountedFrame
<1> QED
  BY <1>1, <1>2, <1>3 DEF Acquire

\* What is left to show of a step that moves c to v.
LEMMA CountedStep ==
  ASSUME PoolInv, NEW c \in Coroutines, NEW v, pc' = [pc EXCEPT ![c] = v],
         active' = Len(idle') + Cardinality(Holding) + InHolding(v) - InHolding(pc[c]),
         active' <= MaxConnections,
         reserved' <= Len(idle'),
         connecting' <= Cardinality(Connecting) + InConnecting(v) - InConnecting(pc[c]),
         Len(idle') \in Nat
  PROVE  Counted'
<1>1. /\ Cardinality(Holding') = Cardinality(Holding) + InHolding(v) - InHolding(pc[c])
      /\ Cardinality(Connecting')
           = Cardinality(Connecting) + InConnecting(v) - InConnecting(pc[c])
  BY MoveOne DEF PoolInv
<1>2. /\ Cardinality(Holding) \in Nat /\ Cardinality(Connecting) \in Nat
      /\ InHolding(v) \in Nat /\ InHolding(pc[c]) \in Nat
      /\ InConnecting(v) \in Nat /\ InConnecting(pc[c]) \in Nat
  BY HoldingFinite DEF InHolding, InConnecting
<1> QED
  BY <1>1, <1>2, LimitTypes DEF Counted, ConnectionAccounting, ConnectionCap,
     ReservationsBacked, ConnectingNotOvercounted

\* What the invariant says, in numbers, of a coroutine about to move.
LEMMA Facts ==
  ASSUME PoolInv, NEW c \in Coroutines
  PROVE  /\ TypeOK
         /\ Len(idle) \in Nat /\ active \in Nat /\ connecting \in Nat /\ reserved \in Nat
         /\ Cardinality(Holding) \in Nat /\ Cardinality(Connecting) \in Nat
         /\ active = Len(idle) + Cardinality(Holding)
         /\ Len(idle) + Cardinality(Holding) <= MaxConnections
         /\ reserved <= Len(idle)
         /\ connecting <= Cardinality(Connecting)
         /\ pc[c] = "connect" => Cardinality(Holding) >= 1 /\ Cardinality(Connecting) >= 1
         /\ pc[c] = "exchange" => Cardinality(Holding) >= 1
<1>1. TypeOK
  BY DEF PoolInv
<1>2. /\ Len(idle) \in Nat /\ active \in Nat /\ connecting \in Nat /\ reserved \in Nat
      /\ Cardinality(Holding) \in Nat /\ Cardinality(Connecting) \in Nat
  BY <1>1, Numbers
<1>3. ASSUME pc[c] \in {"connect", "exchange"} PROVE Cardinality(Holding) >= 1
  <2>1. c \in Holding
    BY <1>3 DEF Holding
  <2> QED
    BY <1>2, <2>1, HoldingFinite, FS_EmptySet
<1>4. ASSUME pc[c] = "connect" PROVE Cardinality(Connecting) >= 1
  <2>1. c \in Connecting
    BY <1>4 DEF Connecting
  <2> QED
    BY <1>2, <2>1, HoldingFinite, FS_EmptySet
<1> QED
  BY <1>1, <1>2, <1>3, <1>4 DEF PoolInv, Counted, ConnectionAccounting, ConnectionCap,
     ReservationsBacked, ConnectingNotOvercounted

LEMMA ProbeAcquireCounted ==
  ASSUME PoolInv, NEW p \in Coroutines, NEW hasRes \in BOOLEAN,
         ProbeAcquire(p, hasRes), pc[p] \in {"start", "wait"}
  PROVE  Counted'
<1>f. /\ TypeOK
      /\ Len(idle) \in Nat /\ active \in Nat /\ connecting \in Nat /\ reserved \in Nat
      /\ Cardinality(Holding) \in Nat /\ Cardinality(Connecting) \in Nat
      /\ active = Len(idle) + Cardinality(Holding)
      /\ Len(idle) + Cardinality(Holding) <= MaxConnections
      /\ reserved <= Len(idle)
      /\ connecting <= Cardinality(Connecting)
  BY Facts
<1>h. InHolding(pc[p]) = 0 /\ InConnecting(pc[p]) = 0
  BY DEF InHolding, InConnecting
<1>1. CASE ProbeEnqueue(p, hasRes)
  <2> DEFINE v == IF Cancelled(p) THEN "abandoned" ELSE "wait"
  <2>1. /\ pc' = [pc EXCEPT ![p] = v] /\ UNCHANGED <<idle, active, connecting, reserved>>
    BY <1>1 DEF ProbeEnqueue
  <2>2. v \in Suspended \cup Ended /\ InHolding(v) = 0 /\ InConnecting(v) = 0
    BY DEF InHolding, InConnecting, Suspended, Ended
  <2> HIDE DEF v
  <2>3. reserved' \in Nat /\ reserved' <= reserved
    BY <1>f, <2>1
  <2> QED
    BY <1>h, <2>1, <2>2, <2>3, CountedFrame
<1>2. CASE ProbeTakeIdle(p, hasRes)
  <2> DEFINE v == IF Cancelled(p) THEN "leaked" ELSE "exchange"
  <2>0. /\ idle # <<>> /\ PopIdle(hasRes) /\ ~ProbeMustWait(hasRes)
        /\ pc' = [pc EXCEPT ![p] = v] /\ active' = active /\ connecting' = connecting
    BY <1>2 DEF ProbeTakeIdle
  <2>a. hasRes \/ ~(reserved > 0)
    BY <2>0 DEF ProbeMustWait
  <2>1. /\ idle # <<>> /\ PopIdle(hasRes) /\ (hasRes \/ reserved = 0)
        /\ pc' = [pc EXCEPT ![p] = v] /\ active' = active /\ connecting' = connecting
    <3>1. ~(reserved > 0) => reserved = 0
      BY <1>f
    <3> QED
      BY <2>0, <2>a, <3>1
  <2>2. /\ Len(idle') = Len(idle) - 1 /\ Len(idle) >= 1
        /\ reserved' = (IF hasRes THEN Dec(reserved) ELSE reserved)
    BY <1>f, <2>1, PopIdleType
  <2>3. reserved' <= Len(idle')
    BY <1>f, <2>1, <2>2 DEF Dec
  <2>4. InHolding(v) = 1 /\ InConnecting(v) = 0
    BY DEF InHolding, InConnecting
  <2> HIDE DEF v
  <2>5. /\ active' = Len(idle') + Cardinality(Holding) + InHolding(v) - InHolding(pc[p])
        /\ active' <= MaxConnections /\ Len(idle') \in Nat
        /\ connecting' <= Cardinality(Connecting) + InConnecting(v) - InConnecting(pc[p])
    BY <1>f, <1>h, <2>1, <2>2, <2>4
  <2> QED
    BY <2>1, <2>3, <2>5, CountedStep
<1>3. CASE ProbeOpenConnection(p, hasRes)
  <2>1. CASE Cancelled(p)
    <3>1. /\ pc' = [pc EXCEPT ![p] = "failed"]
          /\ UNCHANGED <<idle, active, connecting, reserved>>
      BY <1>3, <2>1 DEF ProbeOpenConnection
    <3>2. "failed" \in Ended /\ InHolding("failed") = 0 /\ InConnecting("failed") = 0
      BY DEF InHolding, InConnecting, Ended
    <3>3. reserved' \in Nat /\ reserved' <= reserved
      BY <1>f, <3>1
    <3> QED
      BY <1>h, <3>1, <3>2, <3>3, CountedFrame
  <2>2. CASE ~Cancelled(p)
    <3>1. /\ pc' = [pc EXCEPT ![p] = "connect"] /\ UNCHANGED <<idle, reserved>>
          /\ active' = active + 1 /\ connecting' = connecting + 1
      BY <1>3, <2>2 DEF ProbeOpenConnection
    <3>2. active < MaxConnections
      <4>1. idle = <<>> /\ ~ProbeMustWait(hasRes)
        BY <1>3 DEF ProbeOpenConnection
      <4>2. ~(active >= MaxConnections)
        BY <4>1 DEF ProbeMustWait
      <4> QED
        BY <1>f, <4>2, LimitTypes
    <3>3. InHolding("connect") = 1 /\ InConnecting("connect") = 1
      BY DEF InHolding, InConnecting
    <3>4. /\ active' = Len(idle') + Cardinality(Holding) + InHolding("connect")
                         - InHolding(pc[p])
          /\ active' <= MaxConnections /\ Len(idle') \in Nat /\ reserved' <= Len(idle')
          /\ connecting' <= Cardinality(Connecting) + InConnecting("connect")
                              - InConnecting(pc[p])
      BY <1>f, <1>h, <3>1, <3>2, <3>3, LimitTypes
    <3> QED
      BY <3>1, <3>4, CountedStep
  <2> QED
    BY <2>1, <2>2
<1> QED
  BY <1>1, <1>2, <1>3 DEF ProbeAcquire

LEMMA StepCounted ==
  ASSUME PoolInv, NEW c \in Coroutines, Step(c)
  PROVE  Counted'
<1>f. /\ TypeOK
      /\ Len(idle) \in Nat /\ active \in Nat /\ connecting \in Nat /\ reserved \in Nat
      /\ Cardinality(Holding) \in Nat /\ Cardinality(Connecting) \in Nat
      /\ active = Len(idle) + Cardinality(Holding)
      /\ Len(idle) + Cardinality(Holding) <= MaxConnections
      /\ reserved <= Len(idle)
      /\ connecting <= Cardinality(Connecting)
      /\ pc[c] = "connect" => Cardinality(Holding) >= 1 /\ Cardinality(Connecting) >= 1
      /\ pc[c] = "exchange" => Cardinality(Holding) >= 1
  BY Facts
<1>v. /\ InHolding("start") = 0 /\ InHolding("wait") = 0 /\ InHolding("failed") = 0
      /\ InHolding("ok") = 0 /\ InHolding("timeout") = 0
      /\ InHolding("connect") = 1 /\ InHolding("exchange") = 1 /\ InHolding("leaked") = 1
      /\ InConnecting("start") = 0 /\ InConnecting("wait") = 0 /\ InConnecting("failed") = 0
      /\ InConnecting("ok") = 0 /\ InConnecting("timeout") = 0
      /\ InConnecting("exchange") = 0 /\ InConnecting("leaked") = 0
      /\ InConnecting("connect") = 1
  BY DEF InHolding, InConnecting
<1>e. /\ "failed" \in Suspended \cup Ended /\ "timeout" \in Suspended \cup Ended
      /\ "leaked" \in Suspended \cup Ended
  BY DEF Ended
<1>b. waiter[c].reservedIdle \in BOOLEAN
  BY <1>f DEF TypeOK, WaiterRecord
\* The steps that end c without touching the counters.
<1>s. ASSUME NEW v \in Suspended \cup Ended, pc' = [pc EXCEPT ![c] = v],
             InHolding(v) = InHolding(pc[c]), InConnecting(v) = InConnecting(pc[c]),
             UNCHANGED <<idle, active, connecting, reserved>>
      PROVE  Counted'
  <2>1. reserved' \in Nat /\ reserved' <= reserved
    BY <1>f, <1>s
  <2> QED
    BY <1>s, <2>1, CountedFrame
<1>1. CASE Start(c)
  <2>1. pc[c] = "start"
    BY <1>1 DEF Start
  <2>2. CASE Cancelled(c)
    <3>1. /\ pc' = [pc EXCEPT ![c] = "failed"]
          /\ UNCHANGED <<idle, active, connecting, reserved>>
      BY <1>1, <2>2 DEF Start
    <3> QED
      BY <1>e, <1>s, <1>v, <2>1, <3>1
  <2>3. CASE ~Cancelled(c)
    BY <1>1, <2>1, <2>3, AcquireCounted DEF Start
  <2> QED
    BY <2>2, <2>3
<1>2. CASE ProbeStart(c)
  <2>1. pc[c] = "start"
    BY <1>2 DEF ProbeStart
  <2>2. CASE Cancelled(c)
    <3>1. /\ pc' = [pc EXCEPT ![c] = "failed"]
          /\ UNCHANGED <<idle, active, connecting, reserved>>
      BY <1>2, <2>2 DEF ProbeStart
    <3> QED
      BY <1>e, <1>s, <1>v, <2>1, <3>1
  <2>3. CASE ~Cancelled(c)
    BY <1>2, <2>1, <2>3, ProbeAcquireCounted DEF ProbeStart
  <2> QED
    BY <2>2, <2>3
<1>4. CASE WaitCancelled(c)
  <2>1. /\ pc[c] = "wait" /\ pc' = [pc EXCEPT ![c] = "failed"]
        /\ UNCHANGED <<idle, active, connecting, reserved>>
    BY <1>4 DEF WaitCancelled
  <2> QED
    BY <1>e, <1>s, <1>v, <2>1
<1>5. CASE WaitTimedOut(c)
  <2>1. /\ pc[c] = "wait" /\ pc' = [pc EXCEPT ![c] = "timeout"]
        /\ UNCHANGED <<idle, active, connecting, reserved>>
    BY <1>5 DEF WaitTimedOut
  <2> QED
    BY <1>e, <1>s, <1>v, <2>1
<1>6. CASE WaitWoken(c)
  BY <1>6, <1>b, AcquireCounted, ProbeAcquireCounted DEF WaitWoken
<1>14. CASE ProbeExchangeThrows(c)
  <2>1. /\ pc[c] = "exchange" /\ pc' = [pc EXCEPT ![c] = "leaked"]
        /\ UNCHANGED <<idle, active, connecting, reserved>>
    BY <1>14 DEF ProbeExchangeThrows
  <2> QED
    BY <1>e, <1>s, <1>v, <2>1
\* The steps that release or keep the connection of c.
<1>m. ASSUME NEW v, pc' = [pc EXCEPT ![c] = v],
             UNCHANGED <<idle, reserved>>,
             active' = active + InHolding(v) - InHolding(pc[c]),
             active' <= active,
             connecting' <= Cardinality(Connecting) + InConnecting(v) - InConnecting(pc[c])
      PROVE  Counted'
  <2>1. /\ InHolding(v) \in Nat /\ InHolding(pc[c]) \in Nat
    BY DEF InHolding
  <2>2. /\ active' = Len(idle') + Cardinality(Holding) + InHolding(v) - InHolding(pc[c])
        /\ active' <= MaxConnections /\ Len(idle') \in Nat /\ reserved' <= Len(idle')
    BY <1>f, <1>m, <2>1, LimitTypes
  <2> QED
    BY <1>m, <2>2, CountedStep
<1>7. CASE ConnectOk(c)
  <2>1. pc[c] = "connect" /\ UNCHANGED <<idle, reserved>> /\ connecting' = Dec(connecting)
    BY <1>7 DEF ConnectOk
  <2>2. CASE Cancelled(c)
    <3>1. pc' = [pc EXCEPT ![c] = "failed"] /\ active' = Dec(active)
      BY <1>7, <2>2 DEF ConnectOk
    <3>2. /\ active' = active + InHolding("failed") - InHolding(pc[c])
          /\ active' <= active
          /\ connecting' <= Cardinality(Connecting) + InConnecting("failed")
                              - InConnecting(pc[c])
      BY <1>f, <1>v, <2>1, <3>1 DEF Dec
    <3> QED
      BY <1>m, <2>1, <3>1, <3>2
  <2>3. CASE ~Cancelled(c)
    <3>1. pc' = [pc EXCEPT ![c] = "exchange"] /\ active' = active
      BY <1>7, <2>3 DEF ConnectOk
    <3>2. /\ active' = active + InHolding("exchange") - InHolding(pc[c])
          /\ active' <= active
          /\ connecting' <= Cardinality(Connecting) + InConnecting("exchange")
                              - InConnecting(pc[c])
      BY <1>f, <1>v, <2>1, <3>1 DEF Dec
    <3> QED
      BY <1>m, <2>1, <3>1, <3>2
  <2> QED
    BY <2>2, <2>3
<1>8. CASE ConnectFail(c)
  <2>1. /\ pc[c] = "connect" /\ UNCHANGED <<idle, reserved>>
        /\ connecting' = Dec(connecting) /\ active' = Dec(active)
        /\ pc' = [pc EXCEPT ![c] = "failed"]
    BY <1>8 DEF ConnectFail
  <2>2. /\ active' = active + InHolding("failed") - InHolding(pc[c])
        /\ active' <= active
        /\ connecting' <= Cardinality(Connecting) + InConnecting("failed")
                            - InConnecting(pc[c])
    BY <1>f, <1>v, <2>1 DEF Dec
  <2> QED
    BY <1>m, <2>1, <2>2
<1>9. CASE ProbeConnectOk(c)
  <2> DEFINE v == IF Cancelled(c) THEN "leaked" ELSE "exchange"
  <2>1. /\ pc[c] = "connect" /\ UNCHANGED <<idle, active, reserved>>
        /\ connecting' = Dec(connecting) /\ pc' = [pc EXCEPT ![c] = v]
    BY <1>9 DEF ProbeConnectOk
  <2>2. InHolding(v) = 1 /\ InConnecting(v) = 0
    BY <1>v
  <2> HIDE DEF v
  <2>3. /\ active' = active + InHolding(v) - InHolding(pc[c])
        /\ active' <= active
        /\ connecting' <= Cardinality(Connecting) + InConnecting(v) - InConnecting(pc[c])
    BY <1>f, <1>v, <2>1, <2>2 DEF Dec
  <2> QED
    BY <1>m, <2>1, <2>3
<1>10. CASE ProbeFoundH2(c)
  <2>1. /\ pc[c] = "connect" /\ UNCHANGED <<idle, reserved>>
        /\ connecting' = Dec(connecting) /\ active' = Dec(active)
        /\ pc' = [pc EXCEPT ![c] = "ok"]
    BY <1>10 DEF ProbeFoundH2
  <2>2. /\ active' = active + InHolding("ok") - InHolding(pc[c])
        /\ active' <= active
        /\ connecting' <= Cardinality(Connecting) + InConnecting("ok")
                            - InConnecting(pc[c])
    BY <1>f, <1>v, <2>1 DEF Dec
  <2> QED
    BY <1>m, <2>1, <2>2
<1>13. CASE ExchangeError(c)
  <2>1. /\ pc[c] = "exchange" /\ UNCHANGED <<idle, reserved, connecting>>
        /\ active' = Dec(active) /\ pc' = [pc EXCEPT ![c] = "failed"]
    BY <1>13 DEF ExchangeError
  <2>2. /\ active' = active + InHolding("failed") - InHolding(pc[c])
        /\ active' <= active
        /\ connecting' <= Cardinality(Connecting) + InConnecting("failed")
                            - InConnecting(pc[c])
    BY <1>f, <1>v, <2>1 DEF Dec
  <2> QED
    BY <1>m, <2>1, <2>2
\* The steps that put a connection on the idle stack, and the worker's loop.
<1>12. CASE ExchangeOk(c)
  <2>1. /\ pc[c] = "exchange" /\ UNCHANGED <<active, connecting>>
        /\ pc' = [pc EXCEPT ![c] = "ok"]
        /\ Len(idle') = Len(idle) + 1 /\ reserved' \in {reserved, reserved + 1}
    BY <1>f, <1>12, ReturnToIdleType DEF ExchangeOk
  <2>2. /\ active' = Len(idle') + Cardinality(Holding) + InHolding("ok") - InHolding(pc[c])
        /\ active' <= MaxConnections /\ Len(idle') \in Nat /\ reserved' <= Len(idle')
        /\ connecting' <= Cardinality(Connecting) + InConnecting("ok")
                            - InConnecting(pc[c])
    BY <1>f, <1>v, <2>1, LimitTypes
  <2> QED
    BY <2>1, <2>2, CountedStep
<1>3. CASE WorkerStart(c)
  <2> DEFINE may == WorkerMayLaunch(Len(idle), connecting)
             go  == may /\ launched < TargetCount
             v == IF go THEN "connect" ELSE "ok"
  <2>1. /\ pc[c] = "start" /\ UNCHANGED <<idle, reserved>>
        /\ active' = IF go THEN active + 1 ELSE active
        /\ connecting' = IF go THEN connecting + 1 ELSE connecting
        /\ pc' = [pc EXCEPT ![c] = v]
    BY <1>3 DEF WorkerStart, WorkerLoop
  <2>2. go => active < MaxConnections
    BY DEF WorkerMayLaunch
  <2>3. /\ InHolding(v) = IF go THEN 1 ELSE 0
        /\ InConnecting(v) = IF go THEN 1 ELSE 0
    BY <1>v
  <2> HIDE DEF go, v
  <2>4. /\ active' = Len(idle') + Cardinality(Holding) + InHolding(v) - InHolding(pc[c])
        /\ active' <= MaxConnections /\ Len(idle') \in Nat /\ reserved' <= Len(idle')
        /\ connecting' <= Cardinality(Connecting) + InConnecting(v) - InConnecting(pc[c])
    BY <1>f, <1>v, <2>1, <2>2, <2>3, LimitTypes
  <2> QED
    BY <2>1, <2>4, CountedStep
<1>11. CASE WorkerConnectOk(c)
  <2> DEFINE may == WorkerMayLaunch(Len(idle) + 1, Dec(connecting))
             go  == may /\ launched < TargetCount
             v == IF go THEN "connect" ELSE "ok"
  <2>1. /\ pc[c] = "connect"
        /\ active' = IF go THEN active + 1 ELSE active
        /\ connecting' = IF go THEN Dec(connecting) + 1 ELSE Dec(connecting)
        /\ pc' = [pc EXCEPT ![c] = v]
    BY <1>11 DEF WorkerConnectOk, WorkerLoop
  <2>2. go => active < MaxConnections
    BY DEF WorkerMayLaunch
  <2>3. /\ InHolding(v) = IF go THEN 1 ELSE 0
        /\ InConnecting(v) = IF go THEN 1 ELSE 0
    BY <1>v
  <2>4. Len(idle') = Len(idle) + 1 /\ reserved' \in {reserved, reserved + 1}
    BY <1>f, <1>11, ReturnToIdleType DEF WorkerConnectOk
  <2> HIDE DEF go, v
  <2>5. /\ active' = Len(idle') + Cardinality(Holding) + InHolding(v) - InHolding(pc[c])
        /\ active' <= MaxConnections /\ Len(idle') \in Nat /\ reserved' <= Len(idle')
        /\ connecting' <= Cardinality(Connecting) + InConnecting(v) - InConnecting(pc[c])
    BY <1>f, <1>v, <2>1, <2>2, <2>3, <2>4, LimitTypes, SMTT(30) DEF Dec
  <2> QED
    BY <2>1, <2>5, CountedStep
<1> QED
  BY <1>1, <1>2, <1>3, <1>4, <1>5, <1>6, <1>7, <1>8, <1>9, <1>10, <1>11, <1>12,
     <1>13, <1>14 DEF Step

LEMMA NextCounted == PoolInv /\ [Next]_vars => Counted'
<1> SUFFICES ASSUME PoolInv, [Next]_vars PROVE Counted'
  OBVIOUS
\* Whatever leaves pc alone leaves the sets behind the counters alone.
<1>s. ASSUME UNCHANGED <<idle, active, connecting, reserved, pc>> PROVE Counted'
  BY <1>s, MoveNone DEF PoolInv, Counted, ConnectionAccounting, ConnectionCap,
     ReservationsBacked, ConnectingNotOvercounted
<1>1. ASSUME NEW c \in Coroutines, Step(c) PROVE Counted'
  BY <1>1, StepCounted
<1>2. ASSUME NEW c \in Coroutines, TimerFires(c) PROVE Counted'
  BY <1>2, <1>s DEF TimerFires
<1>3. ASSUME NEW c \in Coroutines, CancelEmit(c) PROVE Counted'
  BY <1>3, <1>s DEF CancelEmit
<1>4. ASSUME NEW c \in Coroutines, CancelOnShard(c) PROVE Counted'
  BY <1>4, <1>s DEF CancelOnShard
<1>n. /\ Len(idle) \in Nat /\ active \in Nat /\ connecting \in Nat /\ reserved \in Nat
      /\ Cardinality(Holding) \in Nat /\ Cardinality(Connecting) \in Nat
      /\ active = Len(idle) + Cardinality(Holding)
      /\ Len(idle) + Cardinality(Holding) <= MaxConnections
  BY Numbers DEF PoolInv, Counted, ConnectionAccounting, ConnectionCap
<1>5. CASE ResetConnections
  <2>1. /\ active' = IF Len(idle) > active THEN 0 ELSE active - Len(idle)
        /\ idle' = <<>> /\ connecting' = 0 /\ reserved' = 0 /\ UNCHANGED pc
    BY <1>5 DEF ResetConnections
  <2>2. Holding' = Holding /\ Connecting' = Connecting /\ Len(idle') = 0
    BY <2>1, MoveNone, EmptySeq
  <2> QED
    BY <1>n, <2>1, <2>2, LimitTypes DEF Counted, ConnectionAccounting, ConnectionCap,
       ReservationsBacked, ConnectingNotOvercounted
<1>6. CASE Evict
  <2>1. /\ active = Len(idle) /\ active' = 0
        /\ idle' = <<>> /\ connecting' = 0 /\ reserved' = 0 /\ UNCHANGED pc
    BY <1>6 DEF Evict, PoolIdle
  <2>2. Holding' = Holding /\ Connecting' = Connecting /\ Len(idle') = 0
    BY <2>1, MoveNone, EmptySeq
  <2> QED
    BY <1>n, <2>1, <2>2, LimitTypes DEF Counted, ConnectionAccounting, ConnectionCap,
       ReservationsBacked, ConnectingNotOvercounted
<1>7. CASE Quiescent \/ UNCHANGED vars
  BY <1>7, <1>s DEF Quiescent, vars
<1> QED
  BY <1>1, <1>2, <1>3, <1>4, <1>5, <1>6, <1>7 DEF Next

LEMMA Invariance == Spec => []PoolInv
<1>1. Init => PoolInv
  <2> SUFFICES ASSUME Init PROVE PoolInv
    OBVIOUS
  <2>1. TypeOK
    BY InitType
  <2>2. Holding = {} /\ Connecting = {} /\ Len(idle) = 0
    BY EmptySeq DEF Init, Holding, Connecting
  <2>3. Cardinality(Holding) = 0 /\ Cardinality(Connecting) = 0
    BY <2>2, FS_EmptySet
  <2> QED
    BY <2>1, <2>2, <2>3, LimitTypes DEF Init, PoolInv, Counted, ConnectionAccounting,
       ConnectionCap, ReservationsBacked, ConnectingNotOvercounted
<1>2. PoolInv /\ [Next]_vars => PoolInv'
  BY NextType, NextCounted DEF PoolInv
<1> QED
  BY <1>1, <1>2, PTL DEF Spec

\* For every number of requests, probes and workers, every limit, and every
\* interleaving of failures, timeouts, cancellations, resets and an eviction,
\* active_* is the number of connections the pool answers for.
THEOREM AccountingHolds == Spec => []ConnectionAccounting
BY Invariance, PTL DEF PoolInv, Counted

\* max(1, max_connections_per_origin) bounds the connections of a pool.
THEOREM CapHolds == Spec => []ConnectionCap
BY Invariance, PTL DEF PoolInv, Counted

\* A reservation always has an idle connection behind it.
THEOREM ReservationsAreBacked == Spec => []ReservationsBacked
BY Invariance, PTL DEF PoolInv, Counted

\* connecting_* never counts a connect that is over, reset or not.
THEOREM ConnectingIsNotOvercounted == Spec => []ConnectingNotOvercounted
BY Invariance, PTL DEF PoolInv, Counted
-----------------------------------------------------------------------------
(* Without reset_connections the connects are counted exactly.              *)

ConnectsExact ==
  connecting = Cardinality(Connecting) /\ Cardinality(Connecting) <= MaxConnecting

\* A step that moves c and counts its connect.
LEMMA ConnectsStep ==
  ASSUME PoolInv, NEW c \in Coroutines, NEW v, pc' = [pc EXCEPT ![c] = v],
         connecting' = connecting + InConnecting(v) - InConnecting(pc[c]),
         ConnectsExact, connecting' <= MaxConnecting
  PROVE  ConnectsExact'
<1>1. Cardinality(Connecting') = Cardinality(Connecting) + InConnecting(v) - InConnecting(pc[c])
  BY MoveOne DEF PoolInv
<1> QED
  BY <1>1 DEF ConnectsExact

LEMMA AcquireConnects ==
  ASSUME PoolInv, ConnectsExact, NEW r \in Coroutines, NEW woke \in BOOLEAN,
         NEW hasRes \in BOOLEAN, Acquire(r, woke, hasRes), pc[r] \in {"start", "wait"}
  PROVE  ConnectsExact'
<1>f. connecting \in Nat /\ active \in Nat /\ connecting <= MaxConnecting /\ MaxConnecting \in Nat
  BY Facts, LimitTypes DEF ConnectsExact
<1>v. /\ InConnecting(pc[r]) = 0 /\ InConnecting("failed") = 0 /\ InConnecting("exchange") = 0
      /\ InConnecting("wait") = 0 /\ InConnecting("abandoned") = 0 /\ InConnecting("connect") = 1
  BY DEF InConnecting
<1>1. ASSUME NEW v, pc' = [pc EXCEPT ![r] = v], InConnecting(v) = 0, connecting' = connecting
      PROVE  ConnectsExact'
  <2>1. connecting' = connecting + InConnecting(v) - InConnecting(pc[r])
    BY <1>f, <1>v, <1>1
  <2> QED
    BY <1>1, <1>f, <2>1, ConnectsStep
<1>2. CASE TakeIdle(r, woke, hasRes)
  BY <1>1, <1>2, <1>v DEF TakeIdle
<1>3. CASE OpenConnection(r, woke, hasRes)
  <2>1. CASE Cancelled(r)
    BY <1>1, <1>3, <1>v, <2>1 DEF OpenConnection
  <2>2. CASE ~Cancelled(r)
    <3>1. pc' = [pc EXCEPT ![r] = "connect"] /\ connecting' = connecting + 1
      BY <1>3, <2>2 DEF OpenConnection
    <3>2. connecting < MaxConnecting
      BY <1>3, <1>f DEF OpenConnection, MayConnect, TlsMustWait, PlainMayConnect
    <3>3. /\ connecting' = connecting + InConnecting("connect") - InConnecting(pc[r])
          /\ connecting' <= MaxConnecting
      BY <1>f, <1>v, <3>1, <3>2
    <3> QED
      BY <3>1, <3>3, ConnectsStep
  <2> QED
    BY <2>1, <2>2
<1>4. CASE Enqueue(r, woke, hasRes)
  BY <1>1, <1>4, <1>v DEF Enqueue
<1> QED
  BY <1>2, <1>3, <1>4 DEF Acquire

LEMMA ProbeAcquireConnects ==
  ASSUME PoolInv, ConnectsExact, NEW p \in Coroutines, NEW hasRes \in BOOLEAN,
         ProbeAcquire(p, hasRes), pc[p] \in {"start", "wait"}
  PROVE  ConnectsExact'
<1>f. connecting \in Nat /\ connecting <= MaxConnecting /\ MaxConnecting \in Nat
  BY Facts, LimitTypes DEF ConnectsExact
<1>v. /\ InConnecting(pc[p]) = 0 /\ InConnecting("failed") = 0 /\ InConnecting("exchange") = 0
      /\ InConnecting("wait") = 0 /\ InConnecting("abandoned") = 0 /\ InConnecting("leaked") = 0
      /\ InConnecting("connect") = 1
  BY DEF InConnecting
<1>1. ASSUME NEW v, pc' = [pc EXCEPT ![p] = v], InConnecting(v) = 0, connecting' = connecting
      PROVE  ConnectsExact'
  <2>1. connecting' = connecting + InConnecting(v) - InConnecting(pc[p])
    BY <1>f, <1>v, <1>1
  <2> QED
    BY <1>1, <1>f, <2>1, ConnectsStep
<1>2. CASE ProbeEnqueue(p, hasRes)
  BY <1>1, <1>2, <1>v DEF ProbeEnqueue
<1>3. CASE ProbeTakeIdle(p, hasRes)
  BY <1>1, <1>3, <1>v DEF ProbeTakeIdle
<1>4. CASE ProbeOpenConnection(p, hasRes)
  <2>1. CASE Cancelled(p)
    BY <1>1, <1>4, <1>v, <2>1 DEF ProbeOpenConnection
  <2>2. CASE ~Cancelled(p)
    <3>1. pc' = [pc EXCEPT ![p] = "connect"] /\ connecting' = connecting + 1
      BY <1>4, <2>2 DEF ProbeOpenConnection
    <3>2. ~(connecting >= MaxConnecting)
      BY <1>4 DEF ProbeOpenConnection, ProbeMustWait
    <3>3. /\ connecting' = connecting + InConnecting("connect") - InConnecting(pc[p])
          /\ connecting' <= MaxConnecting
      BY <1>f, <1>v, <3>1, <3>2
    <3> QED
      BY <3>1, <3>3, ConnectsStep
  <2> QED
    BY <2>1, <2>2
<1> QED
  BY <1>2, <1>3, <1>4 DEF ProbeAcquire

LEMMA StepConnects ==
  ASSUME PoolInv, ConnectsExact, NEW c \in Coroutines, Step(c)
  PROVE  ConnectsExact'
<1>f. /\ connecting \in Nat /\ connecting <= MaxConnecting /\ MaxConnecting \in Nat
      /\ pc[c] = "connect" => connecting >= 1
  BY Facts, LimitTypes DEF ConnectsExact
<1>b. waiter[c].reservedIdle \in BOOLEAN
  BY DEF PoolInv, TypeOK, WaiterRecord
<1>v. /\ InConnecting("start") = 0 /\ InConnecting("wait") = 0 /\ InConnecting("failed") = 0
      /\ InConnecting("ok") = 0 /\ InConnecting("timeout") = 0
      /\ InConnecting("exchange") = 0 /\ InConnecting("leaked") = 0
      /\ InConnecting("connect") = 1
  BY DEF InConnecting
\* c neither connected nor connects.
<1>s. ASSUME NEW v, pc' = [pc EXCEPT ![c] = v], InConnecting(v) = 0,
             InConnecting(pc[c]) = 0, connecting' = connecting
      PROVE  ConnectsExact'
  <2>1. connecting' = connecting + InConnecting(v) - InConnecting(pc[c])
    BY <1>f, <1>s
  <2> QED
    BY <1>f, <1>s, <2>1, ConnectsStep
\* The connect of c is over.
<1>o. ASSUME NEW v, pc' = [pc EXCEPT ![c] = v], InConnecting(v) = 0,
             pc[c] = "connect", connecting' = Dec(connecting)
      PROVE  ConnectsExact'
  <2>1. /\ connecting' = connecting + InConnecting(v) - InConnecting(pc[c])
        /\ connecting' <= MaxConnecting
    BY <1>f, <1>v, <1>o DEF Dec
  <2> QED
    BY <1>o, <2>1, ConnectsStep
<1>1. CASE Start(c)
  <2>1. CASE Cancelled(c)
    BY <1>1, <1>s, <1>v, <2>1 DEF Start
  <2>2. CASE ~Cancelled(c)
    BY <1>1, <2>2, AcquireConnects DEF Start
  <2> QED
    BY <2>1, <2>2
<1>2. CASE ProbeStart(c)
  <2>1. CASE Cancelled(c)
    BY <1>2, <1>s, <1>v, <2>1 DEF ProbeStart
  <2>2. CASE ~Cancelled(c)
    BY <1>2, <2>2, ProbeAcquireConnects DEF ProbeStart
  <2> QED
    BY <2>1, <2>2
<1>3. CASE WorkerStart(c)
  <2> DEFINE go == WorkerMayLaunch(Len(idle), connecting) /\ launched < TargetCount
             v == IF go THEN "connect" ELSE "ok"
  <2>1. /\ pc[c] = "start" /\ pc' = [pc EXCEPT ![c] = v]
        /\ connecting' = IF go THEN connecting + 1 ELSE connecting
    BY <1>3 DEF WorkerStart, WorkerLoop
  <2>2. go => connecting < MaxConnecting
    BY DEF WorkerMayLaunch
  <2>3. InConnecting(v) = IF go THEN 1 ELSE 0
    BY <1>v
  <2> HIDE DEF go, v
  <2>4. /\ connecting' = connecting + InConnecting(v) - InConnecting(pc[c])
        /\ connecting' <= MaxConnecting
    BY <1>f, <1>v, <2>1, <2>2, <2>3
  <2> QED
    BY <2>1, <2>4, ConnectsStep
<1>4. CASE WaitCancelled(c)
  BY <1>4, <1>s, <1>v DEF WaitCancelled
<1>5. CASE WaitTimedOut(c)
  BY <1>5, <1>s, <1>v DEF WaitTimedOut
<1>6. CASE WaitWoken(c)
  BY <1>6, <1>b, AcquireConnects, ProbeAcquireConnects DEF WaitWoken
<1>7. CASE ConnectOk(c)
  BY <1>7, <1>o, <1>v DEF ConnectOk
<1>8. CASE ConnectFail(c)
  BY <1>8, <1>o, <1>v DEF ConnectFail
<1>9. CASE ProbeConnectOk(c)
  BY <1>9, <1>o, <1>v DEF ProbeConnectOk
<1>10. CASE ProbeFoundH2(c)
  BY <1>10, <1>o, <1>v DEF ProbeFoundH2
<1>11. CASE WorkerConnectOk(c)
  <2> DEFINE k == Dec(connecting)
             go == WorkerMayLaunch(Len(idle) + 1, k) /\ launched < TargetCount
             v == IF go THEN "connect" ELSE "ok"
  <2>1. /\ pc[c] = "connect" /\ pc' = [pc EXCEPT ![c] = v]
        /\ connecting' = IF go THEN k + 1 ELSE k
    BY <1>11 DEF WorkerConnectOk, WorkerLoop
  <2>2. k = connecting - 1
    BY <1>f, <2>1 DEF Dec
  <2>3. InConnecting(v) = IF go THEN 1 ELSE 0
    BY <1>v
  <2> HIDE DEF go, v, k
  <2>4. /\ connecting' = connecting + InConnecting(v) - InConnecting(pc[c])
        /\ connecting' <= MaxConnecting
    BY <1>f, <1>v, <2>1, <2>2, <2>3
  <2> QED
    BY <2>1, <2>4, ConnectsStep
<1>12. CASE ExchangeOk(c)
  BY <1>12, <1>s, <1>v DEF ExchangeOk
<1>13. CASE ExchangeError(c)
  BY <1>13, <1>s, <1>v DEF ExchangeError
<1>14. CASE ProbeExchangeThrows(c)
  BY <1>14, <1>s, <1>v DEF ProbeExchangeThrows
<1> QED
  BY <1>1, <1>2, <1>3, <1>4, <1>5, <1>6, <1>7, <1>8, <1>9, <1>10, <1>11, <1>12,
     <1>13, <1>14 DEF Step

LEMMA NextConnects ==
  ASSUME ~MayReset, PoolInv, ConnectsExact, [Next]_vars
  PROVE  ConnectsExact'
<1>s. ASSUME UNCHANGED <<connecting, pc>> PROVE ConnectsExact'
  BY <1>s, MoveNone DEF ConnectsExact
<1>1. ASSUME NEW c \in Coroutines, Step(c) PROVE ConnectsExact'
  BY <1>1, StepConnects
<1>2. ASSUME NEW c \in Coroutines, TimerFires(c) \/ CancelEmit(c) \/ CancelOnShard(c)
      PROVE  ConnectsExact'
  BY <1>2, <1>s DEF TimerFires, CancelEmit, CancelOnShard
\* An idle pool has no connect in flight, so eviction may zero the counter.
<1>3. CASE Evict
  <2>1. active = Len(idle) /\ connecting' = 0 /\ UNCHANGED pc
    BY <1>3 DEF Evict, PoolIdle
  <2>2. Cardinality(Holding) = 0
    BY <2>1, Numbers DEF PoolInv, Counted, ConnectionAccounting
  <2>3. Connecting = {}
    BY <2>2, HoldingFinite, FS_EmptySet DEF Holding, Connecting
  <2>4. Cardinality(Connecting') = 0
    BY <2>1, <2>3, MoveNone, FS_EmptySet
  <2> QED
    BY <2>1, <2>4, LimitTypes DEF ConnectsExact
<1>4. CASE Quiescent \/ UNCHANGED vars
  BY <1>4, <1>s DEF Quiescent, vars
<1>5. ~ResetConnections
  BY DEF ResetConnections
<1> QED
  BY <1>1, <1>2, <1>3, <1>4, <1>5 DEF Next

\* Unless reset_connections zeroes it, connecting_* is the number of connects
\* in flight, and there are at most max(1, max_connecting_per_origin) of them:
\* timeouts, cancellations and an eviction at any moment included.
THEOREM ConnectsAreExact ==
  ASSUME ~MayReset
  PROVE  Spec => []ConnectsExact
<1>1. Init => ConnectsExact
  <2> SUFFICES ASSUME Init PROVE ConnectsExact
    OBVIOUS
  <2>1. Connecting = {}
    BY DEF Init, Connecting
  <2> QED
    BY <2>1, FS_EmptySet, LimitTypes DEF Init, ConnectsExact
<1>2. PoolInv /\ ConnectsExact /\ [Next]_vars => ConnectsExact'
  BY NextConnects
<1> QED
  BY <1>1, <1>2, Invariance, PTL DEF Spec

-----------------------------------------------------------------------------
(* A pool that nobody disturbs: no pool timeout expires, no caller cancels, *)
(* and it is neither reset nor evicted.  Each of these breaks the exactness *)
(* of the reservations, or may leave a waiter behind.                       *)

Undisturbed == Timed = {} /\ Cancellable = {} /\ ~MayReset /\ ~MayEvict

\* A Waiter that was woken, with or without a reservation.
Woken(reserve) ==
  [woken |-> TRUE, cancelled |-> FALSE, reservedIdle |-> reserve, timer |-> "aborted"]

\* Who is in the queue waits, has not been woken, and is in it once.
InLine(q, w, p) ==
  /\ \A n \in 1..Len(q) : p[q[n]] = "wait" /\ w[q[n]] = FreshWaiter
  /\ \A m \in 1..Len(q), n \in 1..Len(q) : q[m] = q[n] => m = n

\* A timer is aborted only together with a wake-up.
Settled(w, p) ==
  \A c \in Coroutines : p[c] = "wait" => w[c] \in {FreshWaiter, Woken(TRUE), Woken(FALSE)}

Reserving(w, p) == {c \in Coroutines : p[c] = "wait" /\ w[c] = Woken(TRUE)}

\* Somebody will release a connection, has leaked one, or is about to resume.
Attended(w, p) ==
  \E c \in Coroutines :
    \/ p[c] \in {"connect", "exchange", "leaked"}
    \/ p[c] = "wait" /\ w[c] \in {Woken(TRUE), Woken(FALSE)}

\* A queue, the Waiters, the places of the coroutines and a number of
\* reservations that agree.
Books(q, w, p, n) ==
  /\ q \in Seq(Coroutines)
  /\ w \in [Coroutines -> WaiterRecord]
  /\ p \in [Coroutines -> Suspended \cup Ended]
  /\ InLine(q, w, p)
  /\ Settled(w, p)
  /\ n = Cardinality(Reserving(w, p))

Calm ==
  /\ \A c \in Coroutines : cancel[c] = "no"
  /\ \A c \in Coroutines : pc[c] = "leaked" => c \in Probes
  /\ Books(queue, waiter, pc, reserved)
  /\ queue # <<>> => Attended(waiter, pc)

LEMMA WokenTypes ==
  /\ Woken(TRUE) \in WaiterRecord /\ Woken(FALSE) \in WaiterRecord
  /\ Woken(TRUE) # Woken(FALSE)
  /\ FreshWaiter # Woken(TRUE) /\ FreshWaiter # Woken(FALSE)
  /\ ~FreshWaiter.cancelled /\ ~FreshWaiter.woken /\ FreshWaiter.timer = "pending"
  /\ ~FreshWaiter.reservedIdle
  /\ Woken(TRUE).woken /\ Woken(FALSE).woken
  /\ Woken(TRUE).reservedIdle /\ ~Woken(FALSE).reservedIdle
  /\ Woken(TRUE).timer = "aborted" /\ Woken(FALSE).timer = "aborted"
BY DEF Woken, WaiterRecord, FreshWaiter

LEMMA WakeFresh ==
  ASSUME NEW reserve \in BOOLEAN
  PROVE  WakeWaiter(FreshWaiter, reserve) = Woken(reserve)
<1>1. AbortTimer(FreshWaiter.timer) = "aborted"
  BY DEF AbortTimer, FreshWaiter
<1>2. (FreshWaiter.reservedIdle \/ TRUE) = TRUE /\ (FreshWaiter.reservedIdle \/ FALSE) = FALSE
  BY DEF FreshWaiter
<1>3. CASE reserve = TRUE
  <2>1. WakeWaiter(FreshWaiter, TRUE)
          = [FreshWaiter EXCEPT !.woken = TRUE, !.reservedIdle = TRUE, !.timer = "aborted"]
    BY <1>1, <1>2, Zenon DEF WakeWaiter
  <2> QED
    BY <1>3, <2>1 DEF FreshWaiter, Woken
<1>4. CASE reserve = FALSE
  <2>1. WakeWaiter(FreshWaiter, FALSE)
          = [FreshWaiter EXCEPT !.woken = TRUE, !.reservedIdle = FALSE, !.timer = "aborted"]
    BY <1>1, <1>2, Zenon DEF WakeWaiter
  <2> QED
    BY <1>4, <2>1 DEF FreshWaiter, Woken
<1> QED
  BY <1>3, <1>4

LEMMA ReservingFinite ==
  ASSUME NEW w, NEW p
  PROVE  IsFiniteSet(Reserving(w, p)) /\ Cardinality(Reserving(w, p)) \in Nat
BY CoroutinesFinite, FS_Subset, FS_CardinalityType DEF Reserving

\* A coroutine outside the queue goes somewhere else than to wait.
LEMMA BooksLeave ==
  ASSUME NEW q, NEW w, NEW p, NEW n, Books(q, w, p, n),
         NEW c \in Coroutines, \A m \in 1..Len(q) : q[m] # c,
         NEW v \in Suspended \cup Ended, v # "wait",
         NEW w2 \in [Coroutines -> WaiterRecord], \A d \in Coroutines \ {c} : w2[d] = w[d]
  PROVE  Books(q, w2, [p EXCEPT ![c] = v], IF c \in Reserving(w, p) THEN n - 1 ELSE n)
<1> DEFINE p2 == [p EXCEPT ![c] = v]
<1>1. /\ q \in Seq(Coroutines) /\ p \in [Coroutines -> Suspended \cup Ended]
      /\ InLine(q, w, p) /\ Settled(w, p) /\ n = Cardinality(Reserving(w, p))
  BY DEF Books
<1>2. p2 \in [Coroutines -> Suspended \cup Ended]
  BY <1>1
<1>3. p2[c] = v /\ \A d \in Coroutines \ {c} : p2[d] = p[d]
  BY <1>1
<1> HIDE DEF p2
<1>4. InLine(q, w2, p2)
  <2>1. \A m \in 1..Len(q) : q[m] \in Coroutines \ {c}
    BY <1>1
  <2> QED
    BY <1>1, <1>3, <2>1 DEF InLine
<1>5. Settled(w2, p2)
  BY <1>1, <1>3 DEF Settled
<1>6. Reserving(w2, p2) = Reserving(w, p) \ {c}
  BY <1>3 DEF Reserving
<1>7. Cardinality(Reserving(w2, p2)) = IF c \in Reserving(w, p) THEN n - 1 ELSE n
  BY <1>1, <1>6, ReservingFinite, FS_RemoveElement
<1> QED
  BY <1>1, <1>2, <1>4, <1>5, <1>7 DEF Books, p2

\* A coroutine outside the queue queues a new Waiter.
LEMMA BooksJoin ==
  ASSUME NEW q, NEW w, NEW p, NEW n, Books(q, w, p, n),
         NEW c \in Coroutines, \A m \in 1..Len(q) : q[m] # c
  PROVE  Books(Append(q, c), [w EXCEPT ![c] = FreshWaiter], [p EXCEPT ![c] = "wait"],
               IF c \in Reserving(w, p) THEN n - 1 ELSE n)
<1> DEFINE p2 == [p EXCEPT ![c] = "wait"]
           w2 == [w EXCEPT ![c] = FreshWaiter]
           q2 == Append(q, c)
<1>1. /\ q \in Seq(Coroutines) /\ p \in [Coroutines -> Suspended \cup Ended]
      /\ w \in [Coroutines -> WaiterRecord]
      /\ InLine(q, w, p) /\ Settled(w, p) /\ n = Cardinality(Reserving(w, p))
  BY DEF Books
<1>2. p2 \in [Coroutines -> Suspended \cup Ended] /\ w2 \in [Coroutines -> WaiterRecord]
  BY <1>1, FreshWaiterType DEF Suspended
<1>3. /\ p2[c] = "wait" /\ \A d \in Coroutines \ {c} : p2[d] = p[d]
      /\ w2[c] = FreshWaiter /\ \A d \in Coroutines \ {c} : w2[d] = w[d]
  BY <1>1
<1>4. /\ q2 \in Seq(Coroutines) /\ Len(q2) = Len(q) + 1 /\ q2[Len(q) + 1] = c
      /\ Len(q) \in Nat /\ \A m \in 1..Len(q) : q2[m] = q[m] /\ q[m] \in Coroutines \ {c}
  BY <1>1
<1> HIDE DEF p2, w2, q2
<1>5. InLine(q2, w2, p2)
  <2>1. \A m \in 1..Len(q2) : m \in 1..Len(q) \/ m = Len(q) + 1
    BY <1>4
  <2>2. \A m \in 1..Len(q2) : p2[q2[m]] = "wait" /\ w2[q2[m]] = FreshWaiter
    BY <1>1, <1>3, <1>4, <2>1 DEF InLine
  <2>3. \A k \in 1..Len(q2), m \in 1..Len(q2) : q2[k] = q2[m] => k = m
    BY <1>1, <1>4, <2>1 DEF InLine
  <2> QED
    BY <2>2, <2>3 DEF InLine
<1>6. Settled(w2, p2)
  BY <1>1, <1>3 DEF Settled
<1>7. Reserving(w2, p2) = Reserving(w, p) \ {c}
  BY <1>3, WokenTypes DEF Reserving
<1>8. Cardinality(Reserving(w2, p2)) = IF c \in Reserving(w, p) THEN n - 1 ELSE n
  BY <1>1, <1>7, ReservingFinite, FS_RemoveElement
<1> QED
  BY <1>2, <1>4, <1>5, <1>6, <1>8 DEF Books, p2, w2, q2

\* wake_one wakes the front of the queue, with or without a reservation.
LEMMA BooksWake ==
  ASSUME NEW q, NEW w, NEW p, NEW n, Books(q, w, p, n), NEW reserve \in BOOLEAN
  PROVE  /\ Books(PopWoken(q, w), Wake(q, w, reserve), p,
                  IF reserve /\ FirstLive(q, w) # {} THEN n + 1 ELSE n)
         /\ q = <<>> => PopWoken(q, w) = <<>>
         /\ q # <<>> => Attended(Wake(q, w, reserve), p)
         /\ Attended(w, p) => Attended(Wake(q, w, reserve), p)
<1>1. /\ q \in Seq(Coroutines) /\ p \in [Coroutines -> Suspended \cup Ended]
      /\ w \in [Coroutines -> WaiterRecord]
      /\ InLine(q, w, p) /\ Settled(w, p) /\ n = Cardinality(Reserving(w, p))
  BY DEF Books
<1>2. CASE q = <<>>
  <2>1. FirstLive(q, w) = {}
    BY <1>2 DEF FirstLive
  <2>2. PopWoken(q, w) = q /\ Wake(q, w, reserve) = w
    BY <1>2, <2>1 DEF PopWoken, Wake
  <2> QED
    BY <1>2, <2>1, <2>2
<1>3. CASE q # <<>>
  <2> DEFINE c == q[1]
             w2 == Wake(q, w, reserve)
             q2 == PopWoken(q, w)
  <2>1. Len(q) \in Nat /\ Len(q) >= 1 /\ 1 \in 1..Len(q) /\ c \in Coroutines
    BY <1>1, <1>3
  <2>2. p[c] = "wait" /\ w[c] = FreshWaiter
    BY <1>1, <2>1 DEF InLine
  <2>3. FirstLive(q, w) = {1}
    <3>1. 1 \in FirstLive(q, w)
      BY <2>1, <2>2, WokenTypes DEF FirstLive
    <3>2. ASSUME NEW i \in FirstLive(q, w), i # 1 PROVE FALSE
      <4>1. i \in 1..Len(q) /\ \A j \in 1..(i - 1) : w[q[j]].cancelled
        BY DEF FirstLive
      <4>2. 1 \in 1..(i - 1)
        BY <2>1, <3>2, <4>1
      <4> QED
        BY <2>2, <4>1, <4>2, WokenTypes
    <3> QED
      BY <3>1, <3>2
  <2>4. (CHOOSE i \in FirstLive(q, w) : TRUE) = 1
    BY <2>3
  <2>5. WakeWaiter(FreshWaiter, reserve) = Woken(reserve)
    BY WakeFresh
  <2>6. w2 = [w EXCEPT ![c] = Woken(reserve)]
    BY <2>2, <2>3, <2>4, <2>5 DEF Wake
  <2>7. q2 = SubSeq(q, 2, Len(q))
    BY <2>3, <2>4 DEF PopWoken
  <2>8. /\ q2 \in Seq(Coroutines) /\ Len(q2) = Len(q) - 1
        /\ \A m \in 1..Len(q2) : m + 1 \in 1..Len(q) /\ q2[m] = q[m + 1]
    <3> HIDE DEF q2
    <3>1. \A i \in 2..Len(q) : q[i] \in Coroutines
      BY <1>1
    <3>2. /\ SubSeq(q, 2, Len(q)) \in Seq(Coroutines)
          /\ Len(SubSeq(q, 2, Len(q))) = IF 2 <= Len(q) THEN Len(q) - 2 + 1 ELSE 0
          /\ \A i \in 1..(Len(q) - 2 + 1) : SubSeq(q, 2, Len(q))[i] = q[2 + i - 1]
      BY <2>1, <3>1, SubSeqProperties
    <3>3. (IF 2 <= Len(q) THEN Len(q) - 2 + 1 ELSE 0) = Len(q) - 1
      BY <2>1
    <3>4. /\ q2 \in Seq(Coroutines) /\ Len(q2) = Len(q) - 1
          /\ \A i \in 1..(Len(q) - 2 + 1) : q2[i] = q[2 + i - 1]
      BY <2>7, <3>2, <3>3
    <3>5. \A m \in 1..(Len(q) - 1) : m + 1 \in 1..Len(q) /\ q2[m] = q[m + 1]
      BY <2>1, <3>4
    <3> QED
      BY <3>4, <3>5
  <2>9. w2 \in [Coroutines -> WaiterRecord]
    BY <1>1, <2>1, <2>6, WokenTypes
  <2>10. w2[c] = Woken(reserve) /\ \A d \in Coroutines \ {c} : w2[d] = w[d]
    BY <1>1, <2>1, <2>6
  <2> HIDE DEF c, w2, q2
  <2>11. InLine(q2, w2, p)
    <3>1. \A m \in 1..Len(q2) : q2[m] \in Coroutines \ {c}
      <4>1. SUFFICES ASSUME NEW m \in 1..Len(q2), q2[m] = c PROVE FALSE
        BY <2>8
      <4>2. q[m + 1] = q[1] /\ m + 1 \in 1..Len(q) /\ m + 1 # 1
        BY <2>8, <4>1 DEF c
      <4> QED
        BY <1>1, <2>1, <4>2 DEF InLine
    <3>2. \A m \in 1..Len(q2) : p[q2[m]] = "wait" /\ w2[q2[m]] = FreshWaiter
      BY <1>1, <2>8, <2>10, <3>1 DEF InLine
    <3>3. ASSUME NEW k \in 1..Len(q2), NEW m \in 1..Len(q2), q2[k] = q2[m] PROVE k = m
      <4>1. k + 1 = m + 1
        BY <1>1, <2>8, <3>3 DEF InLine
      <4> QED
        BY <4>1
    <3> QED
      BY <3>2, <3>3 DEF InLine
  <2>12. Settled(w2, p)
    BY <1>1, <2>10 DEF Settled
  <2>13. Attended(w2, p)
    BY <2>1, <2>2, <2>10 DEF Attended
  <2>14. Cardinality(Reserving(w2, p)) = IF reserve THEN n + 1 ELSE n
    <3>1. c \notin Reserving(w, p)
      BY <2>2, WokenTypes DEF Reserving
    <3>2. Reserving(w2, p) = IF reserve THEN Reserving(w, p) \cup {c} ELSE Reserving(w, p)
      BY <2>1, <2>2, <2>10, <3>1, WokenTypes DEF Reserving
    <3> QED
      BY <1>1, <3>1, <3>2, ReservingFinite, FS_AddElement
  <2>15. Books(q2, w2, p, IF reserve /\ FirstLive(q, w) # {} THEN n + 1 ELSE n)
    BY <1>1, <2>3, <2>8, <2>9, <2>11, <2>12, <2>14 DEF Books
  <2> QED
    BY <1>3, <2>13, <2>15 DEF w2, q2
<1> QED
  BY <1>2, <1>3

\* What is left to show of a step that moves c.
LEMMA CalmStep ==
  ASSUME Calm, PoolInv, NEW c \in Coroutines, NEW v, pc' = [pc EXCEPT ![c] = v], UNCHANGED cancel,
         v = "leaked" => c \in Probes,
         Books(queue', waiter', pc', reserved'),
         queue' # <<>> => Attended(waiter', pc')
  PROVE  Calm'
<1>1. \A d \in Coroutines : pc'[d] = "leaked" => d \in Probes
  BY DEF Calm, PoolInv, TypeOK
<1> QED
  BY <1>1 DEF Calm

\* Who is not waiting, or has been woken, is not in the queue.
LEMMA Outside ==
  ASSUME Calm, NEW c \in Coroutines,
         pc[c] # "wait" \/ waiter[c] # FreshWaiter
  PROVE  \A m \in 1..Len(queue) : queue[m] # c
BY DEF Calm, Books, InLine

\* Somebody other than r keeps an eye on the queue.
OthersAttend(r) ==
  \E c \in Coroutines \ {r} :
    \/ pc[c] \in {"connect", "exchange", "leaked"}
    \/ pc[c] = "wait" /\ waiter[c] \in {Woken(TRUE), Woken(FALSE)}

LEMMA StillAttended ==
  ASSUME TypeOK, NEW r \in Coroutines, OthersAttend(r), NEW v, pc' = [pc EXCEPT ![r] = v],
         \A d \in Coroutines \ {r} : waiter'[d] = waiter[d]
  PROVE  Attended(waiter', pc')
<1>1. PICK c \in Coroutines \ {r} :
        \/ pc[c] \in {"connect", "exchange", "leaked"}
        \/ pc[c] = "wait" /\ waiter[c] \in {Woken(TRUE), Woken(FALSE)}
  BY DEF OthersAttend
<1>2. pc'[c] = pc[c] /\ waiter'[c] = waiter[c]
  BY DEF TypeOK
<1> QED
  BY <1>1, <1>2 DEF Attended

\* The three ways for somebody else to attend the queue.
LEMMA SomebodyAttends ==
  ASSUME PoolInv, Calm, NEW r \in Coroutines, pc[r] \in {"start", "wait"},
         \/ Cardinality(Holding) >= 1
         \/ reserved > 0 /\ r \notin Reserving(waiter, pc)
         \/ pc[r] = "start" /\ queue # <<>>
  PROVE  OthersAttend(r)
<1>1. CASE Cardinality(Holding) >= 1
  <2>1. PICK c : c \in Holding
    BY <1>1, FS_EmptySet
  <2>2. c \in Coroutines \ {r} /\ pc[c] \in {"connect", "exchange", "leaked"}
    BY <2>1 DEF Holding
  <2> QED
    BY <2>2 DEF OthersAttend
<1>2. CASE reserved > 0 /\ r \notin Reserving(waiter, pc)
  <2>1. Cardinality(Reserving(waiter, pc)) > 0
    BY <1>2 DEF Calm, Books
  <2>2. PICK c : c \in Reserving(waiter, pc)
    BY <2>1, FS_EmptySet
  <2> QED
    BY <1>2, <2>2 DEF OthersAttend, Reserving
<1>3. CASE pc[r] = "start" /\ queue # <<>>
  BY <1>3 DEF Calm, Attended, OthersAttend
<1> QED
  BY <1>1, <1>2, <1>3

\* A coroutine that comes to the pool, or comes back to it after a wake-up.
Comes(r, woke, hasRes) ==
  /\ pc[r] \in {"start", "wait"}
  /\ woke <=> pc[r] = "wait"
  /\ hasRes <=> r \in Reserving(waiter, pc)
  /\ \A m \in 1..Len(queue) : queue[m] # r

LEMMA ComesNumbers ==
  ASSUME PoolInv, Calm, NEW r \in Coroutines, NEW woke \in BOOLEAN, NEW hasRes \in BOOLEAN,
         Comes(r, woke, hasRes)
  PROVE  /\ ~Cancelled(r)
         /\ hasRes => reserved >= 1 /\ idle # <<>>
         /\ reserved \in Nat
         /\ (IF hasRes THEN Dec(reserved) ELSE reserved)
              = IF r \in Reserving(waiter, pc) THEN reserved - 1 ELSE reserved
         /\ \A d \in Coroutines \ {r} : [waiter EXCEPT ![r] = FreshWaiter][d] = waiter[d]
         /\ [waiter EXCEPT ![r] = FreshWaiter] \in [Coroutines -> WaiterRecord]
<1>1. ~Cancelled(r)
  BY DEF Calm, Cancelled
<1>2. reserved \in Nat /\ reserved <= Len(idle) /\ TypeOK
  BY Facts
<1>3. hasRes => reserved >= 1
  <2>1. reserved = Cardinality(Reserving(waiter, pc))
    BY DEF Calm, Books
  <2> QED
    BY <1>2, <2>1, ReservingFinite, FS_EmptySet DEF Comes
<1>4. hasRes => idle # <<>>
  BY <1>2, <1>3, EmptySeq
<1>5. (IF hasRes THEN Dec(reserved) ELSE reserved)
        = IF r \in Reserving(waiter, pc) THEN reserved - 1 ELSE reserved
  BY <1>2, <1>3 DEF Comes, Dec
<1> QED
  BY <1>1, <1>2, <1>3, <1>4, <1>5, WaiterReset DEF TypeOK

LEMMA AcquireCalm ==
  ASSUME PoolInv, ConnectsExact, Calm, NEW r \in Coroutines, NEW woke \in BOOLEAN,
         NEW hasRes \in BOOLEAN, Comes(r, woke, hasRes), Acquire(r, woke, hasRes)
  PROVE  Calm'
<1> DEFINE fresh == [waiter EXCEPT ![r] = FreshWaiter]
           n == IF hasRes THEN Dec(reserved) ELSE reserved
<1>1. /\ ~Cancelled(r) /\ reserved \in Nat
      /\ hasRes => reserved >= 1 /\ idle # <<>>
      /\ n = IF r \in Reserving(waiter, pc) THEN reserved - 1 ELSE reserved
      /\ \A d \in Coroutines \ {r} : fresh[d] = waiter[d]
      /\ fresh \in [Coroutines -> WaiterRecord]
  BY ComesNumbers
<1>2. Books(queue, waiter, pc, reserved) /\ \A m \in 1..Len(queue) : queue[m] # r
  BY DEF Calm, Comes
<1>3. ReservedAfterMiss(hasRes) = reserved /\ (hasRes => MayTakeIdle(woke, hasRes))
  BY <1>1 DEF ReservedAfterMiss, MayTakeIdle
<1>t. TypeOK
  BY DEF PoolInv
<1>l. "exchange" \in Suspended /\ "connect" \in Suspended
  BY DEF Suspended
<1> HIDE DEF fresh, n
\* The places to which r goes with a connection.
<1>a. ASSUME NEW v \in {"exchange", "connect"}, pc' = [pc EXCEPT ![r] = v],
             UNCHANGED <<queue, cancel>>, waiter' = fresh, reserved' = n
      PROVE  Calm'
  <2>1. Books(queue, fresh, [pc EXCEPT ![r] = v], n)
    BY <1>1, <1>2, <1>a, <1>l, BooksLeave
  <2>2. Books(queue', waiter', pc', reserved')
    BY <1>a, <2>1
  <2>3. Attended(waiter', pc')
    BY <1>a, <1>t DEF Attended, TypeOK
  <2>4. v # "leaked"
    BY <1>a
  <2> QED
    BY <1>a, <2>2, <2>3, <2>4, CalmStep
<1>4. CASE TakeIdle(r, woke, hasRes)
  BY <1>1, <1>4, <1>a DEF TakeIdle, PopIdle, fresh, n
<1>5. CASE OpenConnection(r, woke, hasRes)
  <2>1. ~hasRes
    BY <1>3, <1>5 DEF OpenConnection
  <2> QED
    BY <1>1, <1>3, <1>5, <1>a, <2>1 DEF OpenConnection, fresh, n
<1>6. CASE Enqueue(r, woke, hasRes)
  <2>1. ~hasRes /\ ~MayTakeIdle(woke, hasRes) /\ ~MayConnect(woke, reserved)
    BY <1>3, <1>6 DEF Enqueue
  <2>2. /\ queue' = Append(queue, r) /\ waiter' = fresh /\ reserved' = reserved
        /\ pc' = [pc EXCEPT ![r] = "wait"] /\ UNCHANGED cancel
    BY <1>1, <1>3, <1>6 DEF Enqueue, fresh
  <2>3. r \notin Reserving(waiter, pc)
    BY <2>1 DEF Comes
  <2>4. Books(queue', waiter', pc', reserved')
    BY <1>2, <2>2, <2>3, BooksJoin DEF fresh
  <2>5. OthersAttend(r)
    <3>f. /\ active \in Nat /\ connecting \in Nat /\ Len(idle) \in Nat
          /\ Cardinality(Holding) \in Nat /\ Cardinality(Connecting) \in Nat
          /\ active = Len(idle) + Cardinality(Holding)
          /\ connecting = Cardinality(Connecting)
          /\ MaxConnections \in Nat /\ MaxConnections >= 1
          /\ MaxConnecting \in Nat /\ MaxConnecting >= 1
      BY Facts, LimitTypes DEF ConnectsExact
    <3>p. pc[r] \in {"start", "wait"} /\ (~woke => pc[r] = "start")
      BY DEF Comes
    <3>1. \/ active >= MaxConnections
          \/ connecting >= MaxConnecting
          \/ ~woke /\ (reserved > 0 \/ queue # <<>>)
      BY <1>1, <2>1, <3>f DEF MayConnect, TlsMustWait, PlainMayConnect
    <3>2. CASE active >= MaxConnections
      <4>1. CASE Cardinality(Holding) >= 1
        BY <3>p, <4>1, SomebodyAttends
      <4>2. CASE Cardinality(Holding) = 0
        <5>1. idle # <<>>
          BY <3>2, <3>f, <4>2, EmptySeq
        <5>2. ~(reserved = 0 /\ (woke \/ queue = <<>>))
          BY <2>1, <5>1 DEF MayTakeIdle
        <5>3. reserved > 0 \/ (pc[r] = "start" /\ queue # <<>>)
          BY <1>1, <3>p, <5>2
        <5> QED
          BY <2>3, <3>p, <5>3, SomebodyAttends
      <4> QED
        BY <3>f, <4>1, <4>2
    <3>3. CASE connecting >= MaxConnecting
      <4>0. Cardinality(Connecting) # 0
        BY <3>3, <3>f
      <4>1. PICK c : c \in Connecting
        BY <4>0, FS_EmptySet
      <4>2. c \in Holding
        BY <4>1 DEF Holding, Connecting
      <4>3. Cardinality(Holding) >= 1
        BY <3>f, <4>2, HoldingFinite, FS_EmptySet
      <4> QED
        BY <3>p, <4>3, SomebodyAttends
    <3>4. CASE ~woke /\ (reserved > 0 \/ queue # <<>>)
      BY <2>3, <3>4, <3>p, SomebodyAttends
    <3> QED
      BY <3>1, <3>2, <3>3, <3>4
  <2>6. \A d \in Coroutines \ {r} : waiter'[d] = waiter[d]
    BY <1>1, <2>2
  <2>7. Attended(waiter', pc')
    BY <1>t, <2>2, <2>5, <2>6, StillAttended
  <2> QED
    BY <2>2, <2>4, <2>7, CalmStep
<1> QED
  BY <1>4, <1>5, <1>6 DEF Acquire

LEMMA ProbeAcquireCalm ==
  ASSUME PoolInv, ConnectsExact, Calm, NEW p \in Coroutines, NEW woke \in BOOLEAN,
         NEW hasRes \in BOOLEAN, Comes(p, woke, hasRes), ProbeAcquire(p, hasRes)
  PROVE  Calm'
<1> DEFINE fresh == [waiter EXCEPT ![p] = FreshWaiter]
           n == IF hasRes THEN Dec(reserved) ELSE reserved
<1>1. /\ ~Cancelled(p) /\ reserved \in Nat
      /\ hasRes => reserved >= 1 /\ idle # <<>>
      /\ n = IF p \in Reserving(waiter, pc) THEN reserved - 1 ELSE reserved
      /\ \A d \in Coroutines \ {p} : fresh[d] = waiter[d]
      /\ fresh \in [Coroutines -> WaiterRecord]
  BY ComesNumbers
<1>2. Books(queue, waiter, pc, reserved) /\ \A m \in 1..Len(queue) : queue[m] # p
  BY DEF Calm, Comes
<1>t. TypeOK
  BY DEF PoolInv
<1>l. "exchange" \in Suspended /\ "connect" \in Suspended
  BY DEF Suspended
<1> HIDE DEF fresh, n
<1>a. ASSUME NEW v \in {"exchange", "connect"}, pc' = [pc EXCEPT ![p] = v],
             UNCHANGED <<queue, cancel>>, waiter' = fresh, reserved' = n
      PROVE  Calm'
  <2>1. Books(queue, fresh, [pc EXCEPT ![p] = v], n)
    BY <1>1, <1>2, <1>a, <1>l, BooksLeave
  <2>2. Books(queue', waiter', pc', reserved')
    BY <1>a, <2>1
  <2>3. Attended(waiter', pc')
    BY <1>a, <1>t DEF Attended, TypeOK
  <2>4. v # "leaked"
    BY <1>a
  <2> QED
    BY <1>a, <2>2, <2>3, <2>4, CalmStep
<1>3. CASE ProbeTakeIdle(p, hasRes)
  BY <1>1, <1>3, <1>a DEF ProbeTakeIdle, PopIdle, fresh, n
<1>4. CASE ProbeOpenConnection(p, hasRes)
  <2>1. ~hasRes
    BY <1>1, <1>4 DEF ProbeOpenConnection
  <2> QED
    BY <1>1, <1>4, <1>a, <2>1 DEF ProbeOpenConnection, fresh, n
<1>5. CASE ProbeEnqueue(p, hasRes)
  <2>f. /\ active \in Nat /\ connecting \in Nat /\ Len(idle) \in Nat
        /\ Cardinality(Holding) \in Nat /\ Cardinality(Connecting) \in Nat
        /\ active = Len(idle) + Cardinality(Holding)
        /\ connecting = Cardinality(Connecting)
        /\ MaxConnections \in Nat /\ MaxConnections >= 1
        /\ MaxConnecting \in Nat /\ MaxConnecting >= 1
    BY Facts, LimitTypes DEF ConnectsExact
  <2>1. \/ active >= MaxConnections /\ idle = <<>>
        \/ connecting >= MaxConnecting /\ idle = <<>>
        \/ ~hasRes /\ reserved > 0
    BY <1>5 DEF ProbeEnqueue, ProbeMustWait
  <2>2. ~hasRes
    BY <1>1, <2>1
  <2>3. /\ queue' = Append(queue, p) /\ waiter' = fresh /\ reserved' = reserved
        /\ pc' = [pc EXCEPT ![p] = "wait"] /\ UNCHANGED cancel
    BY <1>1, <1>5 DEF ProbeEnqueue, fresh
  <2>4. p \notin Reserving(waiter, pc) /\ pc[p] \in {"start", "wait"}
    BY <2>2 DEF Comes
  <2>5. Books(queue', waiter', pc', reserved')
    BY <1>2, <2>3, <2>4, BooksJoin DEF fresh
  <2>6. OthersAttend(p)
    <3>1. CASE active >= MaxConnections /\ idle = <<>>
      <4>1. Cardinality(Holding) >= 1
        BY <2>f, <3>1, EmptySeq
      <4> QED
        BY <2>4, <4>1, SomebodyAttends
    <3>2. CASE connecting >= MaxConnecting
      <4>0. Cardinality(Connecting) # 0
        BY <3>2, <2>f
      <4>1. PICK c : c \in Connecting
        BY <4>0, FS_EmptySet
      <4>2. c \in Holding
        BY <4>1 DEF Holding, Connecting
      <4>3. Cardinality(Holding) >= 1
        BY <2>f, <4>2, HoldingFinite, FS_EmptySet
      <4> QED
        BY <2>4, <4>3, SomebodyAttends
    <3>3. CASE reserved > 0
      BY <2>4, <3>3, SomebodyAttends
    <3> QED
      BY <2>1, <3>1, <3>2, <3>3
  <2>7. \A d \in Coroutines \ {p} : waiter'[d] = waiter[d]
    BY <1>1, <2>3
  <2>8. Attended(waiter', pc')
    BY <1>t, <2>3, <2>6, <2>7, StillAttended
  <2> QED
    BY <2>3, <2>5, <2>8, CalmStep
<1> QED
  BY <1>3, <1>4, <1>5 DEF ProbeAcquire

\* Who releases a connection, or has made one, leaves and wakes one waiter.
LEMMA LeaveAndWake ==
  ASSUME Calm, NEW c \in Coroutines, pc[c] \in {"connect", "exchange"},
         NEW v \in Suspended \cup Ended, v # "wait", pc' = [pc EXCEPT ![c] = v],
         NEW reserve \in BOOLEAN,
         queue' = PopWoken(queue, waiter), waiter' = Wake(queue, waiter, reserve),
         reserved' = IF reserve /\ FirstLive(queue, waiter) # {} THEN reserved + 1 ELSE reserved
  PROVE  /\ Books(queue', waiter', pc', reserved')
         /\ queue' # <<>> => Attended(waiter', pc')
<1>1. Books(queue, waiter, pc, reserved) /\ waiter \in [Coroutines -> WaiterRecord]
  BY DEF Calm, Books
<1>2. c \notin Reserving(waiter, pc)
  BY DEF Reserving
<1>3. \A m \in 1..Len(queue) : queue[m] # c
  BY Outside
<1>4. Books(queue, waiter, pc', reserved)
  BY <1>1, <1>2, <1>3, BooksLeave
<1> QED
  BY <1>4, BooksWake

\* Leaving and waking two.
LEMMA LeaveAndWakeTwo ==
  ASSUME Calm, NEW c \in Coroutines, pc[c] \in {"connect", "exchange"},
         NEW v \in Suspended \cup Ended, v # "wait", pc' = [pc EXCEPT ![c] = v],
         WakeTwo(waiter), reserved' = reserved
  PROVE  /\ Books(queue', waiter', pc', reserved')
         /\ queue' # <<>> => Attended(waiter', pc')
<1> DEFINE q1 == PopWoken(queue, waiter)
           w1 == Wake(queue, waiter, FALSE)
<1>1. Books(queue, waiter, pc, reserved) /\ waiter \in [Coroutines -> WaiterRecord]
  BY DEF Calm, Books
<1>2. c \notin Reserving(waiter, pc)
  BY DEF Reserving
<1>3. \A m \in 1..Len(queue) : queue[m] # c
  BY Outside
<1>4. Books(queue, waiter, pc', reserved)
  BY <1>1, <1>2, <1>3, BooksLeave
<1>5. /\ Books(q1, w1, pc', reserved)
      /\ queue = <<>> => q1 = <<>>
      /\ queue # <<>> => Attended(w1, pc')
  BY <1>4, BooksWake
<1>6. queue' = PopWoken(q1, w1) /\ waiter' = Wake(q1, w1, FALSE)
  BY DEF WakeTwo
<1> HIDE DEF q1, w1
<1>7. /\ Books(queue', waiter', pc', reserved)
      /\ q1 = <<>> => queue' = <<>>
      /\ Attended(w1, pc') => Attended(waiter', pc')
  BY <1>5, <1>6, BooksWake
<1> QED
  BY <1>5, <1>7

LEMMA StepCalm ==
  ASSUME PoolInv, ConnectsExact, Calm, NEW c \in Coroutines, Step(c)
  PROVE  Calm'
<1>0. ~Cancelled(c) /\ TypeOK
  BY DEF Calm, Cancelled, PoolInv
<1>v. /\ "exchange" \in Suspended \cup Ended /\ "connect" \in Suspended \cup Ended
      /\ "failed" \in Suspended \cup Ended /\ "ok" \in Suspended \cup Ended
      /\ "leaked" \in Suspended \cup Ended
  BY DEF Suspended, Ended
<1>w. pc[c] = "wait" => waiter[c] \in {FreshWaiter, Woken(TRUE), Woken(FALSE)}
  BY DEF Calm, Books, Settled
<1>s. pc[c] = "start" => Comes(c, FALSE, FALSE)
  BY Outside DEF Comes, Reserving
\* c has had a connection and wakes one waiter.
<1>o. ASSUME pc[c] \in {"connect", "exchange"},
             NEW v \in Suspended \cup Ended, v # "wait", v # "leaked",
             pc' = [pc EXCEPT ![c] = v],
             WakeOne(waiter), UNCHANGED <<reserved, cancel>>
      PROVE  Calm'
  <2>1. /\ Books(queue', waiter', pc', reserved')
        /\ queue' # <<>> => Attended(waiter', pc')
    BY <1>o, LeaveAndWake DEF WakeOne
  <2> QED
    BY <1>o, <2>1, CalmStep
\* c puts a connection on the stack.
<1>r. ASSUME pc[c] \in {"connect", "exchange"}, NEW s,
             NEW v \in {"ok", "connect"}, pc' = [pc EXCEPT ![c] = v],
             ReturnToIdle(s), UNCHANGED cancel
      PROVE  Calm'
  <2>1. reserved' = IF TRUE /\ FirstLive(queue, waiter) # {} THEN reserved + 1 ELSE reserved
    BY <1>r DEF ReturnToIdle
  <2>2. /\ Books(queue', waiter', pc', reserved')
        /\ queue' # <<>> => Attended(waiter', pc')
    BY <1>r, <1>v, <2>1, LeaveAndWake DEF ReturnToIdle
  <2> QED
    BY <1>r, <2>2, CalmStep
\* c moves and nobody is woken.
<1>n. ASSUME pc[c] \in {"start", "exchange"}, NEW v \in Suspended \cup Ended, v # "wait",
             v = "leaked" => c \in Probes,
             pc' = [pc EXCEPT ![c] = v], UNCHANGED <<queue, waiter, reserved, cancel>>,
             pc[c] = "start" \/ v = "leaked"
      PROVE  Calm'
  <2>1. Books(queue, waiter, pc, reserved) /\ waiter \in [Coroutines -> WaiterRecord]
    BY DEF Calm, Books
  <2>2. c \notin Reserving(waiter, pc) /\ \A m \in 1..Len(queue) : queue[m] # c
    BY <1>n, Outside DEF Reserving
  <2>3. Books(queue', waiter', pc', reserved')
    BY <1>n, <2>1, <2>2, BooksLeave
  <2>4. queue' # <<>> => Attended(waiter', pc')
    <3>1. CASE v = "leaked"
      BY <1>0, <1>n, <3>1 DEF Attended, TypeOK
    <3>2. ASSUME pc[c] = "start", queue # <<>> PROVE Attended(waiter', pc')
      <4>1. OthersAttend(c)
        BY <3>2, SomebodyAttends
      <4> QED
        BY <1>0, <1>n, <4>1, StillAttended
    <3> QED
      BY <1>n, <3>1, <3>2
  <2> QED
    BY <1>n, <2>3, <2>4, CalmStep
<1>1. CASE Start(c)
  BY <1>0, <1>1, <1>s, AcquireCalm DEF Start
<1>2. CASE ProbeStart(c)
  BY <1>0, <1>2, <1>s, ProbeAcquireCalm DEF ProbeStart
<1>3. CASE WorkerStart(c)
  <2>1. PICK v \in {"connect", "ok"} : pc' = [pc EXCEPT ![c] = v]
    BY <1>3 DEF WorkerStart, WorkerLoop
  <2> QED
    BY <1>3, <1>n, <1>v, <2>1 DEF WorkerStart
<1>4. ~WaitCancelled(c)
  BY <1>w, WokenTypes DEF WaitCancelled
<1>5. ~WaitTimedOut(c)
  BY <1>w, WokenTypes DEF WaitTimedOut
<1>6. CASE WaitWoken(c)
  <2>1. pc[c] = "wait" /\ waiter[c].woken
    BY <1>6 DEF WaitWoken
  <2>2. waiter[c] \in {Woken(TRUE), Woken(FALSE)}
    BY <1>w, <2>1, WokenTypes
  <2>3. /\ waiter[c].reservedIdle \in BOOLEAN
        /\ waiter[c].reservedIdle <=> c \in Reserving(waiter, pc)
    <3>1. waiter[c].reservedIdle \in BOOLEAN
      BY <1>0 DEF TypeOK, WaiterRecord
    <3>2. waiter[c].reservedIdle <=> waiter[c] = Woken(TRUE)
      BY <2>2, WokenTypes
    <3> QED
      BY <2>1, <3>1, <3>2 DEF Reserving
  <2>4. Comes(c, TRUE, waiter[c].reservedIdle)
    BY <2>1, <2>2, <2>3, Outside, WokenTypes DEF Comes
  <2> QED
    BY <1>6, <2>3, <2>4, AcquireCalm, ProbeAcquireCalm DEF WaitWoken
<1>7. CASE ConnectOk(c)
  BY <1>0, <1>7, <1>o, <1>v DEF ConnectOk
<1>8. CASE ConnectFail(c)
  BY <1>8, <1>o, <1>v DEF ConnectFail
<1>9. CASE ProbeConnectOk(c)
  BY <1>0, <1>9, <1>o, <1>v DEF ProbeConnectOk
<1>10. CASE ProbeFoundH2(c)
  <2>1. /\ Books(queue', waiter', pc', reserved')
        /\ queue' # <<>> => Attended(waiter', pc')
    BY <1>10, <1>v, LeaveAndWakeTwo DEF ProbeFoundH2
  <2> QED
    BY <1>10, <2>1, CalmStep DEF ProbeFoundH2
<1>11. CASE WorkerConnectOk(c)
  <2>1. PICK v \in {"ok", "connect"} : pc' = [pc EXCEPT ![c] = v]
    BY <1>11 DEF WorkerConnectOk, WorkerLoop
  <2>2. pc[c] = "connect" /\ ReturnToIdle("open") /\ UNCHANGED cancel
    BY <1>11 DEF WorkerConnectOk
  <2> QED
    BY <1>r, <2>1, <2>2
<1>12. CASE ExchangeOk(c)
  BY <1>12, <1>r DEF ExchangeOk
<1>13. CASE ExchangeError(c)
  BY <1>13, <1>o, <1>v DEF ExchangeError
<1>14. CASE ProbeExchangeThrows(c)
  BY <1>14, <1>n, <1>v DEF ProbeExchangeThrows
<1> QED
  BY <1>1, <1>2, <1>3, <1>4, <1>5, <1>6, <1>7, <1>8, <1>9, <1>10, <1>11, <1>12,
     <1>13, <1>14 DEF Step

LEMMA NextCalm ==
  ASSUME Undisturbed, PoolInv, ConnectsExact, Calm, [Next]_vars
  PROVE  Calm'
<1>1. ASSUME NEW c \in Coroutines, Step(c) PROVE Calm'
  BY <1>1, StepCalm
<1>2. ASSUME NEW c \in Coroutines PROVE ~TimerFires(c) /\ ~CancelEmit(c) /\ ~CancelOnShard(c)
  BY <1>2 DEF Undisturbed, Calm, TimerFires, CancelEmit, CancelOnShard
<1>3. ~ResetConnections /\ ~Evict
  BY DEF Undisturbed, ResetConnections, Evict
<1>4. CASE Quiescent \/ UNCHANGED vars
  BY <1>4 DEF Quiescent, vars, Calm
<1> QED
  BY <1>1, <1>2, <1>3, <1>4 DEF Next

LEMMA CalmHolds ==
  ASSUME Undisturbed
  PROVE  Spec => [](PoolInv /\ ConnectsExact /\ Calm)
<1>1. Init => Calm
  <2> SUFFICES ASSUME Init PROVE Calm
    OBVIOUS
  <2>1. TypeOK
    BY InitType
  <2>2. queue = <<>> /\ Len(queue) = 0 /\ reserved = 0 /\ \A c \in Coroutines : pc[c] = "start"
    BY EmptySeq DEF Init
  <2>3. Reserving(waiter, pc) = {}
    BY <2>2 DEF Reserving
  <2>4. InLine(queue, waiter, pc) /\ Settled(waiter, pc)
    <3>1. 1..Len(queue) = {}
      BY <2>2
    <3>2. InLine(queue, waiter, pc)
      BY <3>1 DEF InLine
    <3>3. Settled(waiter, pc)
      BY <2>2 DEF Settled
    <3> QED
      BY <3>2, <3>3
  <2>5. Books(queue, waiter, pc, reserved)
    BY <2>1, <2>2, <2>3, <2>4, FS_EmptySet DEF Books, TypeOK
  <2> QED
    BY <2>2, <2>5 DEF Calm, Init
<1>2. PoolInv /\ ConnectsExact /\ Calm /\ [Next]_vars => Calm'
  BY NextCalm
<1>3. Spec => []ConnectsExact
  BY ConnectsAreExact DEF Undisturbed
<1> QED
  BY <1>1, <1>2, <1>3, Invariance, PTL DEF Spec

\* In a pool that nobody disturbs every counter is exact: each unit of
\* reserved_idle_* belongs to one woken waiter that has yet to resume, so that no
\* idle connection is kept back for nobody.
THEOREM CountersAreExact ==
  ASSUME Undisturbed
  PROVE  Spec => []CountersExact
<1>1. PoolInv /\ ConnectsExact /\ Calm => CountersExact
  <2> SUFFICES ASSUME PoolInv, ConnectsExact, Calm PROVE CountersExact
    OBVIOUS
  <2>1. WokenWithReservation = Reserving(waiter, pc)
    <3>1. ASSUME NEW c \in Coroutines, pc[c] = "wait"
          PROVE  waiter[c].woken /\ waiter[c].reservedIdle <=> waiter[c] = Woken(TRUE)
      <4>1. waiter[c] \in {FreshWaiter, Woken(TRUE), Woken(FALSE)}
        BY <3>1 DEF Calm, Books, Settled
      <4> QED
        BY <4>1, WokenTypes
    <3> QED
      BY <3>1 DEF WokenWithReservation, Reserving
  <2> QED
    BY <2>1 DEF CountersExact, ConnectsExact, Calm, Books
<1> QED
  BY <1>1, CalmHolds, PTL

\* In a pool that nobody disturbs a queued waiter is never forgotten, whatever
\* connects and exchanges fail, unless the exchange of a probe threw: somebody
\* holds a connection and will wake a waiter, or a woken one has yet to resume.
THEOREM NobodyIsStranded ==
  ASSUME Undisturbed
  PROVE  Spec => []NoStrandedWaiter
<1>1. Calm => NoStrandedWaiter
  <2> SUFFICES ASSUME Calm, queue # <<>>
               PROVE  \/ \E p \in Probes : pc[p] = "leaked"
                      \/ \E c \in Coroutines : \/ pc[c] \in {"connect", "exchange"}
                                               \/ pc[c] = "wait" /\ waiter[c].woken
    BY EmptySeq DEF NoStrandedWaiter
  <2>1. PICK c \in Coroutines :
          \/ pc[c] \in {"connect", "exchange", "leaked"}
          \/ pc[c] = "wait" /\ waiter[c] \in {Woken(TRUE), Woken(FALSE)}
    BY DEF Calm, Attended
  <2>2. waiter[c] \in {Woken(TRUE), Woken(FALSE)} => waiter[c].woken
    BY WokenTypes
  <2>3. pc[c] = "leaked" => c \in Probes
    BY DEF Calm
  <2> QED
    BY <2>1, <2>2, <2>3
<1> QED
  BY <1>1, CalmHolds, PTL

------------------------------------------------------------------------------
(* The number of shards, for any number of shards, requests and calls of   *)
(* preconnect and any table of window sizes.                               *)
(*                                                                         *)
(* Widening is a load, a look at the interval and a loop of exchanges,     *)
(* with anything in between.  That it never narrows needs two facts that   *)
(* hold between the steps: who is about to exchange wants more than what   *)
(* it loaded (Growing), and what it wants is a number of shards            *)
(* (ActorTypes), which rests on global_inflight_ being exact               *)
(* (InflightCounted), since the table is only there for as many requests   *)
(* as exist.                                                               *)

ActorRecord == [pc : {"away", "counted", "spaced", "swap", "running"},
                target : 0..N, urgent : BOOLEAN, current : 0..N]

ActorTypes == actor \in [Actors -> ActorRecord]

KeeperTypes ==
  keeper \in [pc : {"asleep", "looked", "store"}, current : Nat]

Inside == {r \in Guarded : actor[r].pc # "away"}

\* global_inflight_ is the number of requests that hold an InflightGuard.
InflightCounted == inflight = Cardinality(Inside)

\* Who may still exchange wants more shards than it has seen.
Growing ==
  \A a \in Actors :
    actor[a].pc \in {"spaced", "swap"} => actor[a].target > actor[a].current

\* The window is a window: between one shard and all of them.
WindowInRange == window \in 1..N

\* The store of the maintenance, too, is of a window it has read.
KeeperInRange == keeper.pc = "store" => keeper.current \in 1..N

ShardInv ==
  /\ ActorTypes /\ KeeperTypes /\ InflightCounted
  /\ Growing /\ WindowInRange /\ KeeperInRange

------------------------------------------------------------------------------

\* Between the guard and its destructor a request is counted: one that comes in
\* makes the count one larger, and it still is a number of requests.
LEMMA CountAfterIn ==
  ASSUME ActorTypes, InflightCounted, NEW r \in Guarded, actor[r].pc = "away"
  PROVE  /\ inflight + 1 \in 1..Cardinality(Guarded)
         /\ IsFiniteSet(Inside \cup {r}) /\ Cardinality(Inside \cup {r}) = inflight + 1
<1>1. IsFiniteSet(Guarded) BY ShardAssumption
<1>2. Inside \subseteq Guarded /\ Inside \cup {r} \subseteq Guarded /\ r \notin Inside
  BY DEF Inside
<1>3. /\ IsFiniteSet(Inside) /\ IsFiniteSet(Inside \cup {r})
      /\ Cardinality(Inside \cup {r}) <= Cardinality(Guarded)
  BY <1>1, <1>2, FS_Subset
<1>4. Cardinality(Inside \cup {r}) = Cardinality(Inside) + 1
  BY <1>2, <1>3, FS_AddElement
<1>5. Cardinality(Inside) \in Nat /\ Cardinality(Guarded) \in Nat
  BY <1>1, <1>3, FS_CardinalityType
<1>. QED BY <1>3, <1>4, <1>5 DEF InflightCounted

\* A request that ends makes the count one smaller.
LEMMA CountAfterOut ==
  ASSUME ActorTypes, InflightCounted, NEW r \in Guarded, actor[r].pc # "away"
  PROVE  Cardinality(Inside \ {r}) = inflight - 1
<1>1. IsFiniteSet(Guarded) BY ShardAssumption
<1>2. Inside \subseteq Guarded /\ r \in Inside BY DEF Inside
<1>3. IsFiniteSet(Inside) BY <1>1, <1>2, FS_Subset
<1>. QED BY <1>2, <1>3, FS_RemoveElement DEF InflightCounted

\* A step of one actor that is away neither before nor after leaves the count.
LEMMA CountStays ==
  ASSUME InflightCounted, UNCHANGED inflight,
         \A r \in Guarded : actor'[r].pc = "away" <=> actor[r].pc = "away"
  PROVE  InflightCounted'
<1>1. Inside' = Inside BY DEF Inside
<1>. QED BY <1>1 DEF InflightCounted

\* Where an actor can go: it gives up, or goes on with a new place or a new load.
LEMMA ActorPlaces ==
  ASSUME ActorTypes, NEW a \in Actors, NEW n \in 0..N
  PROVE  /\ Running \in ActorRecord
         /\ [actor[a] EXCEPT !.pc = "swap"] \in ActorRecord
         /\ [actor[a] EXCEPT !.current = n] \in ActorRecord
         /\ [actor[a] EXCEPT !.pc = "swap", !.current = n] \in ActorRecord
         /\ [actor[a] EXCEPT !.pc = "spaced", !.current = n] \in ActorRecord
<1>1. actor[a] \in ActorRecord BY DEF ActorTypes
<1>2. N \in Nat BY ShardAssumption
<1>3. Running \in ActorRecord BY <1>2 DEF Running, ActorRecord
<1>4. [actor[a] EXCEPT !.pc = "swap"] \in ActorRecord BY <1>1 DEF ActorRecord
<1>5. [actor[a] EXCEPT !.current = n] \in ActorRecord BY <1>1 DEF ActorRecord
<1>6. [actor[a] EXCEPT !.pc = "swap", !.current = n] \in ActorRecord BY <1>1 DEF ActorRecord
<1>7. [actor[a] EXCEPT !.pc = "spaced", !.current = n] \in ActorRecord BY <1>1 DEF ActorRecord
<1>. QED BY <1>3, <1>4, <1>5, <1>6, <1>7

\* A step that puts one actor in such a place keeps the types.
LEMMA OneActorMoves ==
  ASSUME ActorTypes, NEW a \in Actors, NEW v \in ActorRecord, actor' = [actor EXCEPT ![a] = v]
  PROVE  ActorTypes'
BY DEF ActorTypes

LEMMA ShardInitInv == ShardInit => ShardInv
<1>. SUFFICES ASSUME ShardInit PROVE ShardInv OBVIOUS
<1>1. Inside = {} BY DEF ShardInit, Inside, Actors, Away
<1>2. InflightCounted BY <1>1, FS_EmptySet DEF ShardInit, InflightCounted
<1>. QED BY <1>2, ShardAssumption
     DEF ShardInit, ShardInv, ActorTypes, ActorRecord, KeeperTypes, Growing, WindowInRange,
         KeeperInRange, Away, Asleep

LEMMA CountInInv ==
  ASSUME ShardInv, NEW r, CountIn(r)
  PROVE  ShardInv'
<1>. USE DEF ShardInv, CountIn
<1>1. r \in Guarded /\ r \in Actors BY DEF Actors
<1>2. inflight + 1 \in 1..Cardinality(Guarded) BY <1>1, CountAfterIn
<1>3. Wanted[inflight + 1] \in 0..N BY <1>2, ShardAssumption
<1>4. (inflight + 1 >= Urgent) \in BOOLEAN BY <1>2, ShardAssumption
<1>5. ActorTypes' BY <1>1, <1>3, <1>4, ShardAssumption DEF ActorTypes, ActorRecord
<1>6. Growing' BY <1>1 DEF Growing, ActorTypes, ActorRecord
<1>7. Inside' = Inside \cup {r} BY <1>1 DEF Inside, ActorTypes, ActorRecord
<1>8. InflightCounted' BY <1>1, <1>7, CountAfterIn DEF InflightCounted
<1>. QED BY <1>5, <1>6, <1>8 DEF KeeperTypes, WindowInRange, KeeperInRange

LEMMA WarmInv ==
  ASSUME ShardInv, NEW w, Warm(w)
  PROVE  ShardInv'
<1>. USE DEF ShardInv, Warm
<1>1. w \in Warmers /\ w \in Actors /\ w \notin Guarded BY ShardAssumption DEF Actors
<1>2. ActorTypes' BY <1>1, ShardAssumption DEF ActorTypes, ActorRecord
<1>3. Growing' BY <1>1 DEF Growing, ActorTypes, ActorRecord
<1>4. \A r \in Guarded : actor'[r] = actor[r] BY <1>1 DEF ActorTypes, ActorRecord, Actors
<1>5. InflightCounted' BY <1>4, CountStays
<1>. QED BY <1>2, <1>3, <1>5 DEF KeeperTypes, WindowInRange, KeeperInRange

LEMMA LoadInv ==
  ASSUME ShardInv, NEW a \in Actors, Load(a)
  PROVE  ShardInv'
<1>. USE DEF ShardInv, Load
<1>1. window \in 1..N /\ actor[a].target \in 0..N /\ N \in Nat
  BY ShardAssumption, SMTT(30) DEF WindowInRange, ActorTypes, ActorRecord
<1>2. ActorTypes'
  <2>1. window \in 0..N BY <1>1
  <2>2. \/ actor' = [actor EXCEPT ![a] = Running]
        \/ actor' = [actor EXCEPT ![a] = [actor[a] EXCEPT !.pc = "swap", !.current = window]]
        \/ actor' = [actor EXCEPT ![a] = [actor[a] EXCEPT !.pc = "spaced", !.current = window]]
    OBVIOUS
  <2>. QED BY <2>1, <2>2, ActorPlaces, OneActorMoves
<1>3. Growing' BY <1>1 DEF Growing, ActorTypes, ActorRecord, Running
<1>4. \A r \in Guarded : actor'[r].pc = "away" <=> actor[r].pc = "away"
  BY DEF ActorTypes, ActorRecord, Running, Actors
<1>5. InflightCounted' BY <1>4, CountStays
<1>. QED BY <1>2, <1>3, <1>5 DEF KeeperTypes, WindowInRange, KeeperInRange

LEMMA SpaceInv ==
  ASSUME ShardInv, NEW a \in Actors, Space(a)
  PROVE  ShardInv'
<1>. USE DEF ShardInv, Space
<1>2. ActorTypes'
  <2>1. 0 \in 0..N BY ShardAssumption
  <2>2. \/ actor' = [actor EXCEPT ![a] = Running]
        \/ actor' = [actor EXCEPT ![a] = [actor[a] EXCEPT !.pc = "swap"]]
    BY DEF ActorTypes
  <2>. QED BY <2>1, <2>2, ActorPlaces, OneActorMoves
<1>3. Growing' BY DEF Growing, ActorTypes, ActorRecord, Running
<1>4. \A r \in Guarded : actor'[r].pc = "away" <=> actor[r].pc = "away"
  BY DEF ActorTypes, ActorRecord, Running, Actors
<1>5. InflightCounted' BY <1>4, CountStays
<1>. QED BY <1>2, <1>3, <1>5, SMTT(30) DEF KeeperTypes, WindowInRange, KeeperInRange

LEMMA SwapInv ==
  ASSUME ShardInv, NEW a \in Actors, Swap(a)
  PROVE  ShardInv' /\ window' >= window
<1>. USE DEF ShardInv, Swap
<1>1. /\ window \in 1..N /\ N \in Nat
      /\ actor[a].target \in 0..N /\ actor[a].current \in 0..N
      /\ actor[a].target > actor[a].current
  BY ShardAssumption, SMTT(30) DEF WindowInRange, ActorTypes, ActorRecord, Growing
<1>2. ActorTypes'
  <2>1. window \in 0..N BY <1>1
  <2>2. \/ actor' = [actor EXCEPT ![a] = Running]
        \/ actor' = [actor EXCEPT ![a] = [actor[a] EXCEPT !.current = window]]
    BY DEF ActorTypes
  <2>. QED BY <2>1, <2>2, ActorPlaces, OneActorMoves
<1>3. Growing' BY <1>1 DEF Growing, ActorTypes, ActorRecord, Running
<1>4. \A r \in Guarded : actor'[r].pc = "away" <=> actor[r].pc = "away"
  BY DEF ActorTypes, ActorRecord, Running, Actors
<1>5. InflightCounted' BY <1>4, CountStays
<1>6. WindowInRange' /\ window' >= window BY <1>1 DEF WindowInRange
<1>. QED BY <1>2, <1>3, <1>5, <1>6 DEF KeeperTypes, KeeperInRange

LEMMA LeaveInv ==
  ASSUME ShardInv, NEW a \in Actors, Leave(a)
  PROVE  ShardInv'
<1>. USE DEF ShardInv, Leave
<1>1. ActorTypes' BY ShardAssumption DEF ActorTypes, ActorRecord, Away
<1>2. Growing' BY DEF Growing, ActorTypes, ActorRecord, Away
<1>3. InflightCounted'
  <2>1. CASE a \in Guarded
    <3>1. Inside' = Inside \ {a} BY <2>1 DEF Inside, ActorTypes, ActorRecord, Away, Actors
    <3>. QED BY <2>1, <3>1, CountAfterOut DEF InflightCounted
  <2>2. CASE a \notin Guarded
    <3>1. \A r \in Guarded : actor'[r] = actor[r] BY <2>2 DEF ActorTypes, ActorRecord, Actors
    <3>. QED BY <2>2, <3>1, CountStays
  <2>. QED BY <2>1, <2>2
<1>. QED BY <1>1, <1>2, <1>3 DEF KeeperTypes, WindowInRange, KeeperInRange

LEMMA MaintainInv ==
  ASSUME ShardInv, Maintain
  PROVE  ShardInv' /\ UNCHANGED actor
<1>. USE DEF ShardInv
<1>0. inflight \in Nat
  <2>1. IsFiniteSet(Inside) BY ShardAssumption, FS_Subset DEF Inside
  <2>. QED BY <2>1, FS_CardinalityType DEF InflightCounted
<1>1. CASE Look
  BY <1>0, <1>1, CountStays
  DEF Look, ActorTypes, ActorRecord, KeeperTypes, Growing, WindowInRange, KeeperInRange
<1>2. CASE Consider
  BY <1>2, CountStays, ShardAssumption
  DEF Consider, ActorTypes, ActorRecord, KeeperTypes, Growing, WindowInRange, KeeperInRange,
      Asleep
<1>3. CASE Narrow
  <2>1. keeper.current \in 1..N /\ N \in Nat
    BY <1>3, ShardAssumption DEF Narrow, Locked, KeeperInRange
  <2>2. WindowInRange' BY <1>3, <2>1 DEF Narrow, WindowInRange
  <2>. QED BY <1>3, <2>2, CountStays
       DEF Narrow, ActorTypes, ActorRecord, KeeperTypes, Growing, KeeperInRange, Asleep
<1>. QED BY <1>1, <1>2, <1>3 DEF Maintain

LEMMA TimeInv ==
  ASSUME ShardInv, UpIntervalOver \/ IdleTtlOver \/ UNCHANGED shardVars
  PROVE  ShardInv' /\ UNCHANGED actor
BY CountStays
  DEF ShardInv, UpIntervalOver, IdleTtlOver, shardVars, ActorTypes, ActorRecord, KeeperTypes,
    Growing,
   WindowInRange, KeeperInRange

\* Every step keeps the invariant, and one that moves an actor does not narrow
\* the window.
LEMMA ShardStepInv ==
  ASSUME ShardInv, [ShardNext]_shardVars
  PROVE  ShardInv' /\ ((\E a \in Actors : actor'[a] # actor[a]) => window' >= window)
<1>0. window \in Nat BY ShardAssumption DEF ShardInv, WindowInRange
<1>1. ASSUME NEW a \in Actors, CountIn(a)
      PROVE  ShardInv' /\ window' = window BY <1>1, CountInInv DEF CountIn
<1>2. ASSUME NEW a \in Actors, Warm(a)
      PROVE  ShardInv' /\ window' = window BY <1>2, WarmInv DEF Warm
<1>3. ASSUME NEW a \in Actors, Load(a)
      PROVE  ShardInv' /\ window' = window BY <1>3, LoadInv DEF Load
<1>4. ASSUME NEW a \in Actors, Space(a)
      PROVE  ShardInv' /\ window' = window BY <1>4, SpaceInv DEF Space
<1>5. ASSUME NEW a \in Actors, Swap(a)
      PROVE  ShardInv' /\ window' >= window BY <1>5, SwapInv
<1>6. ASSUME NEW a \in Actors, Leave(a)
      PROVE  ShardInv' /\ window' = window BY <1>6, LeaveInv DEF Leave
<1>7. ASSUME Maintain \/ UpIntervalOver \/ IdleTtlOver \/ UNCHANGED shardVars
      PROVE  ShardInv' /\ UNCHANGED actor BY <1>7, MaintainInv, TimeInv
<1>. QED BY <1>0, <1>1, <1>2, <1>3, <1>4, <1>5, <1>6, <1>7 DEF ShardNext, Widen

\* The invariant that carries the other two.
THEOREM ShardInvariant == ShardSpec => []ShardInv
<1>1. ShardInit => ShardInv BY ShardInitInv
<1>2. ShardInv /\ [ShardNext]_shardVars => ShardInv' BY ShardStepInv
<1>. QED BY <1>1, <1>2, PTL DEF ShardSpec

\* pick_request_shard never divides by a window of zero and never leaves the
\* vector of shards, although the window is stored without a lock by some and
\* without a comparison by others: active_auto_shards_ stays in 1..N.
THEOREM WindowStaysInRange == ShardSpec => []WindowInRange
<1>1. ShardInv => WindowInRange BY DEF ShardInv
<1>. QED BY <1>1, ShardInvariant, PTL

\* Requests and preconnects, which act on what they loaded earlier, never narrow
\* the window (maybe_expand_auto_shards, preconnect).
THEOREM WideningIsMonotone == ShardSpec => WideningNeverNarrows
<1>1. ShardInv /\ [ShardNext]_shardVars
        => [(\E a \in Actors : actor'[a] # actor[a]) => window' >= window]_shardVars
  BY ShardStepInv
<1>. QED BY <1>1, ShardInvariant, PTL DEF ShardSpec, WideningNeverNarrows
==============================================================================
