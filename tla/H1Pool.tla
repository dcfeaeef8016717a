------------------------------- MODULE H1Pool -------------------------------
(***************************************************************************)
(* The HTTP/1.1 connection pool of one origin (asio_http_client.cpp,       *)
(* struct OriginPool and everything that reads or writes it).              *)
(*                                                                         *)
(* A pool lives on one shard, and a shard is an io_context run by one      *)
(* thread.  What a coroutine does between two suspension points is         *)
(* therefore atomic, and every action below is the code from one resume to *)
(* the next suspension.  Which of the runnable coroutines is resumed next  *)
(* is left open.                                                           *)
(*                                                                         *)
(* The key of a pool is scheme://host:port, so one pool uses either its    *)
(* _plain or its _tls fields, never both.  One set of variables stands for *)
(* the pair in use, and Tls says which copy of the code is running.        *)
(***************************************************************************)
EXTENDS Integers, Sequences, FiniteSets

CONSTANTS
  Requests,                \* coroutines of AsioHttpClient::request
  Probes,                  \* coroutines of probe_request (TLS pools only)
  Workers,                 \* the worker coroutines of one preconnect call
  TargetCount,             \* its target_count
  MaxConnectionsPerOrigin, \* options_.max_connections_per_origin
  MaxConnectingPerOrigin,  \* options_.max_connecting_per_origin
  Tls,                     \* url.tls
  Timed,                   \* the coroutines whose pool_timeout is not 0
  Cancellable,             \* the coroutines whose caller may cancel them
  MayReset,                \* reset_connections may be called
  MayEvict                 \* the shard's LRU / TTL may choose this pool

Coroutines == Requests \cup Probes \cup Workers

ASSUME CoroutinesAssumption ==
  /\ IsFiniteSet(Requests) /\ IsFiniteSet(Probes) /\ IsFiniteSet(Workers)
  /\ Requests \cap Probes = {} /\ Requests \cap Workers = {}
  /\ Probes \cap Workers = {}
  /\ Probes # {} => Tls
  /\ Timed \subseteq Requests \cup Probes
  /\ Cancellable \subseteq Requests \cup Probes

ASSUME LimitsAssumption ==
  /\ MaxConnectionsPerOrigin \in Nat
  /\ MaxConnectingPerOrigin \in Nat
  /\ TargetCount \in Nat
  /\ Tls \in BOOLEAN /\ MayReset \in BOOLEAN /\ MayEvict \in BOOLEAN

\* std::max<std::size_t>(1, option): an option of 0 still allows one.
MaxConnections == IF MaxConnectionsPerOrigin < 1 THEN 1 ELSE MaxConnectionsPerOrigin
MaxConnecting  == IF MaxConnectingPerOrigin < 1 THEN 1 ELSE MaxConnectingPerOrigin

VARIABLES
  idle,        \* idle_*: used as a stack, the socket state of each connection
  active,      \* active_*
  connecting,  \* connecting_*
  reserved,    \* reserved_idle_*
  queue,       \* wait_*: the coroutine that owns each Waiter, front first
  pc,          \* where each coroutine is suspended, or how it ended
  waiter,      \* the last Waiter object each coroutine made
  conn,        \* the socket of the connection a coroutine holds
  cancel,      \* how far the cancellation of each coroutine has come
  launched,    \* the launched counter the preconnect workers share
  evicted      \* the shard dropped the pool: no newcomer can find it

vars == <<idle, active, connecting, reserved, queue, pc, waiter, conn,
          cancel, launched, evicted>>

\* How a coroutine ends.  "timeout": it threw h1 pool timeout.  "abandoned":
\* it threw out of co_await async_wait after it had queued its Waiter.
\* "leaked": a probe threw out of its exchange.
Ended   == {"ok", "failed", "timeout", "abandoned", "leaked"}
Suspended == {"start", "wait", "connect", "exchange"}

WaiterRecord == [woken : BOOLEAN, cancelled : BOOLEAN, reservedIdle : BOOLEAN,
                 timer : {"pending", "fired", "aborted"}]
FreshWaiter == [woken |-> FALSE, cancelled |-> FALSE, reservedIdle |-> FALSE,
                timer |-> "pending"]

Init ==
  /\ idle = <<>>
  /\ active = 0 /\ connecting = 0 /\ reserved = 0
  /\ queue = <<>>
  /\ pc = [c \in Coroutines |-> "start"]
  /\ waiter = [c \in Coroutines |-> FreshWaiter]
  /\ conn = [c \in Coroutines |-> "open"]
  /\ cancel = [c \in Coroutines |-> "no"]
  /\ launched = 0
  /\ evicted = FALSE

Cancelled(c) == cancel[c] # "no"

\* Mutant of Dec: the decrement without its guard.
DecUnguarded(n) == n - 1

\* if (n > 0) --n
Dec(n) == IF n > 0 THEN n - 1 ELSE n

-----------------------------------------------------------------------------
(* Waking.  q is a wait queue and w the Waiter objects.                     *)

\* The position of the first Waiter not cancelled, as a set of at most one.
FirstLive(q, w) ==
  {i \in 1..Len(q) : ~w[q[i]].cancelled /\ \A j \in 1..(i - 1) : w[q[j]].cancelled}

\* Both wake functions pop until they have popped a Waiter not cancelled.
PopWoken(q, w) ==
  IF FirstLive(q, w) = {} THEN <<>>
  ELSE SubSeq(q, (CHOOSE i \in FirstLive(q, w) : TRUE) + 1, Len(q))

\* timer.cancel() has no effect on a wait whose completion is already queued.
AbortTimer(t) == IF t = "pending" THEN "aborted" ELSE t

WakeWaiter(r, reserve) ==
  [r EXCEPT !.woken = TRUE, !.reservedIdle = r.reservedIdle \/ reserve,
            !.timer = AbortTimer(r.timer)]

Wake(q, w, reserve) ==
  IF FirstLive(q, w) = {} THEN w
  ELSE LET c == q[CHOOSE i \in FirstLive(q, w) : TRUE]
       IN [w EXCEPT ![c] = WakeWaiter(w[c], reserve)]

WakeOne(w) == queue' = PopWoken(queue, w) /\ waiter' = Wake(queue, w, FALSE)

\* Two calls of wake_one in one step.
WakeTwo(w) ==
  LET q1 == PopWoken(queue, w)
      w1 == Wake(queue, w, FALSE)
  IN queue' = PopWoken(q1, w1) /\ waiter' = Wake(q1, w1, FALSE)

\* push_back onto idle, then wake_one_with_idle_reservation.
ReturnToIdle(s) ==
  /\ idle' = Append(idle, s)
  /\ queue' = PopWoken(queue, waiter)
  /\ waiter' = Wake(queue, waiter, TRUE)
  /\ reserved' = IF FirstLive(queue, waiter) = {} THEN reserved ELSE reserved + 1

-----------------------------------------------------------------------------
(* acquire_plain and acquire_tls.  woke and hasRes are woke_from_wait and   *)
(* has_idle_reservation.                                                    *)

MayTakeIdle(woke, hasRes) ==
  idle # <<>> /\ (hasRes \/ (reserved = 0 /\ (woke \/ queue = <<>>)))

\* A reservation whose connection is gone is given up.
ReservedAfterMiss(hasRes) ==
  IF hasRes /\ idle = <<>> THEN Dec(reserved) ELSE reserved

PlainMayConnect(woke, res) ==
  /\ active < MaxConnections
  /\ connecting < MaxConnecting
  /\ woke \/ (res = 0 /\ queue = <<>>)

\* Mutant of TlsMustWait: an off-by-one.
TlsMustWaitOffByOne(woke, res) ==
  \/ active > MaxConnections
  \/ connecting >= MaxConnecting
  \/ ~woke /\ (res > 0 \/ queue # <<>>)

TlsMustWait(woke, res) ==
  \/ active >= MaxConnections
  \/ connecting >= MaxConnecting
  \/ ~woke /\ (res > 0 \/ queue # <<>>)

MayConnect(woke, res) ==
  IF Tls THEN ~TlsMustWait(woke, res) ELSE PlainMayConnect(woke, res)

\* Mutant of PopIdle: the reservation is not given back.
PopIdleKeepsReservation(hasRes) ==
  idle' = SubSeq(idle, 1, Len(idle) - 1) /\ UNCHANGED reserved

PopIdle(hasRes) ==
  /\ idle' = SubSeq(idle, 1, Len(idle) - 1)
  /\ reserved' = IF hasRes THEN Dec(reserved) ELSE reserved

\* The coroutine leaves with an idle connection.  A cancelled one throws at
\* the first co_await of the exchange, whose handler closes the connection.
TakeIdle(r, woke, hasRes) ==
  /\ MayTakeIdle(woke, hasRes)
  /\ PopIdle(hasRes)
  /\ IF Cancelled(r)
       THEN /\ pc' = [pc EXCEPT ![r] = "failed"]
            /\ active' = Dec(active)
            /\ WakeOne([waiter EXCEPT ![r] = FreshWaiter])
            /\ UNCHANGED conn
       ELSE /\ pc' = [pc EXCEPT ![r] = "exchange"]
            /\ conn' = [conn EXCEPT ![r] = idle[Len(idle)]]
            /\ waiter' = [waiter EXCEPT ![r] = FreshWaiter]
            /\ UNCHANGED <<active, queue>>
  /\ UNCHANGED <<connecting, cancel, launched, evicted>>

\* The coroutine opens a connection.  A cancelled one throws at async_resolve,
\* and the handler takes both increments back.
OpenConnection(r, woke, hasRes) ==
  /\ ~MayTakeIdle(woke, hasRes)
  /\ MayConnect(woke, ReservedAfterMiss(hasRes))
  /\ reserved' = ReservedAfterMiss(hasRes)
  /\ IF Cancelled(r)
       THEN /\ pc' = [pc EXCEPT ![r] = "failed"]
            /\ WakeOne([waiter EXCEPT ![r] = FreshWaiter])
            /\ UNCHANGED <<active, connecting>>
       ELSE /\ pc' = [pc EXCEPT ![r] = "connect"]
            /\ active' = active + 1
            /\ connecting' = connecting + 1
            /\ waiter' = [waiter EXCEPT ![r] = FreshWaiter]
            /\ UNCHANGED queue
  /\ UNCHANGED <<idle, conn, cancel, launched, evicted>>

\* The coroutine queues a new Waiter.  A cancelled one throws at async_wait
\* and leaves the Waiter in the queue.
Enqueue(r, woke, hasRes) ==
  /\ ~MayTakeIdle(woke, hasRes)
  /\ ~MayConnect(woke, ReservedAfterMiss(hasRes))
  /\ reserved' = ReservedAfterMiss(hasRes)
  /\ queue' = Append(queue, r)
  /\ waiter' = [waiter EXCEPT ![r] = FreshWaiter]
  /\ pc' = [pc EXCEPT ![r] = IF Cancelled(r) THEN "abandoned" ELSE "wait"]
  /\ UNCHANGED <<idle, active, connecting, conn, cancel, launched, evicted>>

Acquire(r, woke, hasRes) ==
  \/ TakeIdle(r, woke, hasRes)
  \/ OpenConnection(r, woke, hasRes)
  \/ Enqueue(r, woke, hasRes)

\* The coroutine starts on the shard; a cancelled one throws at its first
\* co_await.
Start(r) ==
  /\ r \in Requests /\ pc[r] = "start" /\ ~evicted
  /\ IF Cancelled(r)
       THEN /\ pc' = [pc EXCEPT ![r] = "failed"]
            /\ UNCHANGED <<idle, active, connecting, reserved, queue, waiter,
                           conn, cancel, launched, evicted>>
       ELSE Acquire(r, FALSE, FALSE)

-----------------------------------------------------------------------------
(* connect_probe_tls: its own loop over the same fields.                    *)

ProbeMustWait(hasRes) ==
  \/ (active >= MaxConnections \/ connecting >= MaxConnecting) /\ idle = <<>>
  \/ ~hasRes /\ reserved > 0

ProbeEnqueue(p, hasRes) ==
  /\ ProbeMustWait(hasRes)
  /\ queue' = Append(queue, p)
  /\ waiter' = [waiter EXCEPT ![p] = FreshWaiter]
  /\ pc' = [pc EXCEPT ![p] = IF Cancelled(p) THEN "abandoned" ELSE "wait"]
  /\ UNCHANGED <<idle, active, connecting, reserved, conn, cancel, launched,
                 evicted>>

\* Nothing catches what the exchange of a probe throws: a cancelled probe that
\* took an idle connection keeps its unit of active for ever.
ProbeTakeIdle(p, hasRes) ==
  /\ ~ProbeMustWait(hasRes)
  /\ idle # <<>>
  /\ PopIdle(hasRes)
  /\ pc' = [pc EXCEPT ![p] = IF Cancelled(p) THEN "leaked" ELSE "exchange"]
  /\ conn' = [conn EXCEPT ![p] = idle[Len(idle)]]
  /\ waiter' = [waiter EXCEPT ![p] = FreshWaiter]
  /\ UNCHANGED <<active, connecting, queue, cancel, launched, evicted>>

ProbeOpenConnection(p, hasRes) ==
  /\ ~ProbeMustWait(hasRes)
  /\ idle = <<>>
  /\ IF Cancelled(p)
       THEN /\ pc' = [pc EXCEPT ![p] = "failed"]
            /\ WakeOne([waiter EXCEPT ![p] = FreshWaiter])
            /\ UNCHANGED <<active, connecting>>
       ELSE /\ pc' = [pc EXCEPT ![p] = "connect"]
            /\ active' = active + 1
            /\ connecting' = connecting + 1
            /\ waiter' = [waiter EXCEPT ![p] = FreshWaiter]
            /\ UNCHANGED queue
  /\ UNCHANGED <<idle, reserved, conn, cancel, launched, evicted>>

ProbeAcquire(p, hasRes) ==
  \/ ProbeEnqueue(p, hasRes)
  \/ ProbeTakeIdle(p, hasRes)
  \/ ProbeOpenConnection(p, hasRes)

ProbeStart(p) ==
  /\ p \in Probes /\ pc[p] = "start" /\ ~evicted
  /\ IF Cancelled(p)
       THEN /\ pc' = [pc EXCEPT ![p] = "failed"]
            /\ UNCHANGED <<idle, active, connecting, reserved, queue, waiter,
                           conn, cancel, launched, evicted>>
       ELSE ProbeAcquire(p, FALSE)

-----------------------------------------------------------------------------
(* A coroutine suspended on its Waiter's timer.                             *)

\* The timer expires at pool_deadline; without a pool_timeout it never does.
TimerFires(c) ==
  /\ c \in Timed /\ pc[c] = "wait" /\ waiter[c].timer = "pending"
  /\ waiter' = [waiter EXCEPT ![c].timer = "fired"]
  /\ UNCHANGED <<idle, active, connecting, reserved, queue, pc, conn, cancel,
                 launched, evicted>>

\* remove_waiter: a Waiter is queued at most once.
RemoveWaiter(q, c) ==
  IF \E i \in 1..Len(q) : q[i] = c
  THEN LET i == CHOOSE j \in 1..Len(q) : q[j] = c
       IN SubSeq(q, 1, i - 1) \o SubSeq(q, i + 1, Len(q))
  ELSE q

\* operation_aborted and not woken: h1 pool wait cancelled.
WaitCancelled(c) ==
  /\ pc[c] = "wait" /\ waiter[c].timer = "aborted" /\ ~waiter[c].woken
  /\ waiter' = [waiter EXCEPT ![c].cancelled = TRUE]
  /\ queue' = RemoveWaiter(queue, c)
  /\ pc' = [pc EXCEPT ![c] = "failed"]
  /\ UNCHANGED <<idle, active, connecting, reserved, conn, cancel, launched,
                 evicted>>

\* The timer expired: h1 pool timeout is thrown and nothing is undone, woken
\* or not.
WaitTimedOut(c) ==
  /\ pc[c] = "wait" /\ waiter[c].timer = "fired"
  /\ pc' = [pc EXCEPT ![c] = "timeout"]
  /\ UNCHANGED <<idle, active, connecting, reserved, queue, waiter, conn,
                 cancel, launched, evicted>>

\* operation_aborted and woken: once more round the loop.
WaitWoken(c) ==
  /\ pc[c] = "wait" /\ waiter[c].timer = "aborted" /\ waiter[c].woken
  /\ \/ c \in Requests /\ Acquire(c, TRUE, waiter[c].reservedIdle)
     \/ c \in Probes /\ ProbeAcquire(c, waiter[c].reservedIdle)

-----------------------------------------------------------------------------
(* Connecting and exchanging.                                               *)

\* A completion that was queued before the cancellation still resumes with
\* success: the connect is counted as finished, then the first co_await of
\* the exchange throws.
ConnectOk(r) ==
  /\ r \in Requests /\ pc[r] = "connect"
  /\ connecting' = Dec(connecting)
  /\ IF Cancelled(r)
       THEN /\ pc' = [pc EXCEPT ![r] = "failed"]
            /\ active' = Dec(active)
            /\ WakeTwo(waiter)
            /\ UNCHANGED conn
       ELSE /\ pc' = [pc EXCEPT ![r] = "exchange"]
            /\ conn' = [conn EXCEPT ![r] = "open"]
            /\ WakeOne(waiter)
            /\ UNCHANGED active
  /\ UNCHANGED <<idle, reserved, cancel, launched, evicted>>

\* Mutants of ConnectFail: connecting is not taken back, and nobody is woken.
ConnectFailKeepsConnecting(c) ==
  /\ pc[c] = "connect"
  /\ active' = Dec(active)
  /\ WakeOne(waiter)
  /\ pc' = [pc EXCEPT ![c] = "failed"]
  /\ UNCHANGED <<idle, connecting, reserved, conn, cancel, launched, evicted>>
ConnectFailWakesNobody(c) ==
  /\ pc[c] = "connect"
  /\ connecting' = Dec(connecting)
  /\ active' = Dec(active)
  /\ pc' = [pc EXCEPT ![c] = "failed"]
  /\ UNCHANGED <<idle, reserved, queue, waiter, conn, cancel, launched, evicted>>

ConnectFail(c) ==
  /\ pc[c] = "connect"
  /\ connecting' = Dec(connecting)
  /\ active' = Dec(active)
  /\ WakeOne(waiter)
  /\ pc' = [pc EXCEPT ![c] = "failed"]
  /\ UNCHANGED <<idle, reserved, conn, cancel, launched, evicted>>

\* ALPN chose http/1.1 (or nothing): the probe goes on with an exchange.
ProbeConnectOk(p) ==
  /\ p \in Probes /\ pc[p] = "connect"
  /\ connecting' = Dec(connecting)
  /\ WakeOne(waiter)
  /\ conn' = [conn EXCEPT ![p] = "open"]
  /\ pc' = [pc EXCEPT ![p] = IF Cancelled(p) THEN "leaked" ELSE "exchange"]
  /\ UNCHANGED <<idle, active, reserved, cancel, launched, evicted>>

\* ALPN chose h2: the connection is closed and only the answer is kept.
ProbeFoundH2(p) ==
  /\ p \in Probes /\ pc[p] = "connect"
  /\ connecting' = Dec(connecting)
  /\ active' = Dec(active)
  /\ WakeTwo(waiter)
  /\ pc' = [pc EXCEPT ![p] = "ok"]
  /\ UNCHANGED <<idle, reserved, conn, cancel, launched, evicted>>

\* The exchange ends with an empty response.error.  Its last completion may
\* have been queued before a cancellation closed the socket under it ("cut").
ExchangeOk(c) ==
  /\ c \in Requests \cup Probes /\ pc[c] = "exchange"
  /\ conn[c] # "closed"
  /\ ReturnToIdle(IF conn[c] = "open" THEN "open" ELSE "closed")
  /\ pc' = [pc EXCEPT ![c] = "ok"]
  /\ UNCHANGED <<active, connecting, conn, cancel, launched, evicted>>

\* Mutant of ExchangeError: nobody is woken.
ExchangeErrorWakesNobody(c) ==
  /\ c \in Requests \cup Probes /\ pc[c] = "exchange"
  /\ active' = Dec(active)
  /\ pc' = [pc EXCEPT ![c] = "failed"]
  /\ UNCHANGED <<idle, connecting, reserved, queue, waiter, conn, cancel,
                 launched, evicted>>

\* The exchange of a request throws, or ends with an error; the exchange of a
\* probe ends with an error.
ExchangeError(c) ==
  /\ c \in Requests \cup Probes /\ pc[c] = "exchange"
  /\ active' = Dec(active)
  /\ WakeOne(waiter)
  /\ pc' = [pc EXCEPT ![c] = "failed"]
  /\ UNCHANGED <<idle, connecting, reserved, conn, cancel, launched, evicted>>

ProbeExchangeThrows(p) ==
  /\ p \in Probes /\ pc[p] = "exchange"
  /\ pc' = [pc EXCEPT ![p] = "leaked"]
  /\ UNCHANGED <<idle, active, connecting, reserved, queue, waiter, conn,
                 cancel, launched, evicted>>

-----------------------------------------------------------------------------
(* Cancellation.  The caller's slot emits on the child signal and then posts*)
(* cancel_request_on_shard; both run on the shard, in that order, with any  *)
(* number of other handlers between them.                                   *)

CancelEmit(c) ==
  /\ c \in Cancellable /\ cancel[c] = "no" /\ pc[c] \in Suspended
  /\ cancel' = [cancel EXCEPT ![c] = "emitted"]
  /\ waiter' = IF pc[c] = "wait"
                 THEN [waiter EXCEPT ![c].timer = AbortTimer(waiter[c].timer)]
                 ELSE waiter
  /\ UNCHANGED <<idle, active, connecting, reserved, queue, pc, conn, launched,
                 evicted>>

\* cancel_state->waiter still points to the Waiter of an "abandoned" request.
CancelOnShard(r) ==
  /\ r \in Requests /\ cancel[r] = "emitted"
  /\ cancel' = [cancel EXCEPT ![r] = "delivered"]
  /\ conn' = IF pc[r] = "exchange" /\ conn[r] = "open"
               THEN [conn EXCEPT ![r] = "cut"] ELSE conn
  /\ waiter' = IF pc[r] \in {"wait", "abandoned"} /\ ~waiter[r].cancelled
                 THEN [waiter EXCEPT ![r].cancelled = TRUE,
                                     ![r].timer = AbortTimer(waiter[r].timer)]
                 ELSE waiter
  /\ UNCHANGED <<idle, active, connecting, reserved, queue, pc, launched,
                 evicted>>

-----------------------------------------------------------------------------
(* The workers of preconnect.                                               *)

\* The two tests at the head of the loop; the second consumes a ticket.
WorkerMayLaunch(nidle, nconnecting) ==
  nidle < TargetCount /\ active < MaxConnections /\ nconnecting < MaxConnecting

WorkerLoop(w, nidle, nconnecting) ==
  LET may == WorkerMayLaunch(nidle, nconnecting)
      go  == may /\ launched < TargetCount
  IN /\ launched' = IF may THEN launched + 1 ELSE launched
     /\ active' = IF go THEN active + 1 ELSE active
     /\ connecting' = IF go THEN nconnecting + 1 ELSE nconnecting
     /\ pc' = [pc EXCEPT ![w] = IF go THEN "connect" ELSE "ok"]

WorkerStart(w) ==
  /\ w \in Workers /\ pc[w] = "start"
  /\ WorkerLoop(w, Len(idle), connecting)
  /\ UNCHANGED <<idle, reserved, queue, waiter, conn, cancel, evicted>>

\* The new connection goes to the idle stack and the worker loops.
WorkerConnectOk(w) ==
  /\ w \in Workers /\ pc[w] = "connect"
  /\ ReturnToIdle("open")
  /\ WorkerLoop(w, Len(idle) + 1, Dec(connecting))
  /\ UNCHANGED <<conn, cancel, evicted>>

-----------------------------------------------------------------------------
(* Operations on the pool as a whole.                                       *)

\* Mutants of ResetConnections: active is zeroed like the other counters, and
\* the reservations survive the connections.
ResetForgetsTheBusy ==
  /\ MayReset /\ ~evicted
  /\ idle' = <<>> /\ active' = 0 /\ connecting' = 0 /\ reserved' = 0
  /\ WakeOne(waiter)
  /\ UNCHANGED <<pc, conn, cancel, launched, evicted>>
ResetKeepsReservations ==
  /\ MayReset /\ ~evicted
  /\ active' = IF Len(idle) > active THEN 0 ELSE active - Len(idle)
  /\ idle' = <<>> /\ connecting' = 0
  /\ WakeOne(waiter)
  /\ UNCHANGED <<reserved, pc, conn, cancel, launched, evicted>>

ResetConnections ==
  /\ MayReset /\ ~evicted
  /\ active' = IF Len(idle) > active THEN 0 ELSE active - Len(idle)
  /\ idle' = <<>>
  /\ connecting' = 0
  /\ reserved' = 0
  /\ WakeOne(waiter)
  /\ UNCHANGED <<pc, conn, cancel, launched, evicted>>

PoolIdle == active = Len(idle) /\ queue = <<>>

\* evict_idle_origins found the pool idle and over its TTL or the LRU limit.
Evict ==
  /\ MayEvict /\ ~evicted /\ PoolIdle
  /\ idle' = <<>>
  /\ active' = 0 /\ connecting' = 0 /\ reserved' = 0
  /\ evicted' = TRUE
  /\ UNCHANGED <<queue, pc, waiter, conn, cancel, launched>>

-----------------------------------------------------------------------------
\* What the shard's thread runs on behalf of coroutine c.
Step(c) ==
  \/ Start(c) \/ ProbeStart(c) \/ WorkerStart(c)
  \/ WaitCancelled(c) \/ WaitTimedOut(c) \/ WaitWoken(c)
  \/ ConnectOk(c) \/ ConnectFail(c)
  \/ ProbeConnectOk(c) \/ ProbeFoundH2(c) \/ WorkerConnectOk(c)
  \/ ExchangeOk(c) \/ ExchangeError(c) \/ ProbeExchangeThrows(c)

\* Every coroutine has ended, or will look for another pool.
Quiescent ==
  /\ \A c \in Coroutines :
       \/ pc[c] \in Ended
       \/ pc[c] = "start" /\ evicted /\ c \notin Workers
  /\ UNCHANGED vars

Next ==
  \/ \E c \in Coroutines : Step(c) \/ TimerFires(c) \/ CancelEmit(c) \/ CancelOnShard(c)
  \/ ResetConnections
  \/ Evict
  \/ Quiescent

Spec == Init /\ [][Next]_vars

\* The shard's thread keeps running handlers, and every connect and exchange
\* ends: each stage of both has its own timeout.
FairSpec == Spec /\ \A c \in Coroutines : WF_vars(Step(c))

-----------------------------------------------------------------------------
(* Properties.                                                              *)

\* The types of the pool's fields and of the coroutines' states.
TypeOK ==
  /\ idle \in Seq({"open", "closed"})
  /\ active \in Nat /\ connecting \in Nat /\ reserved \in Nat
  /\ queue \in Seq(Coroutines)
  /\ pc \in [Coroutines -> Suspended \cup Ended]
  /\ waiter \in [Coroutines -> WaiterRecord]
  /\ conn \in [Coroutines -> {"open", "closed", "cut"}]
  /\ cancel \in [Coroutines -> {"no", "emitted", "delivered"}]
  /\ launched \in Nat
  /\ evicted \in BOOLEAN

\* The coroutines that own a unit of active and have no idle connection.
Connecting == {c \in Coroutines : pc[c] = "connect"}
Holding == {c \in Coroutines : pc[c] \in {"connect", "exchange", "leaked"}}

\* active counts exactly the idle connections, the coroutines that connect or
\* exchange, and the probes whose exchange threw: over every interleaving of
\* cancellation, timeout, reset and eviction no handler of
\* asio_http_client.cpp releases a connection twice, and only probe_request
\* ever forgets to.
ConnectionAccounting == active = Len(idle) + Cardinality(Holding)

\* The pool never has more connections, open or being opened, than
\* max(1, max_connections_per_origin), whoever opens them: requests, probes
\* or preconnect.
ConnectionCap == Len(idle) + Cardinality(Holding) <= MaxConnections

\* Every reservation counted in reserved_idle_* has its own idle connection:
\* what a newcomer leaves alone is really there.
ReservationsBacked == reserved <= Len(idle)

\* connecting_* never counts a connect that is over (it would shut the door
\* on new connections for ever).
ConnectingNotOvercounted == connecting <= Cardinality(Connecting)

\* Without reset_connections the counters are exact.  At most
\* max(1, max_connecting_per_origin) connects are in flight; and "returned idle
\* connections are reserved for the waiter we wake": each unit of
\* reserved_idle_* belongs to a coroutine that was woken with a reservation and
\* has not resumed yet.
WokenWithReservation ==
  {c \in Coroutines : pc[c] = "wait" /\ waiter[c].woken /\ waiter[c].reservedIdle}
CountersExact ==
  /\ connecting = Cardinality(Connecting) /\ Cardinality(Connecting) <= MaxConnecting
  /\ reserved = Cardinality(WokenWithReservation)

\* Unless the exchange of a probe threw, a coroutine in the wait queue is
\* never forgotten: someone is connecting or exchanging, and wakes a waiter
\* when done, or a woken waiter has yet to resume.
NoStrandedWaiter ==
  (\E i \in 1..Len(queue) : pc[queue[i]] = "wait")
    => \/ \E p \in Probes : pc[p] = "leaked"
       \/ \E c \in Coroutines : \/ pc[c] \in {"connect", "exchange"}
                                \/ pc[c] = "wait" /\ waiter[c].woken

\* Every coroutine that uses the pool ends, even without a pool timeout, unless a
\* probe has thrown out of its exchange, which wakes nobody.
EveryoneFinishes ==
  \A c \in Coroutines :
    <>(pc[c] \in Ended \/ \E p \in Probes : pc[p] = "leaked")
=============================================================================
