------------------------------ MODULE H2Group -------------------------------
(***************************************************************************)
(* The session groups of H2Client (src/h2_client.cpp): the map from        *)
(* origins to groups of sessions with its LRU list, the cache that each    *)
(* thread keeps of it, the choice of a session for a request, the number   *)
(* of sessions in use and its scaling, maintenance, eviction, preconnect,  *)
(* reset_connections and shutdown.                                         *)
(*                                                                         *)
(* The map is changed under groups_mu_; everything else a caller does on   *)
(* its way from group_for to the strand of a session is not, and every     *)
(* step below may be interleaved with those of others.  A session is kept  *)
(* to what the group sees of it: its link, whether it has stopped, the     *)
(* streams on it and the calls posted to its strand.  H2Session has the    *)
(* rest.                                                                   *)
(***************************************************************************)
EXTENDS Integers, Sequences, FiniteSets, FiniteSetsExt, LruEviction

CONSTANTS
  Keys,         \* transport keys (origins)
  Requests,     \* calls of async_request and async_request_callback
  Threads,      \* threads that call group_for
  MaxStreams,   \* max_concurrent_streams
  MaxGroups,    \* max_session_groups, 0 for no limit
  Low, Mid, High,  \* the loads that call for 2, 3 and 4 sessions (64, 128, 256)
  BusyLoad,     \* the load up to which a group may scale down (8)
  CacheSize,    \* entries of the thread's cache (32)
  Shapes,       \* the clients considered: how many sessions_per_origin, whether a
                \* connection breaks after it was made, and as bounds the keys
                \* used and the groups that exist at a time
  MaxCalls      \* bound: how many of preconnect, reset_connections, shutdown are called

ASSUME GroupAssumption ==
  /\ IsFiniteSet(Keys) /\ IsFiniteSet(Requests) /\ IsFiniteSet(Threads)
  /\ \A s \in Shapes : s.sessions \in Nat \ {0} /\ s.ids \in Nat /\ s.keys \subseteq Keys
                      /\ s.breaks \in BOOLEAN
  /\ MaxStreams \in Nat \ {0} /\ MaxGroups \in Nat
  /\ Low \in Nat /\ Mid \in Nat /\ High \in Nat /\ BusyLoad \in Nat
  /\ CacheSize \in Nat \ {0}
  /\ MaxCalls \in Nat
  /\ 0 \notin Keys

None == 0

VARIABLES
  shape,     \* one of Shapes, for the whole behaviour
  groups,    \* groups_: the group of each key, or None
  lru,       \* group_lru_, the key used last first
  group,     \* each SessionGroup: its key, inflight and active_impls
  session,   \* each session of each group
  cache,     \* the local_cache of each thread: key and weak_ptr to a group
  cursor,    \* local_cursor
  req,       \* each request: where it is, its group and its session
  pre,       \* the preconnect under way: its group, its target, whether it will store it
  calls      \* which of preconnect, reset_connections, shutdown have been called

vars == <<shape, groups, lru, group, session, cache, cursor, req, pre, calls>>

Sessions == shape.sessions
Ids == 1..shape.ids
Indices == 0..(Sessions - 1)

Asks == {"shutdown", "reset_if_idle", "reset", "preconnect"}

\* "grouped" after group_for, "decided" after active_impl_count, "posted" to the
\* strand; then in ensure_connected, in acquire_stream_slot, on a stream.
\* "done": has its answer or an error; "reset": lost its stream to a reset.
Ended == {"done", "reset"}

NoGroup == [key |-> None, inflight |-> 0, active |-> 1]
NewSession == [link |-> "down", stopping |-> FALSE, asks |-> {}]
Caller(at, i) == [at |-> at, id |-> i, idx |-> 0, active |-> 1, previous |-> 1]
NoEntry == [key |-> None, id |-> None]
NoCall == [id |-> None, target |-> 0, store |-> FALSE]
Init ==
  /\ shape \in Shapes
  /\ groups = [k \in Keys |-> None] /\ lru = <<>>
  /\ group = [i \in Ids |-> NoGroup]
  /\ session = [i \in Ids |-> [x \in Indices |-> NewSession]]
  /\ cache = [h \in Threads |-> [e \in 0..(CacheSize - 1) |-> NoEntry]]
  /\ cursor = [h \in Threads |-> 0]
  /\ req = [r \in Requests |-> Caller("idle", None)]
  /\ pre = NoCall
  /\ calls = {}

-----------------------------------------------------------------------------
(* What the group sees of a session.                                       *)

On(i, x, places) == {r \in Requests : req[r].id = i /\ req[r].idx = x /\ req[r].at \in places}

ActiveStreams(i, x) == Cardinality(On(i, x, {"streaming"}))

\* idle(): requests that are posted to the strand and have not run do not show.
Idle(i, x) ==
  /\ session[i][x].link # "connecting"
  /\ On(i, x, {"streaming", "slot"}) = {}

AvailableSlots(i, x) ==
  IF session[i][x].link # "up" \/ session[i][x].stopping THEN 0
  ELSE MaxStreams - ActiveStreams(i, x)

\* The requests that still have a shared_ptr to group i, and so keep it alive.
Holders(i) == {r \in Requests : req[r].id = i /\ req[r].at \notin Ended}

InMap(i) == \E k \in Keys : groups[k] = i
Alive(i) == InMap(i) \/ Holders(i) # {} \/ pre.id = i

Ask(sess, i, xs, what) ==
  [sess EXCEPT ![i] = [x \in Indices |->
     IF x \in xs THEN [sess[i][x] EXCEPT !.asks = @ \cup {what}] ELSE sess[i][x]]]

-----------------------------------------------------------------------------
(* Eviction.                                                               *)

GroupIdle(i) == \A x \in Indices : Idle(i, x)

\* Mutant: the limit is compared with > instead of >=.
EvictedOneLate(old) ==
  IF MaxGroups = 0 THEN {}
  ELSE Removed(lru, {k \in Keys : groups[k] # None /\ GroupIdle(groups[k])},
               {lru[n] : n \in (Len(lru) + 1 - old)..Len(lru)}, MaxGroups + 1, FALSE)

\* evict_session_groups_locked: the keys it removes, if last_used of the last
\* old keys of the list is longer ago than session_group_idle_ttl.
Evicted(old) ==
  IF MaxGroups = 0 THEN {}
  ELSE Removed(lru, {k \in Keys : groups[k] # None /\ GroupIdle(groups[k])},
               {lru[n] : n \in (Len(lru) + 1 - old)..Len(lru)}, MaxGroups, FALSE)

\* Mutant: only the sessions in use are shut down.
ShutDownActive(sess, keys) ==
  [i \in Ids |-> [x \in Indices |->
     IF x < group[i].active /\ \E k \in keys : groups[k] = i
     THEN [sess[i][x] EXCEPT !.asks = @ \cup {"shutdown"}] ELSE sess[i][x]]]

\* request_shutdown of all sessions of the groups of keys.
ShutDown(sess, keys) ==
  [i \in Ids |-> [x \in Indices |->
     IF \E k \in keys : groups[k] = i
     THEN [sess[i][x] EXCEPT !.asks = @ \cup {"shutdown"}] ELSE sess[i][x]]]

-----------------------------------------------------------------------------
(* group_for.                                                              *)

Cached(h, k) ==
  {e \in DOMAIN cache[h] : cache[h][e].key = k /\ Alive(cache[h][e].id)}

Remembered(h, k, i) ==
  /\ cache' = [cache EXCEPT ![h] =
       [e \in DOMAIN @ |-> CASE e = cursor[h] -> [key |-> k, id |-> i]
                             [] e # cursor[h] /\ @[e].key = k -> NoEntry
                             [] OTHER -> @[e]]]
  /\ cursor' = [cursor EXCEPT ![h] = (@ + 1) % CacheSize]

\* The thread has the group in its cache.  If try_lock succeeds it is used only
\* if it still is the group of the key; if somebody has the lock it is used as
\* it is.
FromCache(h, k, i) ==
  /\ \E e \in Cached(h, k) : cache[h][e].id = i
  /\ \/ groups[k] = i /\ lru' = Touched(lru, k)
     \/ UNCHANGED lru
  /\ UNCHANGED <<groups, group, session, cache, cursor>>

\* The thread does not have it, or has one that was evicted, and looks in the
\* map.
FromMap(h, k, i) ==
  /\ \A e \in Cached(h, k) : groups[k] # cache[h][e].id
  /\ groups[k] = i /\ i # None
  /\ lru' = Touched(lru, k)
  /\ Remembered(h, k, i)
  /\ UNCHANGED <<groups, group, session>>

\* There is none: evict, then make one.
NewGroup(h, k, i) ==
  /\ \A e \in Cached(h, k) : groups[k] # cache[h][e].id
  /\ groups[k] = None
  /\ group[i].key = None /\ \A j \in 1..(i - 1) : group[j].key # None
  /\ \E old \in 0..Len(lru) :
       /\ groups' = [q \in Keys |-> CASE q = k -> i
                                      [] q # k /\ q \in Evicted(old) -> None
                                      [] OTHER -> groups[q]]
       /\ lru' = <<k>> \o Without(lru, Evicted(old))
       /\ session' = ShutDown(session, Evicted(old))
  /\ group' = [group EXCEPT ![i].key = k]
  /\ Remembered(h, k, i)

GroupFor(h, k, i) == FromCache(h, k, i) \/ FromMap(h, k, i) \/ NewGroup(h, k, i)

-----------------------------------------------------------------------------
(* async_request, async_request_callback.                                  *)

Start(r) ==
  /\ req[r].at = "idle"
  /\ \E h \in Threads, k \in shape.keys, i \in Ids :
       /\ GroupFor(h, k, i)
       /\ req' = [req EXCEPT ![r] = Caller("grouped", i)]
  /\ UNCHANGED <<shape, pre, calls>>

Least(m, n) == IF m <= n THEN m ELSE n

Target(current, inflight) ==
  CASE inflight >= High -> Least(Sessions, 4)
    [] inflight >= Mid /\ inflight < High -> Least(Sessions, 3)
    [] inflight >= Low /\ inflight < Mid -> Least(Sessions, 2)
    [] OTHER -> current

\* active_impl_count: what it may make of active_impls.  Under a moderate load
\* that depends on the time since the last change.
Decisions(current, inflight) ==
  LET target == Target(current, inflight)
  IN  CASE target <= current -> {current}
        [] target > current /\ inflight >= Mid -> {target}
        [] OTHER -> {current, Least(target, current + 1)}

\* inflight is counted, and active_impls changed under the lock.
Decide(r) ==
  LET i == req[r].id
      inflight == group[i].inflight + 1
      current == group[i].active
  IN  /\ req[r].at = "grouped"
      /\ \E next \in Decisions(current, inflight) :
           /\ group' = [group EXCEPT ![i].inflight = inflight, ![i].active = next]
           /\ req' = [req EXCEPT ![r] =
                [@ EXCEPT !.at = "decided", !.previous = current, !.active = next]]
      /\ UNCHANGED <<shape, groups, lru, session, cache, cursor, pre, calls>>

\* The first session of S, of the active ones in turn from start on.
FirstOf(active, start, S) ==
  LET order == [o \in 0..(active - 1) |-> (start + o) % active]
  IN  order[CHOOSE o \in 0..(active - 1) :
              order[o] \in S /\ \A p \in 0..(o - 1) : order[p] \notin S]

\* choose_impl_index: which sessions may be chosen.  Those with half of their slots
\* free, else those with the most free slots, else those that are connecting, else
\* those that are connected, else the one at start.
Candidates(i, active, start) ==
  LET inUse == 0..(active - 1)
      slots(x) == AvailableSlots(i, x)
      half == {x \in inUse : slots(x) > 0 /\ slots(x) >= MaxStreams \div 2}
      most == {x \in inUse : slots(x) > 0 /\ \A y \in inUse : slots(y) <= slots(x)}
      connecting == {x \in inUse : session[i][x].link = "connecting"}
      connected == {x \in inUse : session[i][x].link = "up" /\ ~session[i][x].stopping}
  IN  CASE half # {} -> half
        [] half = {} /\ most # {} -> most
        [] most = {} /\ connecting # {} -> connecting
        [] most = {} /\ connecting = {} /\ connected # {} -> connected
        [] OTHER -> {start}

Choice(i, active, start) == FirstOf(active, start, Candidates(i, active, start))

\* prewarm_active_impls, then the choice, then the post to the strand.
Route(r) ==
  LET i == req[r].id
      new == {x \in Indices : req[r].previous <= x /\ x < req[r].active /\ Idle(i, x)}
  IN  /\ req[r].at = "decided"
      /\ session' = Ask(session, i, new, "preconnect")
      /\ \E start \in 0..(req[r].active - 1) :
           req' = [req EXCEPT ![r] =
             [Caller("posted", i) EXCEPT !.idx = Choice(i, req[r].active, start)]]
      /\ UNCHANGED <<shape, groups, lru, group, cache, cursor, pre, calls>>

\* The answer, or the exception, reaches the caller: inflight is given back.
End(r) ==
  /\ req' = [req EXCEPT ![r] = Caller("done", None)]
  /\ group' = [group EXCEPT ![req[r].id].inflight = @ - 1]

-----------------------------------------------------------------------------
(* On the strand of a session.                                             *)

SetLink(i, x, link) == session' = [session EXCEPT ![i][x].link = link]

\* acquire_stream_slot.
AfterConnect(r) ==
  LET i == req[r].id  x == req[r].idx IN
  \/ session[i][x].stopping /\ End(r)
  \/ /\ ~session[i][x].stopping
     /\ req' = [req EXCEPT ![r].at =
          IF ActiveStreams(i, x) < MaxStreams THEN "streaming" ELSE "slot"]
     /\ UNCHANGED group

\* ensure_connected, which a session that has stopped runs too.
Arrive(r) ==
  LET i == req[r].id  x == req[r].idx IN
  /\ req[r].at = "posted"
  /\ \/ /\ session[i][x].link = "up"
        /\ AfterConnect(r)
        /\ UNCHANGED session
     \/ /\ session[i][x].link # "up"
        /\ SetLink(i, x, "connecting")
        /\ req' = [req EXCEPT ![r].at = "connecting"]
        /\ UNCHANGED group
  /\ UNCHANGED <<shape, groups, lru, cache, cursor, pre, calls>>

\* Mutant: a connect that fails wakes nobody.
ConnectEndsSilently(i, x) ==
  /\ i \in Ids /\ x \in Indices
  /\ session[i][x].link = "connecting"
  /\ \E link \in {"up", "down"} :
       /\ SetLink(i, x, link)
       /\ req' = [r \in Requests |-> IF link = "up" /\ r \in On(i, x, {"connecting"})
                                     THEN [req[r] EXCEPT !.at = "woken"] ELSE req[r]]
  /\ UNCHANGED <<shape, groups, lru, group, cache, cursor, pre, calls>>

\* The connect of a session ends, well or not, and its waiters are woken.
ConnectEnds(i, x) ==
  /\ i \in Ids /\ x \in Indices
  /\ session[i][x].link = "connecting"
  /\ \E link \in {"up", "down"} : SetLink(i, x, link)
  /\ req' = [r \in Requests |-> IF r \in On(i, x, {"connecting"})
                                THEN [req[r] EXCEPT !.at = "woken"] ELSE req[r]]
  /\ UNCHANGED <<shape, groups, lru, group, cache, cursor, pre, calls>>

\* A waiter that does not find the session connected throws.
Proceed(r) ==
  /\ req[r].at = "woken"
  /\ IF session[req[r].id][req[r].idx].link = "up" THEN AfterConnect(r) ELSE End(r)
  /\ UNCHANGED <<shape, groups, lru, session, cache, cursor, pre, calls>>

\* A slot waiter looks again.  H2Session has stream_waiters_ and its wake-ups, one
\* for each slot that is released; here a waiter may be woken whenever a slot is
\* free, in any order, and need not be woken at all, unless the session stops:
\* wake_all_stream_waiters leaves nobody asleep.
TakeSlot(r) ==
  LET i == req[r].id  x == req[r].idx IN
  /\ req[r].at = "slot"
  /\ session[i][x].stopping \/ ActiveStreams(i, x) < MaxStreams
  /\ AfterConnect(r)
  /\ UNCHANGED <<shape, groups, lru, session, cache, cursor, pre, calls>>

\* It gives up: h2 stream slot timeout, or it was cancelled.
SlotWaitEnds(r) ==
  /\ req[r].at = "slot"
  /\ End(r)
  /\ UNCHANGED <<shape, groups, lru, session, cache, cursor, pre, calls>>

Answer(r) ==
  /\ req[r].at = "streaming"
  /\ End(r)
  /\ UNCHANGED <<shape, groups, lru, session, cache, cursor, pre, calls>>

\* Mutant: a stream that fails does not give back its place in inflight.
CloseKeepsInflight(i, x, how) ==
  /\ req' = [r \in Requests |->
       CASE r \in On(i, x, {"streaming"}) -> Caller(how, None)
         [] r \in On(i, x, {"connecting"}) -> [req[r] EXCEPT !.at = "woken"]
         [] OTHER -> req[r]]
  /\ UNCHANGED group

\* The connection of the session goes: its streams end, who waits for it to
\* connect will throw, who waits for a slot looks again.
Close(i, x, how) ==
  LET ending == On(i, x, {"streaming"})
  IN  /\ req' = [r \in Requests |->
           CASE r \in ending -> Caller(how, None)
             [] r \in On(i, x, {"connecting"}) -> [req[r] EXCEPT !.at = "woken"]
             [] OTHER -> req[r]]
      /\ group' = [group EXCEPT ![i].inflight = @ - Cardinality(ending)]

\* A read or a write fails: shutdown_now, and the session has stopped for good.
Break(i, x) ==
  /\ shape.breaks /\ session[i][x].link = "up" /\ ~session[i][x].stopping
  /\ Close(i, x, "done")
  /\ session' = [session EXCEPT ![i][x].link = "down", ![i][x].stopping = TRUE]
  /\ UNCHANGED <<shape, groups, lru, cache, cursor, pre, calls>>

\* Mutant: the session is not asked again whether it is idle.
ResetsUnasked(i, x, what) == what \in {"reset", "reset_if_idle"} /\ ~session[i][x].stopping

\* reset_now does something; for request_reset_if_idle the session must still
\* be idle when the call runs.
Resets(i, x, what) ==
  /\ ~session[i][x].stopping
  /\ what = "reset" \/ (what = "reset_if_idle" /\ Idle(i, x))

\* A call posted to the strand runs: shutdown_now, request_reset_if_idle,
\* reset or preconnect.
RunAsk(i, x, what) ==
  LET s == session[i][x]
      ran == [s EXCEPT !.asks = @ \ {what}]
      resets == Resets(i, x, what)
  IN  /\ what \in s.asks
      /\ \/ /\ what = "shutdown"
            /\ Close(i, x, "done")
            /\ session' = [session EXCEPT ![i][x] =
                 [ran EXCEPT !.link = "down", !.stopping = TRUE]]
         \/ /\ resets
            /\ Close(i, x, "reset")
            /\ session' = [session EXCEPT ![i][x] = [ran EXCEPT !.link = "down"]]
         \/ /\ what = "preconnect"
            /\ session' = [session EXCEPT ![i][x] =
                 [ran EXCEPT !.link = IF @ = "down" THEN "connecting" ELSE @]]
            /\ UNCHANGED <<req, group>>
         \/ /\ \/ what \in {"reset", "reset_if_idle"} /\ ~resets
               \/ what = "shutdown" /\ s.stopping /\ s.link # "up"
            /\ session' = [session EXCEPT ![i][x] = ran]
            /\ UNCHANGED <<req, group>>
      /\ UNCHANGED <<shape, groups, lru, cache, cursor, pre, calls>>

-----------------------------------------------------------------------------
(* Maintenance and the calls on the whole client.                          *)

MayScaleDown(i) == InMap(i) /\ group[i].inflight <= BusyLoad /\ group[i].active > 1

\* run_maintenance: the groups that have been quiet for auto_scale_down_idle_ttl
\* use one session less, and the idle sessions beyond are told to close; then
\* eviction.
RunMaintenance ==
  \E quiet \in SUBSET {i \in Ids : MayScaleDown(i)}, old \in 0..Len(lru) :
    /\ group' = [i \in Ids |->
         IF i \in quiet THEN [group[i] EXCEPT !.active = @ - 1] ELSE group[i]]
    /\ session' = ShutDown([i \in Ids |-> [x \in Indices |->
         IF i \in quiet /\ x >= group[i].active - 1 /\ Idle(i, x)
         THEN [session[i][x] EXCEPT !.asks = @ \cup {"reset_if_idle"}] ELSE session[i][x]]],
         Evicted(old))
    /\ groups' = [k \in Keys |-> IF k \in Evicted(old) THEN None ELSE groups[k]]
    /\ lru' = Without(lru, Evicted(old))
    /\ UNCHANGED <<shape, cache, cursor, req, pre, calls>>

\* The last one to hold an evicted group lets go of it: its sessions are
\* destroyed, and the weak pointers to it expire.
Destroy(i) ==
  /\ group[i].key # None /\ ~Alive(i)
  /\ group' = [group EXCEPT ![i] = NoGroup]
  /\ session' = [session EXCEPT ![i] = [x \in Indices |-> NewSession]]
  /\ cache' = [h \in Threads |-> [e \in DOMAIN cache[h] |->
                IF cache[h][e].id = i THEN NoEntry ELSE cache[h][e]]]
  /\ UNCHANGED <<shape, groups, lru, cursor, req, pre, calls>>

Called(what) ==
  /\ what \notin calls /\ Cardinality(calls) < MaxCalls
  /\ calls' = calls \cup {what}

\* preconnect reads active_impls and stores it later, without the lock.
PreconnectStart(target) ==
  /\ pre = NoCall /\ Called("preconnect")
  /\ \E h \in Threads, k \in shape.keys, i \in Ids :
       /\ GroupFor(h, k, i)
       /\ pre' = [id |-> i, target |-> target, store |-> target > group[i].active]
  /\ UNCHANGED <<shape, req>>

PreconnectStore ==
  /\ pre # NoCall
  /\ group' = [group EXCEPT ![pre.id].active = IF pre.store THEN pre.target ELSE @]
  /\ session' = Ask(session, pre.id, {x \in Indices : x < pre.target}, "preconnect")
  /\ pre' = NoCall
  /\ UNCHANGED <<shape, groups, lru, cache, cursor, req, calls>>

\* reset_connections, and shutdown, of every session in the map.
CallAll(what) ==
  /\ Called(what)
  /\ session' = [i \in Ids |-> [x \in Indices |->
       IF InMap(i) THEN [session[i][x] EXCEPT !.asks = @ \cup {what}] ELSE session[i][x]]]
  /\ UNCHANGED <<shape, groups, lru, group, cache, cursor, req, pre>>

ResetConnections == CallAll("reset")
Shutdown == CallAll("shutdown")

Next ==
  \/ \E r \in Requests :
       \/ Start(r) \/ Decide(r) \/ Route(r) \/ Arrive(r) \/ Proceed(r)
       \/ TakeSlot(r) \/ SlotWaitEnds(r) \/ Answer(r)
  \/ \E i \in Ids, x \in Indices :
       ConnectEnds(i, x) \/ Break(i, x) \/ \E what \in Asks : RunAsk(i, x, what)
  \/ RunMaintenance \/ ResetConnections \/ Shutdown \/ PreconnectStore
  \/ \E target \in 1..Sessions : PreconnectStart(target)
  \/ \E i \in Ids : Destroy(i)

\* Stopped sessions send their slot waiters away.
TurnedAway(r) == req[r].at = "slot" /\ session[req[r].id][req[r].idx].stopping /\ TakeSlot(r)

\* Callers and strands run, and streams are answered or reach their deadline.
\* Nothing makes a connect end (ensure_connected sets no timer) or a slot free up.
Fairness ==
  \A r \in Requests :
    WF_vars(Decide(r) \/ Route(r) \/ Arrive(r) \/ Proceed(r) \/ TurnedAway(r) \/ Answer(r))

Spec == Init /\ [][Next]_vars /\ Fairness

-----------------------------------------------------------------------------
(* Properties.                                                             *)

Mapped == {k \in Keys : groups[k] # None}

InflightExact ==
  \A i \in Ids :
    group[i].inflight = Cardinality({r \in Holders(i) : req[r].at # "grouped"})
ActiveInRange == \A i \in Ids : group[i].active \in 1..Sessions
ListMatchesMap == Len(lru) = Cardinality(Mapped) /\ {lru[n] : n \in DOMAIN lru} = Mapped

\* The books of the client: inflight counts exactly the requests between
\* active_impl_count and their answer, whatever ends them; the number of
\* sessions in use stays within the group, although preconnect stores it without
\* the lock; the list has exactly the keys of the map.
GroupAccounting == InflightExact /\ ActiveInRange /\ ListMatchesMap

\* A group that was evicted serves nobody: a request that still reaches one of
\* its sessions, from a thread's cache or because it was on its way, has no
\* stream there once the shutdown posted at the eviction has run.
EvictedGroupsServeNobody ==
  \A r \in Requests : req[r].at = "streaming" =>
    \/ InMap(req[r].id)
    \/ "shutdown" \in session[req[r].id][req[r].idx].asks

\* Scaling down closes sessions that a request may choose at the same moment:
\* no request loses its stream to a reset unless reset_connections was called.
ScaleDownHarmsNobody ==
  (\E r \in Requests : req[r].at = "reset") => "reset" \in calls

\* The limit on groups gives way only to groups in use: when a new group makes
\* more than max_session_groups, no other group that stays is idle.
LimitExceededOnlyWhenBusy ==
  [][Mapped' \ Mapped # {} /\ MaxGroups > 0 /\ Cardinality(Mapped') > MaxGroups
       => \A k \in Mapped \cap Mapped' : ~GroupIdle(groups[k])]_vars

\* The session of a request may hold it up: a connect that never comes back, or,
\* as long as the session lives, the wait for a slot (EveryRequestEnds of H2Session
\* says when that wait ends).
HeldUp(r) ==
  LET s == session[req[r].id][req[r].idx]
  IN  \/ req[r].at = "connecting" /\ s.link = "connecting"
      \/ req[r].at = "slot" /\ ~s.stopping

\* A request that was given a group ends, unless its session holds it up for ever:
\* no eviction, scaling, reset, shutdown, stale cache entry or stopped session on
\* its way leaves it where nobody will come for it.
RequestsEnd ==
  \A r \in Requests : <>[](req[r].at \in Ended \cup {"idle"} \/ HeldUp(r))
=============================================================================
