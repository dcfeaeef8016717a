----------------------------- MODULE AutoShards -----------------------------
(***************************************************************************)
(* How many shards the H1 client uses (src/asio_http_client.cpp):          *)
(* active_auto_shards_, widened by the requests that are counted in        *)
(* (InflightGuard, maybe_expand_auto_shards) and by preconnect, each on    *)
(* its own thread, and narrowed by the maintenance of the first shard.     *)
(*                                                                         *)
(* Every load, store and compare-exchange is a step of its own.            *)
(* auto_scale_mu_ is held across steps only by the maintenance, between    *)
(* its load and its store; the other critical sections are one step.  Of a *)
(* point in time only "less than an interval ago" is kept.  The options    *)
(* are those of RuntimeProfile::Auto (auto_shards, stripes).               *)
(***************************************************************************)
EXTENDS Integers, FiniteSets

CONSTANTS
  Guarded,    \* requests, each under its InflightGuard; one that ends is followed by another
  Warmers,    \* calls of preconnect
  N,          \* shards_.size()
  Wanted,     \* Wanted[n]: the window for n requests in flight (0: no opinion)
  Urgent,     \* from here on the interval does not hold a request back (128)
  Quiet       \* up to here the client counts as idle (8)

ASSUME ShardAssumption ==
  /\ IsFiniteSet(Guarded) /\ Guarded \cap Warmers = {}
  /\ N \in Nat \ {0, 1}
  /\ Wanted \in [1..Cardinality(Guarded) -> 0..N]
  /\ Urgent \in Nat /\ Quiet \in Nat /\ Quiet < Urgent

VARIABLES
  inflight,   \* global_inflight_
  window,     \* active_auto_shards_
  upLately,   \* now - last_auto_scale_up_ < auto_scale_up_interval
  busyLately, \* now - last_auto_busy_ < auto_scale_down_idle_ttl
  actor,      \* where each request and each preconnect is
  keeper      \* the maintenance of shards_.front()

shardVars == <<inflight, window, upLately, busyLately, actor, keeper>>

Actors == Guarded \cup Warmers

Away == [pc |-> "away", target |-> 0, urgent |-> FALSE, current |-> 0]
Running == [pc |-> "running", target |-> 0, urgent |-> FALSE, current |-> 0]
Asleep == [pc |-> "asleep", current |-> 0]

ShardInit ==
  /\ inflight = 0 /\ window = 1
  /\ upLately = FALSE /\ busyLately = TRUE
  /\ actor = [a \in Actors |-> Away]
  /\ keeper = Asleep

Locked == keeper.pc = "store"

-----------------------------------------------------------------------------

\* InflightGuard: the request is counted; what it wants follows from the count.
CountIn(r) ==
  /\ r \in Guarded /\ actor[r].pc = "away"
  /\ inflight' = inflight + 1
  /\ actor' = [actor EXCEPT ![r] =
       [pc |-> "counted", target |-> Wanted[inflight + 1],
        urgent |-> inflight + 1 >= Urgent, current |-> 0]]
  /\ UNCHANGED <<window, upLately, busyLately, keeper>>

\* preconnect wants a shard for each connection, as far as there are shards.
Warm(w) ==
  /\ w \in Warmers /\ actor[w].pc = "away"
  /\ \E count \in 1..N :
       actor' = [actor EXCEPT ![w] =
         [pc |-> "counted", target |-> count, urgent |-> TRUE, current |-> 0]]
  /\ UNCHANGED <<inflight, window, upLately, busyLately, keeper>>

\* The load.  Nothing to widen, or on to the interval and the exchange.
Load(a) ==
  /\ actor[a].pc = "counted"
  /\ actor' = [actor EXCEPT ![a] =
       IF @.target <= window THEN Running
       ELSE IF @.urgent THEN [@ EXCEPT !.pc = "swap", !.current = window]
                        ELSE [@ EXCEPT !.pc = "spaced", !.current = window]]
  /\ UNCHANGED <<inflight, window, upLately, busyLately, keeper>>

\* Under the mutex: less than an interval after another request widened the
\* window this one does not.
Space(a) ==
  /\ actor[a].pc = "spaced" /\ ~Locked
  /\ upLately' = TRUE
  /\ actor' = [actor EXCEPT ![a] =
       IF upLately THEN Running ELSE [@ EXCEPT !.pc = "swap"]]
  /\ UNCHANGED <<inflight, window, busyLately, keeper>>

\* Mutant: a store in place of the exchange.
SwapBlindly(a) ==
  /\ actor[a].pc = "swap"
  /\ window' = actor[a].target
  /\ actor' = [actor EXCEPT ![a] = Running]
  /\ UNCHANGED <<inflight, upLately, busyLately, keeper>>

\* compare_exchange_weak in its loop: a failure loads what is there.
Swap(a) ==
  LET same == window = actor[a].current
  IN  /\ actor[a].pc = "swap"
      /\ window' = IF same THEN actor[a].target ELSE window
      /\ actor' = [actor EXCEPT ![a] =
           IF same \/ @.target <= window THEN Running ELSE [@ EXCEPT !.current = window]]
      /\ UNCHANGED <<inflight, upLately, busyLately, keeper>>

\* The request is answered, and its guard counts it out.
Leave(a) ==
  /\ actor[a].pc = "running"
  /\ inflight' = IF a \in Guarded THEN inflight - 1 ELSE inflight
  /\ actor' = [actor EXCEPT ![a] = Away]
  /\ UNCHANGED <<window, upLately, busyLately, keeper>>

-----------------------------------------------------------------------------

\* run_maintenance: the load of global_inflight_, before the mutex.
Look ==
  /\ keeper.pc = "asleep"
  /\ keeper' = [pc |-> "looked", current |-> inflight]
  /\ UNCHANGED <<inflight, window, upLately, busyLately, actor>>

\* Mutant: the load does not matter.
NarrowAnyway ==
  /\ keeper.pc = "looked"
  /\ IF window > 1 THEN keeper' = [pc |-> "store", current |-> window] ELSE keeper' = Asleep
  /\ UNCHANGED <<inflight, window, upLately, busyLately, actor>>

\* Under the mutex: busy now, or lately, or on to the store.
Consider ==
  /\ keeper.pc = "looked"
  /\ busyLately' = (busyLately \/ keeper.current > Quiet)
  /\ IF keeper.current <= Quiet /\ ~busyLately /\ window > 1
       THEN keeper' = [pc |-> "store", current |-> window]
       ELSE keeper' = Asleep
  /\ UNCHANGED <<inflight, window, upLately, actor>>

\* The store, whatever was exchanged since the load.
Narrow ==
  /\ Locked
  /\ window' = IF keeper.current \div 2 > 1 THEN keeper.current \div 2 ELSE 1
  /\ busyLately' = TRUE
  /\ keeper' = Asleep
  /\ UNCHANGED <<inflight, upLately, actor>>

\* auto_scale_up_interval, auto_scale_down_idle_ttl pass.
UpIntervalOver ==
  /\ upLately /\ upLately' = FALSE
  /\ UNCHANGED <<inflight, window, busyLately, actor, keeper>>

IdleTtlOver ==
  /\ busyLately /\ busyLately' = FALSE
  /\ UNCHANGED <<inflight, window, upLately, actor, keeper>>

-----------------------------------------------------------------------------

Widen(a) == Load(a) \/ Space(a) \/ Swap(a)

Maintain == Look \/ Consider \/ Narrow

ShardNext ==
  \/ \E a \in Actors : CountIn(a) \/ Warm(a) \/ Widen(a) \/ Leave(a)
  \/ Maintain \/ UpIntervalOver \/ IdleTtlOver

\* The threads run, and the maintenance timer fires again and again.  Nobody has
\* to send a request, and none has to end.
ShardFairness == WF_shardVars(Maintain) /\ \A a \in Actors : WF_shardVars(Widen(a))

ShardSpec == ShardInit /\ [][ShardNext]_shardVars /\ ShardFairness

-----------------------------------------------------------------------------

\* Requests and preconnects, which act on what they loaded earlier, never narrow
\* the window that another one has widened since.
WideningNeverNarrows ==
  [][(\E a \in Actors : actor'[a] # actor[a]) => window' >= window]_shardVars

\* A window is narrowed without need at most once: the store of a maintenance that
\* looked before the load rose may undo the widening of a request, but as long as
\* the load stays urgent and requests keep coming, the next one widens the window
\* again, and it then stays wide.
LoadKeepsTheWindow ==
  (<>[](inflight >= Urgent) /\ []<><<\E r \in Guarded : CountIn(r)>>_shardVars)
    => <>[](window >= Wanted[Urgent])
=============================================================================
