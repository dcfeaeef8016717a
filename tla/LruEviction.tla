---------------------------- MODULE LruEviction -----------------------------
(***************************************************************************)
(* The scan that both caches of origins make over their LRU list:          *)
(* evict_idle_origins of a shard (src/asio_http_client.cpp) and            *)
(* evict_session_groups_locked of H2Client (src/h2_client.cpp).  The list  *)
(* has the key used last at its head and is scanned from its end.          *)
(***************************************************************************)
EXTENDS Integers, Sequences, FiniteSets

\* The keys that a scan of lru removes.  A key is removed if it is idle and
\* either expired or one too many: limit is the number of keys from which on
\* there are too many.  The scan ends as soon as there are few enough, unless
\* it is periodic.
Removed(lru, idle, expired, limit, periodic) ==
  LET n == Len(lru)
      scan[i \in 0..n] ==
        IF i = 0 THEN [gone |-> {}, stop |-> FALSE]
        ELSE LET before == scan[i - 1]
                 key == lru[n + 1 - i]
                 size == n - Cardinality(before.gone)
             IN  CASE before.stop -> before
                   [] ~before.stop /\ key \in idle /\ (key \in expired \/ size >= limit) ->
                        [before EXCEPT !.gone = @ \cup {key}]
                   [] OTHER -> [before EXCEPT !.stop = ~periodic /\ size < limit]
  IN  scan[n].gone

\* SelectSeq of the keys that stay, written out for the proofs.
Without(lru, keys) ==
  LET kept[i \in 0..Len(lru)] ==
        IF i = 0 THEN <<>>
        ELSE IF lru[i] \in keys THEN kept[i - 1] ELSE Append(kept[i - 1], lru[i])
  IN  kept[Len(lru)]

\* splice: key becomes the one used last.
Touched(lru, key) == <<key>> \o Without(lru, {key})
=============================================================================
