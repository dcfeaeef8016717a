--------------------------- MODULE H2GroupProofs ----------------------------
(***************************************************************************)
(* Proofs about H2Group, for every number of origins, requests, sessions   *)
(* and threads and every limit.                                            *)
(*                                                                         *)
(* That an evicted group serves nobody is not inductive: a request may get *)
(* its stream long after the eviction.  Inv says of every session of a     *)
(* group that left the map that it has stopped or has a shutdown posted    *)
(* (Doomed), that a stopped one has no streams (Live), and that whoever    *)
(* holds a group keeps it from being destroyed and its number from being   *)
(* used again (Known).  Only reset_connections posts a reset that does not *)
(* look whether the session is idle (Asked).                               *)
(***************************************************************************)
EXTENDS H2Group, FiniteSetTheorems, NaturalsInduction, WellFoundedInduction, TLAPS

-----------------------------------------------------------------------------
(* The inductive invariant.                                                 *)

SessionRecord ==
  [link : {"down", "connecting", "up"}, stopping : BOOLEAN, asks : SUBSET Asks]
GroupRecord == [key : Keys \cup {None}, inflight : Int, active : 1..Sessions]
Away == {"idle"} \cup Ended
Places == {"grouped", "decided", "posted", "connecting", "woken", "slot", "streaming"} \cup Away
CallRecord ==
  [at : Places, id : Ids \cup {None}, idx : Indices, active : 1..Sessions, previous : 1..Sessions]
PreRecord == [id : Ids \cup {None}, target : 0..Sessions, store : BOOLEAN]

Types ==
  /\ shape \in Shapes
  /\ groups \in [Keys -> Ids \cup {None}]
  /\ group \in [Ids -> GroupRecord]
  /\ session \in [Ids -> [Indices -> SessionRecord]]
  /\ req \in [Requests -> CallRecord]
  /\ pre \in PreRecord

\* A group that is in the map, or that a request or preconnect holds, exists.
Exists(i) == i \in Ids /\ group[i].key # None
MapKnown == \A k \in Keys : groups[k] # None => Exists(groups[k])
CallsKnown ==
  \A r \in Requests : IF req[r].at \in Away THEN req[r].id = None ELSE Exists(req[r].id)
PreKnown == pre # NoCall => Exists(pre.id) /\ pre.target \in 1..Sessions
Known == MapKnown /\ CallsKnown /\ PreKnown

\* Every session of a group that has left the map has stopped, or will be told to.
Doomed ==
  \A i \in Ids : group[i].key # None /\ ~InMap(i) =>
    \A x \in Indices : session[i][x].stopping \/ "shutdown" \in session[i][x].asks

\* Nobody has a stream on a session that has stopped.
Live ==
  \A r \in Requests : req[r].at = "streaming" => ~session[req[r].id][req[r].idx].stopping

\* Only reset_connections tells a busy session to reset.
Asked ==
  /\ \A i \in Ids, x \in Indices : "reset" \in session[i][x].asks => "reset" \in calls
  /\ \A r \in Requests : req[r].at = "reset" => "reset" \in calls

Inv == Types /\ Known /\ Doomed /\ Live /\ Asked /\ InflightExact

-----------------------------------------------------------------------------
(* The operators of the model.                                              *)

LEMMA LeastNumber ==
  ASSUME NEW S, S \subseteq Nat, S # {}
  PROVE  \E n \in S : \A m \in S : n <= m
<1>1. IsWellFoundedOn(OpToRel(<, Nat), Nat)
  BY NatLessThanWellFounded
<1>2. \E n \in S : \A m \in S : ~(<<m, n>> \in OpToRel(<, Nat))
  BY <1>1, WFMin
<1>3. OpToRel(<, Nat) = {p \in Nat \X Nat : p[1] < p[2]}
  BY Zenon DEF OpToRel
<1>4. PICK n \in S : \A m \in S : ~(<<m, n>> \in {p \in Nat \X Nat : p[1] < p[2]})
  BY <1>2, <1>3
<1>5. ASSUME NEW m \in S PROVE n <= m
  <2>1. m \in Nat /\ n \in Nat
    OBVIOUS
  <2>2. ~(m < n)
    BY <1>4, <1>5, <2>1
  <2> QED
    BY <2>1, <2>2
<1> QED
  BY <1>5

\* From any start, going round the active sessions reaches each of them.
LEMMA Round ==
  ASSUME NEW a \in Nat, NEW start \in 0..(a - 1), NEW x \in 0..(a - 1)
  PROVE  \E o \in 0..(a - 1) : (start + o) % a = x
<1>1. CASE start <= x
  <2>1. x - start \in 0..(a - 1) /\ start + (x - start) = x /\ x % a = x
    BY <1>1
  <2> QED
    BY <2>1
<1>2. CASE start > x
  <2>1. x + a - start \in 0..(a - 1) /\ start + (x + a - start) = x + a /\ (x + a) % a = x
    BY <1>2
  <2> QED
    BY <2>1
<1> QED
  BY <1>1, <1>2

\* FirstOf returns one of the sessions it was given.
LEMMA FirstOfType ==
  ASSUME NEW a \in Nat, NEW start \in 0..(a - 1), NEW S \in SUBSET (0..(a - 1)), S # {}
  PROVE  FirstOf(a, start, S) \in S
<1> DEFINE order == [o \in 0..(a - 1) |-> (start + o) % a]
           O == {o \in 0..(a - 1) : order[o] \in S}
           P(o) == order[o] \in S /\ \A p \in 0..(o - 1) : order[p] \notin S
<1>1. PICK x \in S : TRUE
  OBVIOUS
<1>2. PICK at \in 0..(a - 1) : (start + at) % a = x
  BY <1>1, Round
<1>3. O # {} /\ O \subseteq Nat
  <2>1. order[at] = x
    BY <1>2
  <2>2. at \in O
    BY <1>1, <2>1
  <2>3. O \subseteq Nat
    OBVIOUS
  <2> QED
    BY <2>2, <2>3
<1>4. PICK n \in O : \A m \in O : n <= m
  <2> HIDE DEF O
  <2> QED
    BY <1>3, LeastNumber
<1>5. n \in 0..(a - 1) /\ order[n] \in S
  BY <1>4
<1>6. \A p \in 0..(n - 1) : order[p] \notin S
  <2> HIDE DEF order
  <2>1. SUFFICES ASSUME NEW p \in 0..(n - 1), order[p] \in S PROVE FALSE
    OBVIOUS
  <2>2. p \in 0..(a - 1) /\ ~(n <= p)
    BY <1>5, <2>1
  <2>3. p \in O
    BY <2>1, <2>2
  <2> QED
    BY <1>4, <2>2, <2>3
<1>7. FirstOf(a, start, S) = order[CHOOSE o \in 0..(a - 1) : P(o)]
  BY Zenon DEF FirstOf
<1>8. \E o \in 0..(a - 1) : P(o)
  BY <1>5, <1>6
<1> HIDE DEF order
<1>9. P(CHOOSE o \in 0..(a - 1) : P(o))
  <2> HIDE DEF P
  <2> QED
    BY <1>8
<1> QED
  BY <1>7, <1>9

\* choose_impl_index returns one of the sessions in use.
LEMMA ChoiceType ==
  ASSUME NEW i, NEW a \in Nat, NEW start \in 0..(a - 1)
  PROVE  Choice(i, a, start) \in 0..(a - 1)
<1> DEFINE S == Candidates(i, a, start)
<1>1. S \in SUBSET (0..(a - 1)) /\ S # {}
  BY DEF Candidates
<1> HIDE DEF S
<1> QED
  BY <1>1, FirstOfType DEF Choice, S

LEMMA ShapeFacts ==
  ASSUME shape \in Shapes
  PROVE  /\ Sessions \in Nat /\ Sessions >= 1 /\ shape.ids \in Nat
         /\ 0 \in Indices /\ None \notin Ids /\ None \notin Keys
         /\ shape.keys \subseteq Keys
         /\ \A i \in Ids : i \in Nat
         /\ \A a \in 1..Sessions : a \in Nat /\ \A x \in 0..(a - 1) : x \in Indices
BY GroupAssumption DEF Sessions, Indices, Ids, None

\* active_impl_count keeps the number of sessions in use within the group.
LEMMA DecisionsType ==
  ASSUME shape \in Shapes, NEW current \in 1..Sessions, NEW inflight \in Int,
         NEW next \in Decisions(current, inflight)
  PROVE  next \in 1..Sessions
<1>1. Sessions \in Nat /\ Sessions >= 1
  BY ShapeFacts
<1> DEFINE target == Target(current, inflight)
<1>2. target \in 1..Sessions
  BY <1>1, GroupAssumption DEF Target, Least
<1> HIDE DEF target
<1>3. Least(target, current + 1) \in 1..Sessions
  BY <1>1, <1>2 DEF Least
<1>4. next \in {current, target, Least(target, current + 1)}
  BY DEF Decisions, target
<1> QED
  BY <1>2, <1>3, <1>4

LEMMA SameShape ==
  ASSUME UNCHANGED shape
  PROVE  /\ Ids' = Ids /\ Indices' = Indices /\ Sessions' = Sessions
         /\ GroupRecord' = GroupRecord /\ CallRecord' = CallRecord /\ PreRecord' = PreRecord
BY DEF Ids, Indices, Sessions, GroupRecord, CallRecord, PreRecord

-----------------------------------------------------------------------------
(* The conjuncts of the invariant, each under the changes that keep it.     *)

\* The requests that inflight of group i counts.
In(q, i) == {r \in Requests : q[r].id = i /\ q[r].at \notin Ended \cup {"grouped"}}

LEMMA InFinite ==
  ASSUME NEW q, NEW i
  PROVE  IsFiniteSet(In(q, i)) /\ Cardinality(In(q, i)) \in Nat
BY GroupAssumption, FS_Subset, FS_CardinalityType DEF In

LEMMA InflightForm ==
  /\ InflightExact <=> \A i \in Ids : group[i].inflight = Cardinality(In(req, i))
  /\ InflightExact' <=> \A i \in Ids' : group'[i].inflight = Cardinality(In(req', i))
<1>1. \A i : {r \in Holders(i) : req[r].at # "grouped"} = In(req, i)
  BY DEF Holders, In
<1>2. \A i : {r \in Holders(i)' : req'[r].at # "grouped"} = In(req', i)
  BY DEF Holders, In
<1> QED
  BY <1>1, <1>2 DEF InflightExact

\* A call that moves within its group, or to another.
LEMMA InMove ==
  ASSUME req \in [Requests -> CallRecord], NEW r \in Requests, NEW c,
         req' = [req EXCEPT ![r] = c], NEW i
  PROVE  In(req', i) = IF c.id = i /\ c.at \notin Ended \cup {"grouped"}
                       THEN In(req, i) \cup {r} ELSE In(req, i) \ {r}
BY DEF In

\* What a step may do to the sessions without a look at the requests: nobody
\* stops, calls are posted, and none of them is a reset.
SessionsGrow ==
  /\ session' \in [Ids -> [Indices -> SessionRecord]]
  /\ \A i \in Ids, x \in Indices :
       /\ session'[i][x].stopping = session[i][x].stopping
       /\ session[i][x].asks \subseteq session'[i][x].asks
       /\ "reset" \in session'[i][x].asks => "reset" \in session[i][x].asks

LEMMA SessionsSame == Types /\ UNCHANGED session => SessionsGrow
BY DEF Types, SessionsGrow

LEMMA DoomedKept ==
  ASSUME Doomed, UNCHANGED <<shape, groups>>,
         \A i \in Ids : group'[i].key = group[i].key,
         \A i \in Ids, x \in Indices :
           /\ session[i][x].stopping => session'[i][x].stopping
           /\ "shutdown" \in session[i][x].asks =>
                "shutdown" \in session'[i][x].asks \/ session'[i][x].stopping
  PROVE  Doomed'
BY SameShape DEF Doomed, InMap

LEMMA KnownKept ==
  ASSUME Known, UNCHANGED <<shape, groups, pre>>,
         \A i \in Ids : group'[i].key = group[i].key
  PROVE  MapKnown' /\ PreKnown'
<1>1. MapKnown'
  BY SameShape DEF Known, MapKnown, Exists
<1>2. PreKnown'
  BY SameShape DEF Known, PreKnown, Exists
<1> QED
  BY <1>1, <1>2

\* A call that is counted goes on in its group.
LEMMA GoesOn ==
  ASSUME Inv, NEW r \in Requests, req[r].at \notin Away \cup {"grouped"},
         NEW c \in CallRecord, req' = [req EXCEPT ![r] = c],
         c.id = req[r].id, c.at \notin Away \cup {"grouped"},
         c.at = "streaming" => ~session[c.id][c.idx].stopping,
         SessionsGrow, UNCHANGED <<shape, groups, group, pre, calls>>
  PROVE  Inv'
<1>1. /\ Types /\ Known /\ Doomed /\ Live /\ Asked /\ InflightExact
  BY DEF Inv
<1>2. req \in [Requests -> CallRecord]
  BY <1>1 DEF Types
<1>3. req'[r] = c /\ \A q \in Requests \ {r} : req'[q] = req[q]
  BY <1>2
<1>4. Types'
  BY <1>1, SameShape DEF Types, SessionsGrow
<1>5. Known'
  <2>1. CallsKnown'
    BY <1>1, <1>3, SameShape DEF Known, CallsKnown, Exists
  <2> QED
    BY <1>1, <2>1, KnownKept DEF Known
<1>6. Doomed'
  BY <1>1, DoomedKept DEF SessionsGrow
<1>7. Live'
  <2>1. ASSUME NEW q \in Requests, req'[q].at = "streaming"
        PROVE  ~session'[req'[q].id][req'[q].idx].stopping
    <3>1. ~session[req'[q].id][req'[q].idx].stopping
      BY <1>1, <1>3, <2>1 DEF Live
    <3>2. req'[q].id \in Ids /\ req'[q].idx \in Indices
      <4>1. req'[q] \in CallRecord
        BY <1>2, <1>3
      <4>2. Exists(req[q].id)'
        BY <1>5, <2>1 DEF Known, CallsKnown, Away, Ended
      <4> QED
        BY <4>1, <4>2, SameShape DEF CallRecord, Exists
    <3> QED
      BY <3>1, <3>2 DEF SessionsGrow
  <2> QED
    BY <2>1 DEF Live
<1>8. Asked'
  BY <1>1, <1>3, SameShape DEF Asked, SessionsGrow, Away, Ended
<1>9. InflightExact'
  <2>1. \A i \in Ids : In(req', i) = In(req, i)
    <3>1. c.at \notin Ended \cup {"grouped"} /\ req[r].at \notin Ended \cup {"grouped"}
      BY DEF Away
    <3> QED
      BY <1>3, <3>1 DEF In
  <2> QED
    BY <1>1, <2>1, InflightForm, SameShape
<1> QED
  BY <1>4, <1>5, <1>6, <1>7, <1>8, <1>9 DEF Inv

LEMMA CallerType ==
  ASSUME shape \in Shapes, NEW at \in Places, NEW i \in Ids \cup {None}
  PROVE  /\ Caller(at, i) \in CallRecord
         /\ Caller(at, i).at = at /\ Caller(at, i).id = i
BY ShapeFacts DEF Caller, CallRecord

\* The answer, or the exception, of a call that is counted.
LEMMA Ends ==
  ASSUME Inv, NEW r \in Requests, req[r].at \notin Away \cup {"grouped"}, End(r),
         UNCHANGED <<shape, groups, session, pre, calls>>
  PROVE  Inv'
<1> DEFINE c == Caller("done", None)
           i == req[r].id
           g == [group[i] EXCEPT !.inflight = @ - 1]
<1>1. /\ Types /\ Known /\ Doomed /\ Live /\ Asked /\ InflightExact /\ shape \in Shapes
  BY DEF Inv, Types
<1>2. /\ req \in [Requests -> CallRecord] /\ group \in [Ids -> GroupRecord]
  BY <1>1 DEF Types
<1>3. i \in Ids /\ group[i] \in GroupRecord
  BY <1>1, <1>2 DEF Known, CallsKnown, Exists, Types
<1>4. c \in CallRecord /\ c.at = "done" /\ c.id = None
  BY <1>1, CallerType DEF Places, Away, Ended
<1>5. g \in GroupRecord /\ g.key = group[i].key /\ g.inflight = group[i].inflight - 1
  <2> HIDE DEF i
  <2> QED
    BY <1>3 DEF GroupRecord
<1>6. req' = [req EXCEPT ![r] = c] /\ group' = [group EXCEPT ![i] = g]
  BY DEF End
<1> HIDE DEF c, g, i
<1>7. req'[r] = c /\ \A q \in Requests \ {r} : req'[q] = req[q]
  BY <1>2, <1>6
<1>8. group'[i] = g /\ \A j \in Ids \ {i} : group'[j] = group[j]
  BY <1>2, <1>3, <1>6
<1>9. Types'
  <2>1. req' \in [Requests -> CallRecord] /\ group' \in [Ids -> GroupRecord]
    BY <1>2, <1>4, <1>5, <1>6
  <2> QED
    BY <1>1, <2>1, SameShape DEF Types
<1>10. \A j \in Ids : group'[j].key = group[j].key
  BY <1>5, <1>8
<1>11. Known'
  <2>1. CallsKnown'
    BY <1>1, <1>4, <1>7, <1>10, SameShape DEF Known, CallsKnown, Exists, Away, Ended
  <2> QED
    BY <1>1, <1>10, <2>1, KnownKept DEF Known
<1>12. Doomed'
  BY <1>1, <1>10, DoomedKept
<1>13. Live'
  BY <1>1, <1>4, <1>7 DEF Live
<1>14. Asked'
  BY <1>1, <1>4, <1>7, SameShape DEF Asked
<1>15. InflightExact'
  <2>1. r \in In(req, i)
    BY DEF In, Away, i
  <2>2. \A j \in Ids : In(req', j) = In(req, j) \ {r}
    BY <1>2, <1>4, <1>6, InMove DEF Ended
  <2>3. \A j \in Ids \ {i} : r \notin In(req, j)
    BY DEF In, i
  <2>4. Cardinality(In(req', i)) = Cardinality(In(req, i)) - 1
    BY <1>3, <2>1, <2>2, InFinite, FS_RemoveElement
  <2>5. \A j \in Ids \ {i} : In(req', j) = In(req, j)
    BY <2>2, <2>3
  <2> QED
    BY <1>1, <1>3, <1>5, <1>8, <2>4, <2>5, InflightForm, SameShape
<1> QED
  BY <1>9, <1>11, <1>12, <1>13, <1>14, <1>15 DEF Inv

-----------------------------------------------------------------------------
(* A step on the strand of one session.                                     *)

\* What the strand may do to its session s, leaving t: it does not start again
\* once stopped, forgets a shutdown only by stopping, and posts no reset.
Follows(s, t) ==
  /\ s.stopping => t.stopping
  /\ "shutdown" \in s.asks => "shutdown" \in t.asks \/ t.stopping
  /\ "reset" \in t.asks => "reset" \in s.asks

\* The waiters for a connect are woken, or nobody is.
LEMMA WakesSome ==
  ASSUME Inv, NEW i \in Ids, NEW x \in Indices, NEW s \in SessionRecord,
         session' = [session EXCEPT ![i][x] = s],
         Follows(session[i][x], s), s.stopping = session[i][x].stopping,
         req' \in [Requests -> CallRecord],
         \A r \in Requests :
           /\ req'[r].id = req[r].id /\ req'[r].idx = req[r].idx
           /\ \/ req'[r].at = req[r].at
              \/ req[r].at = "connecting" /\ req'[r].at = "woken",
         UNCHANGED <<shape, groups, group, pre, calls>>
  PROVE  Inv'
<1>1. /\ Types /\ Known /\ Doomed /\ Live /\ Asked /\ InflightExact
  BY DEF Inv
<1>2. /\ session' \in [Ids -> [Indices -> SessionRecord]]
      /\ session'[i][x] = s
      /\ \A j \in Ids, y \in Indices : j # i \/ y # x => session'[j][y] = session[j][y]
  <2>1. session \in [Ids -> [Indices -> SessionRecord]]
    BY <1>1 DEF Types
  <2> QED
    BY <2>1
<1>3. Types'
  BY <1>1, <1>2, SameShape DEF Types
<1>4. Known'
  <2>1. CallsKnown'
    BY <1>1, SameShape DEF Known, CallsKnown, Exists, Away, Ended
  <2> QED
    BY <1>1, <2>1, KnownKept DEF Known
<1>5. Doomed'
  BY <1>1, <1>2, DoomedKept DEF Follows
<1>6. Live'
  <2>1. ASSUME NEW r \in Requests, req'[r].at = "streaming"
        PROVE  ~session'[req'[r].id][req'[r].idx].stopping
    <3>1. req[r].at = "streaming" /\ req'[r].id = req[r].id /\ req'[r].idx = req[r].idx
      BY <2>1
    <3>2. ~session[req[r].id][req[r].idx].stopping
      BY <1>1, <3>1 DEF Live
    <3>3. req[r].id \in Ids /\ req[r].idx \in Indices
      <4>1. req[r] \in CallRecord
        BY <1>1 DEF Types
      <4>2. Exists(req[r].id)
        BY <1>1, <3>1 DEF Known, CallsKnown, Away, Ended
      <4> QED
        BY <4>1, <4>2 DEF CallRecord, Exists
    <3> QED
      BY <1>2, <3>1, <3>2, <3>3
  <2> QED
    BY <2>1 DEF Live
<1>7. Asked'
  BY <1>1, <1>2, SameShape DEF Asked, Follows
<1>8. InflightExact'
  <2>1. \A j \in Ids : In(req', j) = In(req, j)
    BY DEF In, Ended
  <2> QED
    BY <1>1, <2>1, InflightForm, SameShape
<1> QED
  BY <1>3, <1>4, <1>5, <1>6, <1>7, <1>8 DEF Inv

\* The connection of a session goes, and its streams with it.
LEMMA Closes ==
  ASSUME Inv, NEW i \in Ids, NEW x \in Indices, NEW s \in SessionRecord, NEW how \in Ended,
         session' = [session EXCEPT ![i][x] = s], Follows(session[i][x], s),
         Close(i, x, how),
         how = "reset" => "reset" \in calls \/ On(i, x, {"streaming"}) = {},
         UNCHANGED <<shape, groups, pre, calls>>
  PROVE  Inv'
<1> DEFINE ending == On(i, x, {"streaming"})
           waking == On(i, x, {"connecting"})
           g == [group[i] EXCEPT !.inflight = @ - Cardinality(ending)]
<1>1. /\ Types /\ Known /\ Doomed /\ Live /\ Asked /\ InflightExact /\ shape \in Shapes
  BY DEF Inv, Types
<1>2. /\ session' \in [Ids -> [Indices -> SessionRecord]]
      /\ session'[i][x] = s
      /\ \A j \in Ids, y \in Indices : j # i \/ y # x => session'[j][y] = session[j][y]
  <2>1. session \in [Ids -> [Indices -> SessionRecord]]
    BY <1>1 DEF Types
  <2> QED
    BY <2>1
<1>3. req \in [Requests -> CallRecord] /\ group \in [Ids -> GroupRecord]
  BY <1>1 DEF Types
<1>4. ending \subseteq In(req, i) /\ ending \cap waking = {} /\ ending \subseteq Requests
  BY DEF On, In, Ended
<1>5. IsFiniteSet(ending) /\ Cardinality(ending) \in Nat
  BY <1>4, InFinite, FS_Subset, FS_CardinalityType
<1>6. /\ g \in GroupRecord /\ g.key = group[i].key
      /\ g.inflight = group[i].inflight - Cardinality(ending)
  <2> HIDE DEF ending
  <2>1. group[i] \in GroupRecord
    BY <1>3
  <2> QED
    BY <1>5, <2>1 DEF GroupRecord
<1>7. group' = [group EXCEPT ![i] = g]
  BY DEF Close
<1>8. req' = [r \in Requests |->
           CASE r \in ending -> Caller(how, None)
             [] r \in waking -> [req[r] EXCEPT !.at = "woken"]
             [] OTHER -> req[r]]
  BY DEF Close
<1>9. Caller(how, None) \in CallRecord /\ Caller(how, None).at = how /\ Caller(how, None).id = None
  BY <1>1, CallerType DEF Places, Away
<1>10. ASSUME NEW r \in waking
       PROVE  LET c == [req[r] EXCEPT !.at = "woken"]
              IN  /\ c \in CallRecord /\ c.at = "woken"
                  /\ c.id = req[r].id /\ c.idx = req[r].idx
  <2>1. req[r] \in CallRecord
    BY <1>3 DEF On
  <2> QED
    BY <2>1 DEF CallRecord, Places
<1>w. \A r \in waking : req[r].at = "connecting"
  BY DEF On
<1>g. group'[i] = g /\ \A j \in Ids \ {i} : group'[j] = group[j]
  BY <1>3, <1>7
<1>e. \A r \in Requests : r \in ending <=>
        req[r].at = "streaming" /\ req[r].id = i /\ req[r].idx = x
  BY DEF On
<1> HIDE DEF ending, waking, g
<1>11. /\ \A r \in ending : req'[r] = Caller(how, None)
       /\ \A r \in waking : r \in Requests => req'[r] = [req[r] EXCEPT !.at = "woken"]
       /\ \A r \in Requests \ (ending \cup waking) : req'[r] = req[r]
  BY <1>4, <1>8
<1>12. ASSUME NEW r \in Requests \ ending
       PROVE  /\ req'[r] \in CallRecord
              /\ req'[r].id = req[r].id /\ req'[r].idx = req[r].idx
              /\ \/ req'[r].at = req[r].at
                 \/ req[r].at = "connecting" /\ req'[r].at = "woken"
  <2>1. CASE r \in waking
    BY <1>10, <1>11, <1>w, <2>1
  <2>2. CASE r \notin waking
    BY <1>3, <1>11, <2>2
  <2> QED
    BY <2>1, <2>2
<1>13. ASSUME NEW r \in ending
       PROVE  req'[r] \in CallRecord /\ req'[r].at = how /\ req'[r].id = None
  BY <1>9, <1>11
<1>14. Types'
  <2>1. req' \in [Requests -> CallRecord]
    <3>1. \A r \in Requests : req'[r] \in CallRecord
      BY <1>12, <1>13
    <3> QED
      BY <1>8, <3>1
  <2>2. group' \in [Ids -> GroupRecord]
    BY <1>3, <1>6, <1>7
  <2> QED
    BY <1>1, <1>2, <2>1, <2>2, SameShape DEF Types
<1>15. \A j \in Ids : group'[j].key = group[j].key
  BY <1>6, <1>g
<1>16. Known'
  <2>1. CallsKnown'
    <3>1. ASSUME NEW r \in Requests
          PROVE  IF req'[r].at \in Away THEN req'[r].id = None
                 ELSE req'[r].id \in Ids /\ group'[req'[r].id].key # None
      <4>1. CASE r \in ending
        BY <1>13, <4>1 DEF Away
      <4>2. CASE r \notin ending
        BY <1>1, <1>12, <1>15, <4>2 DEF Known, CallsKnown, Exists, Away, Ended
      <4> QED
        BY <4>1, <4>2
    <3> QED
      BY <3>1, SameShape DEF CallsKnown, Exists
  <2> QED
    BY <1>1, <1>15, <2>1, KnownKept DEF Known
<1>17. Doomed'
  BY <1>1, <1>2, <1>15, DoomedKept DEF Follows
<1>18. Live'
  <2>1. ASSUME NEW r \in Requests, req'[r].at = "streaming"
        PROVE  ~session'[req'[r].id][req'[r].idx].stopping
    <3>1. r \notin ending
      BY <1>13, <2>1 DEF Ended
    <3>2. req[r].at = "streaming" /\ req'[r].id = req[r].id /\ req'[r].idx = req[r].idx
      BY <1>12, <2>1, <3>1
    <3>3. ~session[req[r].id][req[r].idx].stopping
      BY <1>1, <3>2 DEF Live
    <3>4. req[r].id \in Ids /\ req[r].idx \in Indices
      <4>1. req[r] \in CallRecord
        BY <1>1 DEF Types
      <4>2. Exists(req[r].id)
        BY <1>1, <3>2 DEF Known, CallsKnown, Away, Ended
      <4> QED
        BY <4>1, <4>2 DEF CallRecord, Exists
    <3>5. req[r].id # i \/ req[r].idx # x
      BY <1>e, <3>1, <3>2
    <3> QED
      BY <1>2, <3>2, <3>3, <3>4, <3>5
  <2> QED
    BY <2>1 DEF Live
<1>19. Asked'
  <2>1. \A r \in Requests : req'[r].at = "reset" => "reset" \in calls
    BY <1>1, <1>12, <1>13 DEF Asked, ending
  <2>2. \A j \in Ids, y \in Indices : "reset" \in session'[j][y].asks => "reset" \in calls
    BY <1>1, <1>2 DEF Asked, Follows
  <2> QED
    BY <2>1, <2>2, SameShape DEF Asked
<1>20. InflightExact'
  <2>1. \A j \in Ids : In(req', j) = In(req, j) \ ending
    <3>1. ASSUME NEW j \in Ids, NEW r \in Requests
          PROVE  r \in In(req', j) <=> r \in In(req, j) /\ r \notin ending
      <4>1. CASE r \in ending
        BY <1>13, <4>1 DEF In
      <4>2. CASE r \notin ending
        BY <1>12, <4>2 DEF In, Ended
      <4> QED
        BY <4>1, <4>2
    <3> QED
      BY <3>1 DEF In
  <2>2. In(req, i) \cap ending = ending
    BY <1>4
  <2>3. Cardinality(In(req', i)) = Cardinality(In(req, i)) - Cardinality(ending)
    BY <1>5, <2>1, <2>2, InFinite, FS_Difference
  <2>4. \A j \in Ids \ {i} : In(req', j) = In(req, j)
    BY <1>4, <2>1 DEF In
  <2> QED
    BY <1>1, <1>6, <1>g, <2>3, <2>4, InflightForm, SameShape
<1> QED
  BY <1>14, <1>16, <1>17, <1>18, <1>19, <1>20 DEF Inv

-----------------------------------------------------------------------------
(* The actions of requests and strands.                                     *)

\* A call posted to some sessions of a group.
LEMMA AskGrows ==
  ASSUME Types, NEW i \in Ids, NEW xs, NEW what \in Asks \ {"reset"},
         session' = Ask(session, i, xs, what)
  PROVE  SessionsGrow
<1>1. session \in [Ids -> [Indices -> SessionRecord]]
  BY DEF Types
<1>2. ASSUME NEW x \in Indices
      PROVE  LET s == session[i][x]
                 t == [s EXCEPT !.asks = @ \cup {what}]
             IN  /\ t \in SessionRecord /\ t.stopping = s.stopping
                 /\ t.asks = s.asks \cup {what}
  <2> DEFINE s == session[i][x]
  <2>1. s \in SessionRecord
    BY <1>1
  <2> HIDE DEF s
  <2>2. LET t == [s EXCEPT !.asks = @ \cup {what}]
        IN  t \in SessionRecord /\ t.stopping = s.stopping /\ t.asks = s.asks \cup {what}
    BY <2>1 DEF SessionRecord
  <2> QED
    BY <2>2 DEF s
<1>3. /\ \A x \in Indices : session'[i][x] =
           IF x \in xs THEN [session[i][x] EXCEPT !.asks = @ \cup {what}] ELSE session[i][x]
      /\ session' = [session EXCEPT ![i] = session'[i]]
      /\ session'[i] = [x \in Indices |-> session'[i][x]]
  BY <1>1 DEF Ask
<1>4. \A j \in Ids \ {i} : session'[j] = session[j]
  BY <1>1, <1>3
<1>5. session' \in [Ids -> [Indices -> SessionRecord]]
  <2>1. ASSUME NEW x \in Indices PROVE session'[i][x] \in SessionRecord
    <3>1. [session[i][x] EXCEPT !.asks = @ \cup {what}] \in SessionRecord
      BY <1>2
    <3>2. session[i][x] \in SessionRecord
      BY <1>1
    <3> QED
      BY <1>3, <3>1, <3>2, Zenon
  <2>2. session'[i] \in [Indices -> SessionRecord]
    BY <1>3, <2>1
  <2> DEFINE f == session'[i]
  <2>3. session' = [session EXCEPT ![i] = f] /\ f \in [Indices -> SessionRecord]
    BY <1>3, <2>2
  <2> HIDE DEF f
  <2> QED
    BY <1>1, <2>3
<1>6. ASSUME NEW j \in Ids, NEW x \in Indices
      PROVE  /\ session'[j][x].stopping = session[j][x].stopping
             /\ session[j][x].asks \subseteq session'[j][x].asks
             /\ "reset" \in session'[j][x].asks => "reset" \in session[j][x].asks
  <2>1. CASE j = i /\ x \in xs
    <3> DEFINE t == [session[i][x] EXCEPT !.asks = @ \cup {what}]
    <3>1. t.stopping = session[i][x].stopping /\ t.asks = session[i][x].asks \cup {what}
      BY <1>2
    <3>2. session'[i][x] = t
      BY <1>3, <2>1
    <3> HIDE DEF t
    <3>3. what # "reset"
      OBVIOUS
    <3> QED
      BY <2>1, <3>1, <3>2, <3>3
  <2>2. CASE j # i \/ x \notin xs
    BY <1>3, <1>4, <2>2
  <2> QED
    BY <2>1, <2>2
<1> QED
  BY <1>5, <1>6 DEF SessionsGrow

\* inflight and active_impls of a group change under its lock.
LEMMA DecideInv ==
  ASSUME Inv, NEW r \in Requests, Decide(r)
  PROVE  Inv'
<1> DEFINE i == req[r].id
           n == group[i].inflight + 1
<1>1. /\ Types /\ Known /\ Doomed /\ Live /\ Asked /\ InflightExact /\ shape \in Shapes
      /\ req \in [Requests -> CallRecord] /\ group \in [Ids -> GroupRecord]
  BY DEF Inv, Types
<1>2. req[r].at = "grouped" /\ UNCHANGED <<shape, groups, session, pre, calls>>
  BY DEF Decide
<1>3. i \in Ids /\ group[i].key # None /\ group[i] \in GroupRecord /\ req[r] \in CallRecord
  BY <1>1, <1>2 DEF Known, CallsKnown, Exists, Away, Ended
<1>4. group[i].inflight \in Int /\ group[i].active \in 1..Sessions
  <2>1. \A g \in GroupRecord : g.inflight \in Int /\ g.active \in 1..Sessions
    BY SMTT(30) DEF GroupRecord
  <2> QED
    BY <1>3, <2>1, Zenon
<1>5. PICK next \in Decisions(group[i].active, n) :
        /\ group' = [group EXCEPT ![i].inflight = n, ![i].active = next]
        /\ req' = [req EXCEPT ![r] =
             [@ EXCEPT !.at = "decided", !.previous = group[i].active, !.active = next]]
  BY DEF Decide
<1>6. next \in 1..Sessions
  BY <1>1, <1>4, <1>5, DecisionsType
<1> DEFINE g == [group[i] EXCEPT !.inflight = n, !.active = next]
           a == group[i].active
           c == [req[r] EXCEPT !.at = "decided", !.previous = a, !.active = next]
<1>7. group' = [group EXCEPT ![i] = g] /\ req' = [req EXCEPT ![r] = c]
  BY <1>1, <1>3, <1>5
<1> HIDE DEF i, n
<1>8. g \in GroupRecord /\ g.key = group[i].key /\ g.inflight = n
  <2>1. n \in Int
    BY <1>4 DEF n
  <2> QED
    BY <1>3, <1>6, <2>1 DEF GroupRecord
<1>9. c \in CallRecord /\ c.at = "decided" /\ c.id = req[r].id
  <2>1. a \in 1..Sessions
    BY <1>4
  <2> HIDE DEF a
  <2> QED
    BY <1>3, <1>6, <2>1 DEF CallRecord, Places
<1> HIDE DEF g, c, a
<1>10. req'[r] = c /\ \A q \in Requests \ {r} : req'[q] = req[q]
  BY <1>1, <1>7
<1>11. group'[i] = g /\ \A j \in Ids \ {i} : group'[j] = group[j]
  BY <1>1, <1>3, <1>7
<1>12. \A j \in Ids : group'[j].key = group[j].key
  BY <1>8, <1>11
<1>13. Types'
  <2>1. req' \in [Requests -> CallRecord] /\ group' \in [Ids -> GroupRecord]
    BY <1>1, <1>7, <1>8, <1>9
  <2> QED
    BY <1>1, <1>2, <2>1, SameShape DEF Types
<1>14. Known'
  <2>1. CallsKnown'
    BY <1>1, <1>2, <1>3, <1>9, <1>10, <1>12, SameShape DEF Known, CallsKnown, Exists, Away, Ended
  <2> QED
    BY <1>1, <1>2, <1>12, <2>1, KnownKept DEF Known
<1>15. Doomed'
  BY <1>1, <1>2, <1>12, DoomedKept
<1>16. Live'
  BY <1>1, <1>2, <1>9, <1>10 DEF Live
<1>17. Asked'
  BY <1>1, <1>2, <1>9, <1>10, SameShape DEF Asked
<1>18. InflightExact'
  <2>1. r \notin In(req, i)
    BY <1>2 DEF In
  <2>2. In(req', i) = In(req, i) \cup {r}
    BY <1>1, <1>7, <1>9, InMove DEF Ended, i
  <2>3. Cardinality(In(req', i)) = Cardinality(In(req, i)) + 1
    BY <2>1, <2>2, InFinite, FS_AddElement
  <2>4. \A j \in Ids \ {i} : In(req', j) = In(req, j)
    BY <1>9, <1>10 DEF In, i
  <2> QED
    BY <1>1, <1>2, <1>3, <1>8, <1>11, <2>3, <2>4, InflightForm, SameShape DEF n
<1> QED
  BY <1>13, <1>14, <1>15, <1>16, <1>17, <1>18 DEF Inv

LEMMA RouteInv ==
  ASSUME Inv, NEW r \in Requests, Route(r)
  PROVE  Inv'
<1> DEFINE i == req[r].id
           a == req[r].active
<1>1. Types /\ Known /\ shape \in Shapes /\ req[r] \in CallRecord
  BY DEF Inv, Types
<1>2. req[r].at = "decided" /\ UNCHANGED <<shape, groups, group, pre, calls>>
  BY DEF Route
<1>3. i \in Ids /\ a \in 1..Sessions
  BY <1>1, <1>2 DEF Known, CallsKnown, Exists, Away, Ended, CallRecord
<1>4. SessionsGrow
  <2>1. PICK xs : session' = Ask(session, i, xs, "preconnect")
    BY DEF Route
  <2> QED
    BY <1>1, <1>3, <2>1, AskGrows DEF Asks
<1>5. PICK start \in 0..(a - 1) :
        req' = [req EXCEPT ![r] = [Caller("posted", i) EXCEPT !.idx = Choice(i, a, start)]]
  BY DEF Route
<1> HIDE DEF i, a
<1>6. a \in Nat /\ \A x \in 0..(a - 1) : x \in Indices
  BY <1>1, <1>3, ShapeFacts
<1> DEFINE x == Choice(i, a, start)
           d == Caller("posted", i)
           c == [d EXCEPT !.idx = x]
<1>7. x \in Indices
  BY <1>5, <1>6, ChoiceType
<1>8. d \in CallRecord /\ d.at = "posted" /\ d.id = i
  BY <1>1, <1>3, CallerType DEF Places
<1> HIDE DEF x, d
<1>9. c \in CallRecord /\ c.at = "posted" /\ c.id = i
  BY <1>7, <1>8 DEF CallRecord
<1>10. req' = [req EXCEPT ![r] = c]
  BY <1>5 DEF x, d
<1> HIDE DEF c
<1>11. c.id = req[r].id
  BY <1>9 DEF i
<1> QED
  BY <1>2, <1>4, <1>9, <1>10, <1>11, GoesOn DEF Away, Ended

\* A call that is about to use its session is one that inflight counts.
LEMMA OnStrand ==
  ASSUME Inv, NEW r \in Requests, req[r].at \notin Away
  PROVE  /\ req[r] \in CallRecord /\ req[r].id \in Ids /\ req[r].idx \in Indices
         /\ session[req[r].id][req[r].idx] \in SessionRecord
<1>1. req[r] \in CallRecord /\ Exists(req[r].id)
  BY DEF Inv, Types, Known, CallsKnown
<1>2. req[r].id \in Ids /\ req[r].idx \in Indices
  BY <1>1 DEF CallRecord, Exists
<1>3. session \in [Ids -> [Indices -> SessionRecord]]
  BY DEF Inv, Types
<1> QED
  BY <1>1, <1>2, <1>3

\* acquire_stream_slot.
LEMMA AfterConnectInv ==
  ASSUME Inv, NEW r \in Requests, req[r].at \in {"posted", "woken", "slot"},
         AfterConnect(r), UNCHANGED <<shape, groups, session, pre, calls>>
  PROVE  Inv'
<1>0. req[r].at \notin Away \cup {"grouped"}
  BY DEF Away, Ended
<1>1. CASE End(r)
  BY <1>0, <1>1, Ends
<1>2. ASSUME ~session[req[r].id][req[r].idx].stopping, UNCHANGED group,
             NEW v \in {"streaming", "slot"}, req' = [req EXCEPT ![r].at = v]
      PROVE  Inv'
  <2> DEFINE k == req[r]
             c == [k EXCEPT !.at = v]
  <2>1. k \in CallRecord
    BY <1>0, OnStrand
  <2>2. req' = [req EXCEPT ![r] = c]
    BY <1>2
  <2> HIDE DEF k
  <2>3. c \in CallRecord /\ c.at = v /\ c.id = k.id /\ c.idx = k.idx
    BY <1>2, <2>1 DEF CallRecord, Places
  <2> HIDE DEF c
  <2>4. c.id = req[r].id /\ c.idx = req[r].idx /\ c.at \notin Away \cup {"grouped"}
    BY <1>2, <2>3 DEF k, Away, Ended
  <2>5. SessionsGrow
    BY SessionsSame DEF Inv
  <2> QED
    BY <1>0, <1>2, <2>2, <2>3, <2>4, <2>5, GoesOn
<1> QED
  BY <1>1, <1>2 DEF AfterConnect

LEMMA SetLinkFollows ==
  ASSUME NEW s \in SessionRecord, NEW link \in {"down", "connecting", "up"}
  PROVE  LET t == [s EXCEPT !.link = link]
         IN  t \in SessionRecord /\ t.stopping = s.stopping /\ t.asks = s.asks
BY DEF SessionRecord

LEMMA ArriveInv ==
  ASSUME Inv, NEW r \in Requests, Arrive(r)
  PROVE  Inv'
<1> DEFINE i == req[r].id
           x == req[r].idx
<1>0. /\ req[r].at = "posted" /\ UNCHANGED <<shape, groups, pre, calls>>
      /\ req[r].at \notin Away \cup {"grouped"}
  BY DEF Arrive, Away, Ended
<1>1. CASE AfterConnect(r) /\ UNCHANGED session
  BY <1>0, <1>1, AfterConnectInv
<1>2. CASE SetLink(i, x, "connecting") /\ req' = [req EXCEPT ![r].at = "connecting"]
           /\ UNCHANGED group
  <2> DEFINE k == req[r]
             c == [k EXCEPT !.at = "connecting"]
             s == session[i][x]
             t == [s EXCEPT !.link = "connecting"]
  <2>1. k \in CallRecord /\ i \in Ids /\ x \in Indices /\ s \in SessionRecord
    BY <1>0, OnStrand
  <2>2. req' = [req EXCEPT ![r] = c] /\ session' = [session EXCEPT ![i][x] = t]
    BY <1>2 DEF SetLink
  <2> HIDE DEF k, s
  <2>3. c \in CallRecord /\ c.at = "connecting" /\ c.id = k.id
    BY <2>1 DEF CallRecord, Places
  <2>4. t \in SessionRecord /\ t.stopping = s.stopping /\ t.asks = s.asks
    BY <2>1, SetLinkFollows
  <2> HIDE DEF c, t, i, x
  <2>5. c.id = req[r].id /\ c.at \notin Away \cup {"grouped"} /\ c.at # "streaming"
    BY <2>3 DEF k, Away, Ended
  <2>6. SessionsGrow
    <3>1. session \in [Ids -> [Indices -> SessionRecord]]
      BY DEF Inv, Types
    <3> QED
      BY <2>1, <2>2, <2>4, <3>1 DEF SessionsGrow, s
  <2> QED
    BY <1>0, <1>2, <2>2, <2>3, <2>5, <2>6, GoesOn
<1> QED
  BY <1>1, <1>2 DEF Arrive

LEMMA RequestInv ==
  ASSUME Inv, NEW r \in Requests,
         Proceed(r) \/ TakeSlot(r) \/ SlotWaitEnds(r) \/ Answer(r)
  PROVE  Inv'
<1>1. CASE Proceed(r)
  <2>1. req[r].at = "woken" /\ UNCHANGED <<shape, groups, session, pre, calls>>
    BY <1>1 DEF Proceed
  <2>2. AfterConnect(r) \/ End(r)
    BY <1>1 DEF Proceed
  <2> QED
    BY <2>1, <2>2, AfterConnectInv, Ends DEF Away, Ended
<1>2. CASE TakeSlot(r)
  BY <1>2, AfterConnectInv DEF TakeSlot
<1>3. CASE Answer(r)
  BY <1>3, Ends DEF Answer, Away, Ended
<1>4. CASE SlotWaitEnds(r)
  BY <1>4, Ends DEF SlotWaitEnds, Away, Ended
<1> QED
  BY <1>1, <1>2, <1>3, <1>4

\* The waiters of a connect that has ended.
LEMMA ConnectEndsInv ==
  ASSUME Inv, NEW i \in Ids, NEW x \in Indices, ConnectEnds(i, x)
  PROVE  Inv'
<1>1. PICK link \in {"up", "down"} : session' = [session EXCEPT ![i][x].link = link]
  BY DEF ConnectEnds, SetLink
<1> DEFINE s == session[i][x]
           t == [s EXCEPT !.link = link]
           waking == On(i, x, {"connecting"})
<1>2. session \in [Ids -> [Indices -> SessionRecord]] /\ req \in [Requests -> CallRecord]
  BY DEF Inv, Types
<1>3. s \in SessionRecord
  BY <1>2
<1>4. session' = [session EXCEPT ![i][x] = t]
  BY <1>1
<1> HIDE DEF s
<1>5. t \in SessionRecord /\ t.stopping = s.stopping /\ t.asks = s.asks
  BY <1>3, SetLinkFollows
<1>6. /\ req' = [r \in Requests |-> IF r \in waking THEN [req[r] EXCEPT !.at = "woken"]
                                    ELSE req[r]]
      /\ UNCHANGED <<shape, groups, group, pre, calls>>
  BY DEF ConnectEnds
<1>w. \A r \in waking : req[r].at = "connecting"
  BY DEF On
<1> HIDE DEF t, waking
<1>7. ASSUME NEW r \in Requests
      PROVE  /\ req'[r] \in CallRecord
             /\ req'[r].id = req[r].id /\ req'[r].idx = req[r].idx
             /\ \/ req'[r].at = req[r].at
                \/ req[r].at = "connecting" /\ req'[r].at = "woken"
  <2> DEFINE k == req[r]
             c == [k EXCEPT !.at = "woken"]
  <2>1. k \in CallRecord
    BY <1>2
  <2>2. req'[r] = IF r \in waking THEN c ELSE k
    BY <1>6
  <2> HIDE DEF k
  <2>3. c \in CallRecord /\ c.at = "woken" /\ c.id = k.id /\ c.idx = k.idx
    BY <2>1 DEF CallRecord, Places
  <2> HIDE DEF c
  <2> QED
    BY <1>w, <2>1, <2>2, <2>3 DEF k
<1>8. req' \in [Requests -> CallRecord]
  BY <1>6, <1>7
<1>9. Follows(session[i][x], t) /\ t.stopping = session[i][x].stopping
  BY <1>5 DEF Follows, s
<1> QED
  BY <1>4, <1>5, <1>6, <1>7, <1>8, <1>9, WakesSome

\* A read or a write on the connection fails.
LEMMA BreakInv ==
  ASSUME Inv, NEW i \in Ids, NEW x \in Indices, Break(i, x)
  PROVE  Inv'
<1> DEFINE s == session[i][x]
           t == [s EXCEPT !.link = "down", !.stopping = TRUE]
<1>1. session \in [Ids -> [Indices -> SessionRecord]]
  BY DEF Inv, Types
<1>2. s \in SessionRecord
  BY <1>1
<1>3. /\ session' = [session EXCEPT ![i][x] = t] /\ Close(i, x, "done")
      /\ UNCHANGED <<shape, groups, pre, calls>>
  BY <1>1 DEF Break
<1> HIDE DEF s
<1>4. t \in SessionRecord /\ t.stopping = TRUE /\ t.asks = s.asks
  BY <1>2 DEF SessionRecord
<1> HIDE DEF t
<1>5. Follows(session[i][x], t)
  BY <1>4 DEF Follows, s
<1>6. "done" \in Ended /\ "done" # "reset"
  BY DEF Ended
<1> QED
  BY <1>3, <1>4, <1>5, <1>6, Closes

\* A posted call runs on the strand.
LEMMA RunAskInv ==
  ASSUME Inv, NEW i \in Ids, NEW x \in Indices, NEW what \in Asks, RunAsk(i, x, what)
  PROVE  Inv'
<1> DEFINE s == session[i][x]
           ran == [s EXCEPT !.asks = @ \ {what}]
<1>1. session \in [Ids -> [Indices -> SessionRecord]] /\ req \in [Requests -> CallRecord]
  BY DEF Inv, Types
<1>2. s \in SessionRecord
  BY <1>1
<1>3. what \in s.asks /\ UNCHANGED <<shape, groups, pre, calls>>
  BY DEF RunAsk
<1>4. \/ /\ what = "shutdown"
         /\ Close(i, x, "done")
         /\ session' = [session EXCEPT ![i][x] = [ran EXCEPT !.link = "down", !.stopping = TRUE]]
      \/ /\ Resets(i, x, what)
         /\ Close(i, x, "reset")
         /\ session' = [session EXCEPT ![i][x] = [ran EXCEPT !.link = "down"]]
      \/ /\ what = "preconnect"
         /\ session' = [session EXCEPT ![i][x] =
              [ran EXCEPT !.link = IF @ = "down" THEN "connecting" ELSE @]]
         /\ UNCHANGED <<req, group>>
      \/ /\ what \in {"reset", "reset_if_idle"} \/ (what = "shutdown" /\ s.stopping)
         /\ session' = [session EXCEPT ![i][x] = ran]
         /\ UNCHANGED <<req, group>>
  BY DEF RunAsk
<1> HIDE DEF s
<1>5. ran \in SessionRecord /\ ran.stopping = s.stopping /\ ran.asks = s.asks \ {what}
  BY <1>2 DEF SessionRecord
<1> HIDE DEF ran
<1>6. CASE /\ what = "shutdown" /\ Close(i, x, "done")
           /\ session' = [session EXCEPT ![i][x] = [ran EXCEPT !.link = "down", !.stopping = TRUE]]
  <2> DEFINE t == [ran EXCEPT !.link = "down", !.stopping = TRUE]
  <2>1. t \in SessionRecord /\ t.stopping = TRUE /\ t.asks = ran.asks
    BY <1>5 DEF SessionRecord
  <2>2. session' = [session EXCEPT ![i][x] = t]
    BY <1>6
  <2> HIDE DEF t
  <2>3. Follows(session[i][x], t)
    BY <1>5, <2>1 DEF Follows, s
  <2>4. "done" \in Ended /\ "done" # "reset"
    BY DEF Ended
  <2> QED
    BY <1>3, <1>6, <2>1, <2>2, <2>3, <2>4, Closes
<1>7. CASE /\ Resets(i, x, what) /\ Close(i, x, "reset")
           /\ session' = [session EXCEPT ![i][x] = [ran EXCEPT !.link = "down"]]
  <2> DEFINE t == [ran EXCEPT !.link = "down"]
  <2>1. t \in SessionRecord /\ t.stopping = ran.stopping /\ t.asks = ran.asks
    BY <1>5, SetLinkFollows
  <2>2. session' = [session EXCEPT ![i][x] = t]
    BY <1>7
  <2> HIDE DEF t
  <2>3. what # "shutdown"
    BY <1>7 DEF Resets
  <2>4. Follows(session[i][x], t)
    BY <1>5, <2>1, <2>3 DEF Follows, s
  <2>5. "reset" \in calls \/ On(i, x, {"streaming"}) = {}
    <3>1. CASE what = "reset"
      BY <1>3, <3>1 DEF Inv, Asked, s
    <3>2. CASE Idle(i, x)
      BY <3>2 DEF Idle, On
    <3> QED
      BY <1>7, <3>1, <3>2 DEF Resets
  <2>6. "reset" \in Ended
    BY DEF Ended
  <2> QED
    BY <1>3, <1>7, <2>1, <2>2, <2>4, <2>5, <2>6, Closes
\* A call that leaves the requests alone.
<1>n. ASSUME NEW t \in SessionRecord, session' = [session EXCEPT ![i][x] = t],
             t.stopping = ran.stopping, t.asks = ran.asks, what # "shutdown" \/ s.stopping,
             UNCHANGED <<req, group>>
      PROVE  Inv'
  <2>1. Follows(session[i][x], t) /\ t.stopping = session[i][x].stopping
    BY <1>5, <1>n DEF Follows, s
  <2>2. \A r \in Requests : /\ req'[r].id = req[r].id /\ req'[r].idx = req[r].idx
                            /\ req'[r].at = req[r].at
    BY <1>n
  <2> QED
    BY <1>1, <1>3, <1>n, <2>1, <2>2, WakesSome
<1>8. CASE /\ what = "preconnect"
           /\ session' = [session EXCEPT ![i][x] =
                [ran EXCEPT !.link = IF @ = "down" THEN "connecting" ELSE @]]
           /\ UNCHANGED <<req, group>>
  <2> DEFINE t == [ran EXCEPT !.link = IF @ = "down" THEN "connecting" ELSE @]
  <2>1. t \in SessionRecord /\ t.stopping = ran.stopping /\ t.asks = ran.asks
    BY <1>5 DEF SessionRecord
  <2>2. session' = [session EXCEPT ![i][x] = t] /\ what # "shutdown" /\ UNCHANGED <<req, group>>
    BY <1>8
  <2> HIDE DEF t
  <2> QED
    BY <1>n, <2>1, <2>2
<1>9. CASE /\ what \in {"reset", "reset_if_idle"} \/ (what = "shutdown" /\ s.stopping)
           /\ session' = [session EXCEPT ![i][x] = ran]
           /\ UNCHANGED <<req, group>>
  BY <1>5, <1>9, <1>n
<1> QED
  BY <1>4, <1>6, <1>7, <1>8, <1>9

-----------------------------------------------------------------------------
(* Steps that change the map.                                               *)

\* A step that changes the map, the groups or the number of sessions in use, and
\* posts calls to sessions.
MapStep ==
  /\ UNCHANGED shape
  /\ groups' \in [Keys -> Ids \cup {None}]
  /\ group' \in [Ids -> GroupRecord]
  /\ SessionsGrow
  /\ \A j \in Ids : /\ group'[j].inflight = group[j].inflight
                    /\ group[j].key # None => group'[j].key # None
  /\ MapKnown' /\ Doomed'
  /\ calls \subseteq calls'

LEMMA MapStepInv ==
  ASSUME Inv, MapStep, req' \in [Requests -> CallRecord],
         \A q \in Requests :
           \/ req'[q] = req[q]
           \/ /\ req[q].at = "idle" /\ req'[q].at = "grouped"
              /\ req'[q].id \in Ids /\ group'[req'[q].id].key # None,
         pre' \in PreRecord, PreKnown'
  PROVE  Inv'
<1>1. /\ Types /\ Known /\ Doomed /\ Live /\ Asked /\ InflightExact /\ shape \in Shapes
  BY DEF Inv, Types
<1>2. UNCHANGED shape /\ SessionsGrow
  BY DEF MapStep
<1>3. Types'
  BY <1>1, <1>2, SameShape DEF Types, MapStep, SessionsGrow
<1>4. Known'
  <2>1. CallsKnown'
    <3>1. ASSUME NEW q \in Requests
          PROVE  IF req'[q].at \in Away THEN req'[q].id = None
                 ELSE req'[q].id \in Ids /\ group'[req'[q].id].key # None
      <4>1. CASE req'[q] = req[q]
        BY <1>1, <4>1 DEF Known, CallsKnown, Exists, MapStep
      <4>2. CASE req'[q].at = "grouped" /\ req'[q].id \in Ids /\ group'[req'[q].id].key # None
        BY <4>2 DEF Away, Ended
      <4> QED
        BY <4>1, <4>2
    <3> QED
      BY <1>2, <3>1, SameShape DEF CallsKnown, Exists
  <2> QED
    BY <2>1 DEF Known, MapStep
<1>5. Live'
  <2>1. ASSUME NEW r \in Requests, req'[r].at = "streaming"
        PROVE  ~session'[req'[r].id][req'[r].idx].stopping
    <3>1. req'[r] = req[r]
      BY <2>1
    <3>2. ~session[req[r].id][req[r].idx].stopping
      BY <1>1, <2>1, <3>1 DEF Live
    <3>3. req[r].id \in Ids /\ req[r].idx \in Indices
      BY <2>1, <3>1, OnStrand DEF Away, Ended
    <3> QED
      BY <1>2, <3>1, <3>2, <3>3 DEF SessionsGrow
  <2> QED
    BY <2>1 DEF Live
<1>6. Asked'
  <2>1. \A r \in Requests : req'[r].at = "reset" => "reset" \in calls'
    BY <1>1 DEF Asked, MapStep
  <2>2. \A j \in Ids, y \in Indices : "reset" \in session'[j][y].asks => "reset" \in calls'
    BY <1>1, <1>2 DEF Asked, MapStep, SessionsGrow
  <2> QED
    BY <1>2, <2>1, <2>2, SameShape DEF Asked
<1>7. InflightExact'
  <2>1. \A q \in Requests : req[q].at = "idle" => req[q].id \notin Ids
    BY <1>1, ShapeFacts DEF Known, CallsKnown, Away
  <2>2. \A j \in Ids : In(req', j) = In(req, j)
    BY <2>1 DEF In
  <2> QED
    BY <1>1, <1>2, <2>2, InflightForm, SameShape DEF MapStep
<1> QED
  BY <1>3, <1>4, <1>5, <1>6, <1>7 DEF Inv, MapStep

\* request_shutdown is posted to the sessions of the groups of some keys.
LEMMA ShutDownGrows ==
  ASSUME Types, NEW sess \in [Ids -> [Indices -> SessionRecord]], NEW keys,
         NEW i \in Ids, NEW x \in Indices
  PROVE  LET t == ShutDown(sess, keys)[i][x]
         IN  /\ t \in SessionRecord
             /\ t.stopping = sess[i][x].stopping
             /\ sess[i][x].asks \subseteq t.asks
             /\ t.asks \subseteq sess[i][x].asks \cup {"shutdown"}
             /\ (\E k \in keys : groups[k] = i) => "shutdown" \in t.asks
<1> DEFINE s == sess[i][x]
           u == [s EXCEPT !.asks = @ \cup {"shutdown"}]
<1>1. s \in SessionRecord
  OBVIOUS
<1>2. ShutDown(sess, keys)[i][x] = IF \E k \in keys : groups[k] = i THEN u ELSE s
  BY DEF ShutDown
<1> HIDE DEF s
<1>3. u \in SessionRecord /\ u.stopping = s.stopping /\ u.asks = s.asks \cup {"shutdown"}
  BY <1>1 DEF SessionRecord, Asks
<1> HIDE DEF u
<1> QED
  BY <1>1, <1>2, <1>3 DEF s

LEMMA ShutDownType ==
  ASSUME Types, NEW sess \in [Ids -> [Indices -> SessionRecord]], NEW keys
  PROVE  ShutDown(sess, keys) \in [Ids -> [Indices -> SessionRecord]]
<1>1. \A i \in Ids, x \in Indices : ShutDown(sess, keys)[i][x] \in SessionRecord
  BY ShutDownGrows
<1> DEFINE f == ShutDown(sess, keys)
<1>2. f = [i \in Ids |-> f[i]] /\ \A i \in Ids : f[i] = [x \in Indices |-> f[i][x]]
  BY DEF ShutDown
<1> HIDE DEF f
<1>3. \A i \in Ids, x \in Indices : f[i][x] \in SessionRecord
  BY <1>1 DEF f
<1>4. \A i \in Ids : f[i] \in [Indices -> SessionRecord]
  BY <1>2, <1>3
<1>5. f \in [Ids -> [Indices -> SessionRecord]]
  BY <1>2, <1>4
<1> QED
  BY <1>5 DEF f

\* Doomed follows a change of the map that posts a shutdown to the sessions of
\* the groups it removes.
LEMMA DoomedGrows ==
  ASSUME Doomed, UNCHANGED shape, SessionsGrow,
         \A j \in Ids : group'[j].key # None =>
           group[j].key # None \/ InMap(j)',
         \A j \in Ids : InMap(j) =>
           \/ InMap(j)'
           \/ \A x \in Indices : "shutdown" \in session'[j][x].asks
  PROVE  Doomed'
<1>1. ASSUME NEW j \in Ids, group'[j].key # None, ~InMap(j)', NEW x \in Indices
      PROVE  session'[j][x].stopping \/ "shutdown" \in session'[j][x].asks
  <2>1. CASE InMap(j)
    BY <1>1, <2>1
  <2>2. CASE ~InMap(j)
    <3>1. session[j][x].stopping \/ "shutdown" \in session[j][x].asks
      BY <1>1, <2>2 DEF Doomed
    <3> QED
      BY <1>1, <3>1 DEF SessionsGrow
  <2> QED
    BY <2>1, <2>2
<1> QED
  BY <1>1, SameShape DEF Doomed

\* A weak pointer that can still be locked points to a group that exists.
LEMMA AliveExists ==
  ASSUME Inv, NEW i \in Ids, Alive(i)
  PROVE  group[i].key # None
<1>1. Known /\ shape \in Shapes /\ None \notin Ids
  BY ShapeFacts DEF Inv, Types
<1>2. CASE InMap(i)
  BY <1>1, <1>2 DEF InMap, Known, MapKnown, Exists
<1>3. CASE Holders(i) # {}
  <2>1. PICK r \in Requests : req[r].id = i
    BY <1>3 DEF Holders
  <2> QED
    BY <1>1, <2>1 DEF Known, CallsKnown, Exists
<1>4. CASE pre.id = i
  <2>1. pre # NoCall
    BY <1>1, <1>4 DEF NoCall
  <2> QED
    BY <1>1, <1>4, <2>1 DEF Known, PreKnown, Exists
<1> QED
  BY <1>2, <1>3, <1>4 DEF Alive

\* The map stays as it is, and so do the groups.
LEMMA MapSame ==
  ASSUME Inv, UNCHANGED <<shape, groups, group, session>>, calls \subseteq calls'
  PROVE  MapStep
<1>1. Types /\ Known /\ Doomed
  BY DEF Inv
<1>2. SessionsGrow
  BY <1>1, SessionsSame
<1>3. MapKnown'
  BY <1>1, SameShape DEF Known, MapKnown, Exists
<1>4. Doomed'
  BY <1>1, DoomedKept
<1> QED
  BY <1>1, <1>2, <1>3, <1>4 DEF MapStep, Types

\* A new group takes its key, and the evicted ones are told to shut down.
LEMMA NewGroupStep ==
  ASSUME Inv, NEW h \in Threads, NEW k \in Keys, NEW i \in Ids, NewGroup(h, k, i),
         UNCHANGED shape, calls \subseteq calls'
  PROVE  MapStep /\ group'[i].key # None
<1>1. PICK old :
        /\ groups' = [q \in Keys |-> CASE q = k -> i
                                       [] q # k /\ q \in Evicted(old) -> None
                                       [] OTHER -> groups[q]]
        /\ session' = ShutDown(session, Evicted(old))
  BY DEF NewGroup
<1> DEFINE E == Evicted(old)
           n == group[i]
           g == [n EXCEPT !.key = k]
<1>2. /\ Types /\ Known /\ Doomed /\ shape \in Shapes
      /\ groups \in [Keys -> Ids \cup {None}] /\ group \in [Ids -> GroupRecord]
      /\ session \in [Ids -> [Indices -> SessionRecord]]
  BY DEF Inv, Types
<1>3. None \notin Ids /\ None \notin Keys
  BY <1>2, ShapeFacts
<1>4. groups[k] = None /\ group' = [group EXCEPT ![i] = g] /\ n \in GroupRecord
  BY <1>2 DEF NewGroup
<1> HIDE DEF n
<1>5. g \in GroupRecord /\ g.key = k /\ g.inflight = n.inflight
  BY <1>4 DEF GroupRecord
<1> HIDE DEF g, E
<1>6. group' \in [Ids -> GroupRecord] /\ group'[i] = g /\ \A j \in Ids \ {i} : group'[j] = group[j]
  BY <1>2, <1>4, <1>5
<1>7. /\ groups' \in [Keys -> Ids \cup {None}] /\ groups'[k] = i
      /\ \A q \in Keys \ {k} : groups'[q] = IF q \in E THEN None ELSE groups[q]
  BY <1>1, <1>2 DEF E
<1>8. /\ session' \in [Ids -> [Indices -> SessionRecord]]
      /\ \A j \in Ids, x \in Indices :
           /\ session'[j][x].stopping = session[j][x].stopping
           /\ session[j][x].asks \subseteq session'[j][x].asks
           /\ session'[j][x].asks \subseteq session[j][x].asks \cup {"shutdown"}
           /\ (\E q \in E : groups[q] = j) => "shutdown" \in session'[j][x].asks
  BY <1>1, <1>2, ShutDownType, ShutDownGrows DEF E
<1>9. SessionsGrow
  BY <1>8 DEF SessionsGrow
<1>10. \A j \in Ids : /\ group'[j].inflight = group[j].inflight
                      /\ group[j].key # None => group'[j].key # None
  BY <1>3, <1>5, <1>6 DEF n
<1>11. MapKnown'
  <2>1. \A q \in Keys : groups'[q] # None => groups'[q] \in Ids /\ group'[groups'[q]].key # None
    BY <1>2, <1>3, <1>5, <1>6, <1>7, <1>10 DEF Known, MapKnown, Exists
  <2> QED
    BY <2>1, SameShape DEF MapKnown, Exists
<1>12. Doomed'
  <2>1. \A j \in Ids : group'[j].key # None => group[j].key # None \/ InMap(j)'
    BY <1>6, <1>7 DEF InMap
  <2>2. \A j \in Ids : InMap(j) => \/ InMap(j)'
                                   \/ \A x \in Indices : "shutdown" \in session'[j][x].asks
    BY <1>3, <1>4, <1>7, <1>8 DEF InMap
  <2> QED
    BY <1>2, <1>9, <2>1, <2>2, DoomedGrows
<1> QED
  BY <1>3, <1>5, <1>6, <1>7, <1>9, <1>10, <1>11, <1>12 DEF MapStep

\* group_for returns a group that exists.
LEMMA GroupForStep ==
  ASSUME Inv, NEW h \in Threads, NEW k \in Keys, NEW i \in Ids, GroupFor(h, k, i),
         UNCHANGED shape, calls \subseteq calls'
  PROVE  MapStep /\ group'[i].key # None
<1>1. CASE FromCache(h, k, i)
  <2>1. Alive(i) /\ UNCHANGED <<groups, group, session>>
    BY <1>1 DEF FromCache, Cached
  <2> QED
    BY <2>1, AliveExists, MapSame
<1>2. CASE FromMap(h, k, i)
  <2>1. Alive(i) /\ UNCHANGED <<groups, group, session>>
    BY <1>2 DEF FromMap, Alive, InMap
  <2> QED
    BY <2>1, AliveExists, MapSame
<1>3. CASE NewGroup(h, k, i)
  BY <1>3, NewGroupStep
<1> QED
  BY <1>1, <1>2, <1>3 DEF GroupFor

LEMMA StartInv ==
  ASSUME Inv, NEW r \in Requests, Start(r)
  PROVE  Inv'
<1>1. /\ req[r].at = "idle" /\ UNCHANGED <<shape, pre, calls>>
      /\ Types /\ Known /\ shape \in Shapes /\ req \in [Requests -> CallRecord]
  BY DEF Start, Inv, Types
<1>2. PICK h \in Threads, k \in shape.keys, i \in Ids :
        GroupFor(h, k, i) /\ req' = [req EXCEPT ![r] = Caller("grouped", i)]
  BY DEF Start
<1>3. k \in Keys
  BY <1>1, ShapeFacts
<1>4. MapStep /\ group'[i].key # None
  BY <1>1, <1>2, <1>3, GroupForStep
<1> DEFINE c == Caller("grouped", i)
<1>5. c \in CallRecord /\ c.at = "grouped" /\ c.id = i
  BY <1>1, CallerType DEF Places
<1> HIDE DEF c
<1>6. req' \in [Requests -> CallRecord] /\ req'[r] = c /\ \A q \in Requests \ {r} : req'[q] = req[q]
  BY <1>1, <1>2, <1>5 DEF c
<1>7. pre' \in PreRecord /\ PreKnown'
  BY <1>1, <1>4, SameShape DEF Types, Known, PreKnown, Exists, MapStep
<1>8. \A q \in Requests :
           \/ req'[q] = req[q]
           \/ /\ req[q].at = "idle" /\ req'[q].at = "grouped"
              /\ req'[q].id \in Ids /\ group'[req'[q].id].key # None
  BY <1>1, <1>4, <1>5, <1>6
<1> QED
  BY <1>4, <1>6, <1>7, <1>8, MapStepInv

LEMMA PreconnectStartInv ==
  ASSUME Inv, NEW target \in 1..Sessions, PreconnectStart(target)
  PROVE  Inv'
<1>1. /\ UNCHANGED <<shape, req>> /\ calls \subseteq calls'
      /\ shape \in Shapes /\ req \in [Requests -> CallRecord]
  BY DEF PreconnectStart, Called, Inv, Types
<1>2. PICK h \in Threads, k \in shape.keys, i \in Ids :
        /\ GroupFor(h, k, i)
        /\ pre' = [id |-> i, target |-> target, store |-> target > group[i].active]
  BY DEF PreconnectStart
<1>3. k \in Keys /\ Sessions \in Nat
  BY <1>1, ShapeFacts
<1>4. MapStep /\ group'[i].key # None
  BY <1>1, <1>2, <1>3, GroupForStep
<1>5. pre' \in PreRecord
  <2>1. (target > group[i].active) \in BOOLEAN
    OBVIOUS
  <2>2. target \in 0..Sessions
    BY <1>3
  <2> QED
    BY <1>2, <2>1, <2>2 DEF PreRecord
<1>6. PreKnown'
  <2>1. pre'.id = i /\ pre'.target = target
    BY <1>2
  <2> QED
    BY <1>1, <1>4, <2>1, SameShape DEF PreKnown, Exists
<1> QED
  BY <1>1, <1>4, <1>5, <1>6, MapStepInv

LEMMA PreconnectStoreInv ==
  ASSUME Inv, PreconnectStore
  PROVE  Inv'
<1> DEFINE i == pre.id
           n == group[i]
           g == [n EXCEPT !.active = IF pre.store THEN pre.target ELSE @]
<1>1. /\ Types /\ Known /\ Doomed /\ shape \in Shapes
      /\ group \in [Ids -> GroupRecord] /\ req \in [Requests -> CallRecord]
      /\ groups \in [Keys -> Ids \cup {None}]
  BY DEF Inv, Types
<1>2. /\ pre' = NoCall /\ UNCHANGED <<shape, groups, req, calls>>
      /\ group' = [group EXCEPT ![i] = g]
      /\ session' = Ask(session, i, {x \in Indices : x < pre.target}, "preconnect")
  BY DEF PreconnectStore
<1>3. i \in Ids /\ pre.target \in 1..Sessions /\ n \in GroupRecord
  BY <1>1 DEF PreconnectStore, Known, PreKnown, Exists
<1>4. g \in GroupRecord /\ g.key = n.key /\ g.inflight = n.inflight
  <2> HIDE DEF n
  <2> QED
    BY <1>3 DEF GroupRecord
<1> HIDE DEF g
<1>5. group' \in [Ids -> GroupRecord] /\ group'[i] = g /\ \A j \in Ids \ {i} : group'[j] = group[j]
  BY <1>1, <1>2, <1>3, <1>4
<1>6. \A j \in Ids : group'[j].inflight = group[j].inflight /\ group'[j].key = group[j].key
  BY <1>4, <1>5
<1>7. SessionsGrow
  BY <1>1, <1>2, <1>3, AskGrows DEF Asks
<1>8. MapKnown'
  BY <1>1, <1>2, <1>6, SameShape DEF Known, MapKnown, Exists
<1>9. Doomed'
  BY <1>1, <1>2, <1>6, <1>7, DoomedKept DEF SessionsGrow
<1>10. MapStep
  BY <1>1, <1>2, <1>5, <1>6, <1>7, <1>8, <1>9 DEF MapStep
<1>11. pre' \in PreRecord /\ PreKnown'
  <2>1. Sessions \in Nat
    BY <1>1, ShapeFacts
  <2> QED
    BY <1>2, <2>1 DEF PreRecord, PreKnown, NoCall
<1> QED
  BY <1>1, <1>2, <1>10, <1>11, MapStepInv

LEMMA RunMaintenanceInv ==
  ASSUME Inv, RunMaintenance
  PROVE  Inv'
<1>1. PICK quiet \in SUBSET {i \in Ids : MayScaleDown(i)}, old \in 0..Len(lru) :
        /\ group' = [i \in Ids |->
             IF i \in quiet THEN [group[i] EXCEPT !.active = @ - 1] ELSE group[i]]
        /\ session' = ShutDown([i \in Ids |-> [x \in Indices |->
             IF i \in quiet /\ x >= group[i].active - 1 /\ Idle(i, x)
             THEN [session[i][x] EXCEPT !.asks = @ \cup {"reset_if_idle"}] ELSE session[i][x]]],
             Evicted(old))
        /\ groups' = [k \in Keys |-> IF k \in Evicted(old) THEN None ELSE groups[k]]
        /\ UNCHANGED <<shape, req, pre, calls>>
  BY DEF RunMaintenance
<1> DEFINE E == Evicted(old)
           asked == [i \in Ids |-> [x \in Indices |->
             IF i \in quiet /\ x >= group[i].active - 1 /\ Idle(i, x)
             THEN [session[i][x] EXCEPT !.asks = @ \cup {"reset_if_idle"}] ELSE session[i][x]]]
<1>2. /\ Types /\ Known /\ Doomed /\ shape \in Shapes
      /\ groups \in [Keys -> Ids \cup {None}] /\ group \in [Ids -> GroupRecord]
      /\ session \in [Ids -> [Indices -> SessionRecord]]
      /\ req \in [Requests -> CallRecord] /\ pre \in PreRecord
  BY DEF Inv, Types
<1>3. ASSUME NEW i \in Ids, NEW x \in Indices
      PROVE  LET s == session[i][x]
             IN  /\ asked[i][x] \in SessionRecord /\ asked[i][x].stopping = s.stopping
                 /\ s.asks \subseteq asked[i][x].asks
                 /\ asked[i][x].asks \subseteq s.asks \cup {"reset_if_idle"}
  <2> DEFINE s == session[i][x]
             t == [s EXCEPT !.asks = @ \cup {"reset_if_idle"}]
  <2>1. s \in SessionRecord
    BY <1>2
  <2>2. asked[i][x] = t \/ asked[i][x] = s
    OBVIOUS
  <2> HIDE DEF s, asked
  <2>3. t \in SessionRecord /\ t.stopping = s.stopping /\ t.asks = s.asks \cup {"reset_if_idle"}
    BY <2>1 DEF SessionRecord, Asks
  <2> HIDE DEF t
  <2>4. /\ asked[i][x] \in SessionRecord /\ asked[i][x].stopping = s.stopping
        /\ s.asks \subseteq asked[i][x].asks
        /\ asked[i][x].asks \subseteq s.asks \cup {"reset_if_idle"}
    BY <2>1, <2>2, <2>3
  <2> QED
    BY <2>4 DEF s
<1>4. asked \in [Ids -> [Indices -> SessionRecord]]
  <2>1. \A i \in Ids, x \in Indices : asked[i][x] \in SessionRecord
    BY <1>3
  <2>2. asked = [i \in Ids |-> asked[i]] /\ \A i \in Ids : asked[i] = [x \in Indices |-> asked[i][x]]
    OBVIOUS
  <2> HIDE DEF asked
  <2>3. \A i \in Ids : asked[i] \in [Indices -> SessionRecord]
    BY <2>1, <2>2
  <2> QED
    BY <2>2, <2>3
<1>5. session' = ShutDown(asked, E)
  BY <1>1
<1> HIDE DEF asked, E
<1>6. /\ session' \in [Ids -> [Indices -> SessionRecord]]
      /\ \A j \in Ids, x \in Indices :
           /\ session'[j][x].stopping = asked[j][x].stopping
           /\ asked[j][x].asks \subseteq session'[j][x].asks
           /\ session'[j][x].asks \subseteq asked[j][x].asks \cup {"shutdown"}
           /\ (\E q \in E : groups[q] = j) => "shutdown" \in session'[j][x].asks
  BY <1>2, <1>4, <1>5, ShutDownType, ShutDownGrows
<1>7. SessionsGrow
  <2>1. ASSUME NEW j \in Ids, NEW x \in Indices
        PROVE  /\ session'[j][x].stopping = session[j][x].stopping
               /\ session[j][x].asks \subseteq session'[j][x].asks
               /\ "reset" \in session'[j][x].asks => "reset" \in session[j][x].asks
    <3>1. /\ asked[j][x].stopping = session[j][x].stopping
          /\ session[j][x].asks \subseteq asked[j][x].asks
          /\ asked[j][x].asks \subseteq session[j][x].asks \cup {"reset_if_idle"}
      BY <1>3
    <3> QED
      BY <1>6, <3>1
  <2> QED
    BY <1>6, <2>1 DEF SessionsGrow
<1>8. ASSUME NEW j \in Ids
      PROVE  /\ group'[j] \in GroupRecord /\ group'[j].key = group[j].key
             /\ group'[j].inflight = group[j].inflight
  <2> DEFINE n == group[j]
             g == [n EXCEPT !.active = @ - 1]
  <2>1. n \in GroupRecord /\ ((group'[j] = g /\ n.active > 1) \/ group'[j] = n)
    BY <1>1, <1>2 DEF MayScaleDown
  <2>2. Sessions \in Nat
    BY <1>2, ShapeFacts
  <2> HIDE DEF n
  <2>3. n.active > 1 => g \in GroupRecord /\ g.key = n.key /\ g.inflight = n.inflight
    BY <2>1, <2>2 DEF GroupRecord
  <2> HIDE DEF g
  <2> QED
    BY <2>1, <2>3 DEF n
<1>9. group' \in [Ids -> GroupRecord]
  BY <1>1, <1>8
<1>10. /\ groups' \in [Keys -> Ids \cup {None}]
       /\ \A q \in Keys : groups'[q] = IF q \in E THEN None ELSE groups[q]
  BY <1>1, <1>2 DEF E
<1>11. MapKnown'
  BY <1>1, <1>2, <1>8, <1>10, SameShape, SMTT(30) DEF Known, MapKnown, Exists
<1>12. Doomed'
  <2>1. \A j \in Ids : group'[j].key # None => group[j].key # None \/ InMap(j)'
    BY <1>8
  <2>2. \A j \in Ids : InMap(j) => \/ InMap(j)'
                                   \/ \A x \in Indices : "shutdown" \in session'[j][x].asks
    BY <1>6, <1>10 DEF InMap
  <2> QED
    BY <1>1, <1>2, <1>7, <2>1, <2>2, DoomedGrows
<1>13. MapStep
  BY <1>1, <1>7, <1>8, <1>9, <1>10, <1>11, <1>12 DEF MapStep
<1>14. pre' \in PreRecord /\ PreKnown'
  BY <1>1, <1>2, <1>8, SameShape DEF Known, PreKnown, Exists
<1> QED
  BY <1>1, <1>2, <1>13, <1>14, MapStepInv

\* reset_connections and shutdown: a reset is posted only once it has been called.
LEMMA CallAllInv ==
  ASSUME Inv, NEW what \in {"reset", "shutdown"}, CallAll(what)
  PROVE  Inv'
<1>1. /\ Types /\ Known /\ Doomed /\ Live /\ Asked /\ InflightExact
      /\ session \in [Ids -> [Indices -> SessionRecord]]
  BY DEF Inv, Types
<1>2. /\ UNCHANGED <<shape, groups, group, req, pre>> /\ calls' = calls \cup {what}
      /\ session' = [i \in Ids |-> [x \in Indices |->
           IF InMap(i) THEN [session[i][x] EXCEPT !.asks = @ \cup {what}] ELSE session[i][x]]]
  BY DEF CallAll, Called
<1>3. ASSUME NEW i \in Ids, NEW x \in Indices
      PROVE  /\ session'[i][x] \in SessionRecord
             /\ session'[i][x].stopping = session[i][x].stopping
             /\ session[i][x].asks \subseteq session'[i][x].asks
             /\ session'[i][x].asks \subseteq session[i][x].asks \cup {what}
  <2> DEFINE s == session[i][x]
             t == [s EXCEPT !.asks = @ \cup {what}]
  <2>1. s \in SessionRecord
    BY <1>1
  <2>2. session'[i][x] = t \/ session'[i][x] = s
    BY <1>2
  <2> HIDE DEF s
  <2>3. t \in SessionRecord /\ t.stopping = s.stopping /\ t.asks = s.asks \cup {what}
    BY <2>1 DEF SessionRecord, Asks
  <2> HIDE DEF t
  <2>4. /\ session'[i][x] \in SessionRecord
        /\ session'[i][x].stopping = s.stopping
        /\ s.asks \subseteq session'[i][x].asks
        /\ session'[i][x].asks \subseteq s.asks \cup {what}
    BY <2>1, <2>2, <2>3
  <2> QED
    BY <2>4 DEF s
<1>4. session' \in [Ids -> [Indices -> SessionRecord]]
  <2>1. /\ session' = [i \in Ids |-> session'[i]]
        /\ \A i \in Ids : session'[i] = [x \in Indices |-> session'[i][x]]
    BY <1>2
  <2>2. \A i \in Ids : session'[i] \in [Indices -> SessionRecord]
    BY <1>3, <2>1
  <2> QED
    BY <2>1, <2>2
<1>5. Types'
  BY <1>1, <1>2, <1>4, SameShape DEF Types
<1>6. Known'
  <2>1. CallsKnown'
    BY <1>1, <1>2, SameShape DEF Known, CallsKnown, Exists
  <2> QED
    BY <1>1, <1>2, <2>1, KnownKept DEF Known
<1>7. Doomed'
  <2>1. \A i \in Ids, x \in Indices :
           /\ session[i][x].stopping => session'[i][x].stopping
           /\ "shutdown" \in session[i][x].asks => "shutdown" \in session'[i][x].asks
    BY <1>3
  <2> QED
    BY <1>1, <1>2, <2>1, DoomedKept
<1>8. Live'
  <2>1. ASSUME NEW r \in Requests, req'[r].at = "streaming"
        PROVE  ~session'[req'[r].id][req'[r].idx].stopping
    <3>1. req'[r] = req[r] /\ req[r].at \notin Away
      BY <1>2, <2>1 DEF Away, Ended
    <3>2. ~session[req[r].id][req[r].idx].stopping
      BY <1>1, <2>1, <3>1 DEF Live
    <3>3. req[r].id \in Ids /\ req[r].idx \in Indices
      BY <3>1, OnStrand
    <3>4. session'[req[r].id][req[r].idx].stopping = session[req[r].id][req[r].idx].stopping
      BY <1>3, <3>3
    <3> QED
      BY <3>1, <3>2, <3>4
  <2> QED
    BY <2>1 DEF Live
<1>9. Asked'
  <2>1. \A i \in Ids, x \in Indices : "reset" \in session'[i][x].asks => "reset" \in calls'
    BY <1>1, <1>2, <1>3 DEF Asked
  <2>2. \A r \in Requests : req'[r].at = "reset" => "reset" \in calls'
    BY <1>1, <1>2 DEF Asked
  <2> QED
    BY <1>2, <2>1, <2>2, SameShape DEF Asked
<1>10. InflightExact'
  BY <1>1, <1>2, InflightForm, SameShape
<1> QED
  BY <1>5, <1>6, <1>7, <1>8, <1>9, <1>10 DEF Inv

\* A group that nobody can reach any more is destroyed: nothing refers to it.
LEMMA DestroyInv ==
  ASSUME Inv, NEW i \in Ids, Destroy(i)
  PROVE  Inv'
<1> DEFINE fresh == [x \in Indices |-> NewSession]
<1>1. /\ Types /\ Known /\ Doomed /\ Live /\ Asked /\ InflightExact /\ shape \in Shapes
      /\ group \in [Ids -> GroupRecord] /\ session \in [Ids -> [Indices -> SessionRecord]]
  BY DEF Inv, Types
<1>2. /\ ~Alive(i) /\ UNCHANGED <<shape, groups, req, pre, calls>>
      /\ group' = [group EXCEPT ![i] = NoGroup]
      /\ session' = [session EXCEPT ![i] = fresh]
  BY DEF Destroy
<1>3. NoGroup \in GroupRecord /\ NoGroup.key = None /\ NoGroup.inflight = 0
  BY <1>1, ShapeFacts DEF NoGroup, GroupRecord
<1>4. NewSession \in SessionRecord /\ NewSession.asks = {}
  BY DEF NewSession, SessionRecord
<1>5. fresh \in [Indices -> SessionRecord] /\ \A x \in Indices : fresh[x].asks = {}
  <2> HIDE DEF NewSession
  <2> QED
    BY <1>4
<1> HIDE DEF fresh
<1>6. /\ group' \in [Ids -> GroupRecord] /\ session' \in [Ids -> [Indices -> SessionRecord]]
      /\ group'[i] = NoGroup /\ session'[i] = fresh
      /\ \A j \in Ids \ {i} : group'[j] = group[j] /\ session'[j] = session[j]
  BY <1>1, <1>2, <1>3, <1>5
<1>7. /\ \A k \in Keys : groups[k] # i
      /\ \A r \in Requests : req[r].at \notin Away => req[r].id # i
      /\ pre.id # i
  BY <1>2 DEF Alive, InMap, Holders, Away
<1>8. Types'
  BY <1>1, <1>2, <1>6, SameShape DEF Types
<1>9. Known'
  <2>1. MapKnown'
    BY <1>1, <1>2, <1>6, <1>7, SameShape DEF Known, MapKnown, Exists
  <2>2. CallsKnown'
    BY <1>1, <1>2, <1>6, <1>7, SameShape DEF Known, CallsKnown, Exists
  <2>3. PreKnown'
    BY <1>1, <1>2, <1>6, <1>7, SameShape DEF Known, PreKnown, Exists
  <2> QED
    BY <2>1, <2>2, <2>3 DEF Known
<1>10. Doomed'
  BY <1>1, <1>2, <1>3, <1>6, SameShape DEF Doomed, InMap
<1>11. Live'
  <2>1. ASSUME NEW r \in Requests, req'[r].at = "streaming"
        PROVE  ~session'[req'[r].id][req'[r].idx].stopping
    <3>1. req'[r] = req[r] /\ req[r].at \notin Away
      BY <1>2, <2>1 DEF Away, Ended
    <3>2. req[r].id \in Ids \ {i}
      BY <1>7, <3>1, OnStrand
    <3> QED
      BY <1>1, <1>6, <2>1, <3>1, <3>2 DEF Live
  <2> QED
    BY <2>1 DEF Live
<1>12. Asked'
  <2>1. \A j \in Ids, x \in Indices : "reset" \in session'[j][x].asks => "reset" \in calls
    BY <1>1, <1>5, <1>6 DEF Asked
  <2> QED
    BY <1>1, <1>2, <2>1, SameShape DEF Asked
<1>13. InflightExact'
  <2>1. In(req', i) = {}
    <3>1. \A r \in Requests : req[r].at = "idle" => req[r].id # i
      BY <1>1, ShapeFacts DEF Known, CallsKnown, Away
    <3> QED
      BY <1>2, <1>7, <3>1 DEF In, Away
  <2>2. Cardinality(In(req', i)) = 0
    BY <2>1, FS_EmptySet
  <2> QED
    BY <1>1, <1>2, <1>3, <1>6, <2>2, InflightForm, SameShape
<1> QED
  BY <1>8, <1>9, <1>10, <1>11, <1>12, <1>13 DEF Inv

-----------------------------------------------------------------------------
(* The theorems.                                                            *)

LEMMA InitInv == Init => Inv
<1> SUFFICES ASSUME Init PROVE Inv
  OBVIOUS
<1>1. /\ shape \in Shapes /\ groups = [k \in Keys |-> None] /\ group = [i \in Ids |-> NoGroup]
      /\ session = [i \in Ids |-> [x \in Indices |-> NewSession]]
      /\ req = [r \in Requests |-> Caller("idle", None)] /\ pre = NoCall
  BY DEF Init
<1>2. Sessions \in Nat /\ Sessions >= 1
  BY <1>1, ShapeFacts
<1>3. NoGroup \in GroupRecord /\ NoGroup.key = None /\ NoGroup.inflight = 0
  BY <1>2 DEF NoGroup, GroupRecord
<1>4. NewSession \in SessionRecord /\ NewSession.asks = {}
  BY DEF NewSession, SessionRecord
<1> DEFINE c == Caller("idle", None)
<1>5. c \in CallRecord /\ c.at = "idle" /\ c.id = None
  BY <1>1, CallerType DEF Places, Away
<1>6. NoCall \in PreRecord
  BY <1>2 DEF NoCall, PreRecord
<1> HIDE DEF c
<1>7. /\ \A k \in Keys : groups[k] = None
      /\ \A i \in Ids : group[i] = NoGroup
      /\ \A i \in Ids, x \in Indices : session[i][x] = NewSession
      /\ \A r \in Requests : req[r] = c
  <2> HIDE DEF NoGroup, NewSession
  <2> QED
    BY <1>1 DEF c
<1>8. Types
  <2>1. session \in [Ids -> [Indices -> SessionRecord]]
    <3> HIDE DEF NewSession
    <3> QED
      BY <1>1, <1>4
  <2>2. group \in [Ids -> GroupRecord] /\ req \in [Requests -> CallRecord]
    BY <1>1, <1>3, <1>5 DEF c
  <2> QED
    BY <1>1, <1>6, <2>1, <2>2 DEF Types
<1>9. Known
  BY <1>1, <1>5, <1>7 DEF Known, MapKnown, CallsKnown, PreKnown, Away
<1>10. Doomed
  BY <1>3, <1>7 DEF Doomed
<1>11. Live /\ Asked
  BY <1>4, <1>5, <1>7 DEF Live, Asked
<1>12. InflightExact
  <2>1. None \notin Ids
    BY <1>1, ShapeFacts
  <2>2. \A i \in Ids : In(req, i) = {}
    BY <1>5, <1>7, <2>1 DEF In
  <2> QED
    BY <1>3, <1>7, <2>2, FS_EmptySet, InflightForm
<1> QED
  BY <1>8, <1>9, <1>10, <1>11, <1>12 DEF Inv

LEMMA NextInv == Inv /\ [Next]_vars => Inv'
<1> SUFFICES ASSUME Inv, [Next]_vars PROVE Inv'
  OBVIOUS
<1>1. CASE UNCHANGED vars
  <2>1. UNCHANGED <<shape, groups, group, session, req, pre, calls>>
    BY <1>1 DEF vars
  <2>2. MapStep
    BY <2>1, MapSame
  <2>3. req' \in [Requests -> CallRecord] /\ pre' \in PreRecord /\ PreKnown'
    BY <2>1, SameShape DEF Inv, Types, Known, PreKnown, Exists
  <2> QED
    BY <2>1, <2>2, <2>3, MapStepInv
<1>2. ASSUME NEW r \in Requests,
             \/ Start(r) \/ Decide(r) \/ Route(r) \/ Arrive(r) \/ Proceed(r)
             \/ TakeSlot(r) \/ SlotWaitEnds(r) \/ Answer(r)
      PROVE  Inv'
  BY <1>2, StartInv, DecideInv, RouteInv, ArriveInv, RequestInv
<1>3. ASSUME NEW i \in Ids, NEW x \in Indices,
             ConnectEnds(i, x) \/ Break(i, x) \/ \E what \in Asks : RunAsk(i, x, what)
      PROVE  Inv'
  BY <1>3, ConnectEndsInv, BreakInv, RunAskInv
<1>4. CASE RunMaintenance
  BY <1>4, RunMaintenanceInv
<1>5. CASE ResetConnections
  BY <1>5, CallAllInv DEF ResetConnections
<1>6. CASE Shutdown
  BY <1>6, CallAllInv DEF Shutdown
<1>7. CASE PreconnectStore
  BY <1>7, PreconnectStoreInv
<1>8. ASSUME NEW target \in 1..Sessions, PreconnectStart(target) PROVE Inv'
  BY <1>8, PreconnectStartInv
<1>9. ASSUME NEW i \in Ids, Destroy(i) PROVE Inv'
  BY <1>9, DestroyInv
<1> QED
  BY <1>1, <1>2, <1>3, <1>4, <1>5, <1>6, <1>7, <1>8, <1>9 DEF Next

\* The inductive invariant: what a request, a thread's cache or preconnect still
\* refers to exists, the sessions of a group that left the map have stopped or
\* have a shutdown posted, and inflight is exact.
THEOREM InvHolds == Spec => []Inv
BY InitInv, NextInv, PTL DEF Spec

\* A stream on a group that was evicted between group_for and the strand of the
\* session is about to be closed: the shutdown that evict_session_groups_locked
\* posted has not run yet.
THEOREM EvictedServeNobody == Spec => []EvictedGroupsServeNobody
<1>1. Inv => EvictedGroupsServeNobody
  <2> SUFFICES ASSUME Inv, NEW r \in Requests, req[r].at = "streaming", ~InMap(req[r].id)
               PROVE  "shutdown" \in session[req[r].id][req[r].idx].asks
    BY DEF EvictedGroupsServeNobody
  <2>1. req[r].at \notin Away
    BY DEF Away, Ended
  <2>2. req[r].idx \in Indices
    BY <2>1, OnStrand
  <2>3. Exists(req[r].id)
    BY <2>1 DEF Inv, Known, CallsKnown
  <2> QED
    BY <2>2, <2>3 DEF Inv, Doomed, Live, Exists
<1> QED
  BY <1>1, InvHolds, PTL

\* request_reset_if_idle looks again on the strand, so scaling down takes no
\* stream away from a request that chose the session in the meantime.
THEOREM ScaleDownHarmless == Spec => []ScaleDownHarmsNobody
<1>1. Inv => ScaleDownHarmsNobody
  BY DEF Inv, Asked, ScaleDownHarmsNobody
<1> QED
  BY <1>1, InvHolds, PTL

-----------------------------------------------------------------------------
(* The list.                                                                *)

\* A list without repetitions of exactly the keys of S.
Lists(l, S) ==
  /\ l \in Seq(S)
  /\ \A m, n \in 1..Len(l) : l[m] = l[n] => m = n
  /\ \A k \in S : \E n \in 1..Len(l) : l[n] = k

\* What Without has kept of the first i keys.
Keeps(l, K, f, n) ==
  f = [i \in 0..n |-> IF i = 0 THEN <<>>
                      ELSE IF l[i] \in K THEN f[i - 1] ELSE Append(f[i - 1], l[i])]

LEMMA KeepsExists ==
  ASSUME NEW l, NEW K, NEW n \in Nat
  PROVE  \E f : Keeps(l, K, f, n)
<1> DEFINE Bad == {m \in 0..n : ~\E f : Keeps(l, K, f, m)}
<1>1. Bad = {}
  <2> SUFFICES ASSUME Bad # {} PROVE FALSE
    OBVIOUS
  <2>1. PICK m \in Bad : \A p \in Bad : m <= p
    <3>1. Bad \subseteq Nat
      OBVIOUS
    <3> HIDE DEF Bad
    <3> QED
      BY <3>1, LeastNumber
  <2>2. m \in 0..n /\ m \in Nat /\ ~\E f : Keeps(l, K, f, m)
    BY <2>1
  <2>3. m # 0
    <3>1. Keeps(l, K, [i \in 0..0 |-> <<>>], 0)
      BY DEF Keeps
    <3> QED
      BY <2>2, <3>1
  <2>4. m - 1 \in 0..n /\ m - 1 \notin Bad
    BY <2>1, <2>2, <2>3
  <2>5. PICK f : Keeps(l, K, f, m - 1)
    BY <2>4
  <2> DEFINE last == IF l[m] \in K THEN f[m - 1] ELSE Append(f[m - 1], l[m])
             h == [i \in 0..m |-> IF i = m THEN last ELSE f[i]]
  <2> HIDE DEF last
  <2>6. ASSUME NEW i \in 0..m
        PROVE  h[i] = IF i = 0 THEN <<>>
                      ELSE IF l[i] \in K THEN h[i - 1] ELSE Append(h[i - 1], l[i])
    <3>1. CASE i = m
      <4>1. h[i] = last /\ h[i - 1] = f[m - 1]
        BY <2>2, <2>3, <3>1
      <4> QED
        BY <2>3, <3>1, <4>1 DEF last
    <3>2. CASE i # m /\ i # 0
      <4>1. i \in 0..(m - 1) /\ h[i] = f[i] /\ h[i - 1] = f[i - 1]
        BY <2>2, <3>2
      <4>2. f[i] = IF l[i] \in K THEN f[i - 1] ELSE Append(f[i - 1], l[i])
        BY <2>5, <3>2, <4>1 DEF Keeps
      <4> QED
        BY <3>2, <4>1, <4>2
    <3>3. CASE i # m /\ i = 0
      BY <2>2, <2>3, <2>5, <3>3 DEF Keeps
    <3> QED
      BY <3>1, <3>2, <3>3
  <2>7. h = [i \in 0..m |-> h[i]]
    OBVIOUS
  <2> HIDE DEF h
  <2>8. Keeps(l, K, h, m)
    BY <2>6, <2>7 DEF Keeps
  <2> QED
    BY <2>2, <2>8
<1> QED
  BY <1>1

LEMMA WithoutIs ==
  ASSUME NEW l, NEW K, Len(l) \in Nat
  PROVE  \E f : Keeps(l, K, f, Len(l)) /\ Without(l, K) = f[Len(l)]
<1> DEFINE f == CHOOSE f : Keeps(l, K, f, Len(l))
<1>1. Without(l, K) = f[Len(l)]
  BY DEF Without, Keeps
<1>2. Keeps(l, K, f, Len(l))
  BY KeepsExists
<1> QED
  BY <1>1, <1>2

\* A list of the keys of S among the first i of l.
Front(l, i, S) == {k \in S : \E n \in 1..i : l[n] = k}

LEMMA OneMoreListed ==
  ASSUME NEW S, NEW l, Lists(l, S), NEW k, k \notin S
  PROVE  Lists(Append(l, k), S \cup {k}) /\ Lists(<<k>> \o l, S \cup {k})
<1>1. l \in Seq(S \cup {k}) /\ Len(l) \in Nat
  BY DEF Lists
<1>2. /\ Append(l, k) \in Seq(S \cup {k}) /\ Len(Append(l, k)) = Len(l) + 1
      /\ \A n \in 1..Len(l) : Append(l, k)[n] = l[n]
      /\ Append(l, k)[Len(l) + 1] = k
  BY <1>1
<1>3. /\ <<k>> \o l \in Seq(S \cup {k}) /\ Len(<<k>> \o l) = Len(l) + 1
      /\ \A n \in 1..Len(l) : (<<k>> \o l)[n + 1] = l[n]
      /\ (<<k>> \o l)[1] = k
  BY <1>1
<1>4. \A n \in 1..Len(l) : l[n] \in S /\ l[n] # k
  BY DEF Lists
<1>5. Lists(Append(l, k), S \cup {k})
  <2> DEFINE a == Append(l, k)
  <2> HIDE DEF a
  <2>1. a \in Seq(S \cup {k}) /\ Len(a) = Len(l) + 1 /\ a[Len(l) + 1] = k
        /\ \A n \in 1..Len(l) : a[n] = l[n]
    BY <1>2 DEF a
  <2>2. ASSUME NEW m \in 1..Len(a), NEW n \in 1..Len(a), a[m] = a[n] PROVE m = n
    <3>1. /\ m = Len(l) + 1 \/ (m \in 1..Len(l) /\ a[m] = l[m])
          /\ n = Len(l) + 1 \/ (n \in 1..Len(l) /\ a[n] = l[n])
      BY <1>1, <2>1
    <3>2. CASE m = Len(l) + 1 \/ n = Len(l) + 1
      BY <1>4, <2>1, <2>2, <3>1, <3>2
    <3>3. CASE m \in 1..Len(l) /\ n \in 1..Len(l)
      BY <2>1, <2>2, <3>3 DEF Lists
    <3> QED
      BY <3>1, <3>2, <3>3
  <2>3. ASSUME NEW q \in S \cup {k} PROVE \E n \in 1..Len(a) : a[n] = q
    <3>1. CASE q = k
      BY <1>1, <2>1, <3>1
    <3>2. CASE q \in S
      <4>1. PICK n \in 1..Len(l) : l[n] = q
        BY <3>2 DEF Lists
      <4> QED
        BY <1>1, <2>1, <4>1
    <3> QED
      BY <3>1, <3>2
  <2>4. Lists(a, S \cup {k})
    BY <2>1, <2>2, <2>3 DEF Lists
  <2> QED
    BY <2>4 DEF a
<1>6. Lists(<<k>> \o l, S \cup {k})
  <2> DEFINE a == <<k>> \o l
  <2> HIDE DEF a
  <2>1. /\ a \in Seq(S \cup {k}) /\ Len(a) = Len(l) + 1 /\ a[1] = k
        /\ \A n \in 1..Len(l) : a[n + 1] = l[n]
    BY <1>3 DEF a
  <2>2. \A n \in 1..Len(a) : n # 1 => n - 1 \in 1..Len(l) /\ a[n] = l[n - 1]
    BY <1>1, <2>1
  <2>3. ASSUME NEW m \in 1..Len(a), NEW n \in 1..Len(a), a[m] = a[n] PROVE m = n
    <3>1. CASE m = 1 \/ n = 1
      BY <1>4, <2>1, <2>2, <2>3, <3>1
    <3>2. CASE m # 1 /\ n # 1
      <4>1. m - 1 \in 1..Len(l) /\ n - 1 \in 1..Len(l) /\ l[m - 1] = l[n - 1]
        BY <2>2, <2>3, <3>2
      <4>2. m - 1 = n - 1
        BY <4>1 DEF Lists
      <4> QED
        BY <1>1, <2>1, <4>2
    <3> QED
      BY <3>1, <3>2
  <2>4. ASSUME NEW q \in S \cup {k} PROVE \E n \in 1..Len(a) : a[n] = q
    <3>1. CASE q = k
      BY <1>1, <2>1, <3>1
    <3>2. CASE q \in S
      <4>1. PICK n \in 1..Len(l) : l[n] = q
        BY <3>2 DEF Lists
      <4>2. n + 1 \in 1..Len(a)
        BY <1>1, <2>1
      <4> QED
        BY <2>1, <4>1, <4>2
    <3> QED
      BY <3>1, <3>2
  <2>5. Lists(a, S \cup {k})
    BY <2>1, <2>3, <2>4 DEF Lists
  <2> QED
    BY <2>5 DEF a
<1> QED
  BY <1>5, <1>6

\* Without keeps the order and drops the keys of K.
LEMMA WithoutLists ==
  ASSUME NEW S, NEW l, Lists(l, S), NEW K
  PROVE  Lists(Without(l, K), S \ K)
<1>0. Len(l) \in Nat /\ l \in Seq(S)
  BY DEF Lists
<1>1. PICK f : Keeps(l, K, f, Len(l)) /\ Without(l, K) = f[Len(l)]
  BY <1>0, WithoutIs
<1> DEFINE Bad == {i \in 0..Len(l) : ~Lists(f[i], Front(l, i, S) \ K)}
<1>2. Bad = {}
  <2> SUFFICES ASSUME Bad # {} PROVE FALSE
    OBVIOUS
  <2>1. PICK i \in Bad : \A p \in Bad : i <= p
    <3>1. Bad \subseteq Nat
      OBVIOUS
    <3> HIDE DEF Bad
    <3> QED
      BY <3>1, LeastNumber
  <2>2. i \in 0..Len(l) /\ i \in Nat /\ ~Lists(f[i], Front(l, i, S) \ K)
    BY <1>0, <2>1
  <2>3. i # 0
    <3>1. f[0] = <<>> /\ Front(l, 0, S) \ K = {}
      BY <1>0, <1>1 DEF Keeps, Front
    <3>2. Lists(<<>>, {})
      BY DEF Lists
    <3> QED
      BY <2>2, <3>1, <3>2
  <2>4. i - 1 \in 0..Len(l) /\ i - 1 \notin Bad
    <3>1. i - 1 \in 0..Len(l) /\ ~(i <= i - 1)
      BY <1>0, <2>2, <2>3
    <3> HIDE DEF Bad
    <3> QED
      BY <2>1, <3>1
  <2>5. Lists(f[i - 1], Front(l, i - 1, S) \ K)
    BY <2>4
  <2>6. i \in 1..Len(l) /\ l[i] \in S
    BY <1>0, <2>2, <2>3
  <2>7. f[i] = IF l[i] \in K THEN f[i - 1] ELSE Append(f[i - 1], l[i])
    BY <1>1, <2>2, <2>3 DEF Keeps
  <2>8. Front(l, i, S) = Front(l, i - 1, S) \cup {l[i]}
    BY <2>2, <2>6 DEF Front
  <2>9. l[i] \notin Front(l, i - 1, S)
    <3>1. ASSUME NEW n \in 1..(i - 1), l[n] = l[i] PROVE FALSE
      <4>1. n \in 1..Len(l) /\ n # i
        BY <1>0, <2>2
      <4> QED
        BY <2>6, <3>1, <4>1 DEF Lists
    <3> QED
      BY <3>1 DEF Front
  <2>10. CASE l[i] \in K
    <3>1. Front(l, i, S) \ K = Front(l, i - 1, S) \ K
      BY <2>8, <2>10
    <3> QED
      BY <2>2, <2>5, <2>7, <2>10, <3>1
  <2>11. CASE l[i] \notin K
    <3>1. Front(l, i, S) \ K = (Front(l, i - 1, S) \ K) \cup {l[i]}
      BY <2>8, <2>11
    <3>2. l[i] \notin Front(l, i - 1, S) \ K
      BY <2>9
    <3>3. Lists(Append(f[i - 1], l[i]), (Front(l, i - 1, S) \ K) \cup {l[i]})
      BY <2>5, <3>2, OneMoreListed
    <3> QED
      BY <2>2, <2>7, <2>11, <3>1, <3>3
  <2> QED
    BY <2>10, <2>11
<1>3. Lists(f[Len(l)], Front(l, Len(l), S) \ K)
  <2>1. Len(l) \in 0..Len(l)
    BY <1>0
  <2> QED
    BY <1>2, <2>1
<1>4. Front(l, Len(l), S) = S
  BY DEF Front, Lists
<1> QED
  BY <1>1, <1>3, <1>4

LEMMA TouchedLists ==
  ASSUME NEW S, NEW l, Lists(l, S), NEW k \in S
  PROVE  Lists(Touched(l, k), S)
<1>1. Lists(Without(l, {k}), S \ {k})
  BY WithoutLists
<1>2. (S \ {k}) \cup {k} = S /\ k \notin S \ {k}
  OBVIOUS
<1>3. Lists(<<k>> \o Without(l, {k}), (S \ {k}) \cup {k})
  BY <1>1, <1>2, OneMoreListed
<1> QED
  BY <1>2, <1>3 DEF Touched

\* Such a list is as long as the set is large.
LEMMA ListsCount ==
  ASSUME NEW S, NEW l, Lists(l, S)
  PROVE  /\ Len(l) \in Nat /\ IsFiniteSet(S) /\ Cardinality(S) = Len(l)
         /\ {l[n] : n \in DOMAIN l} = S
<1>1. Len(l) \in Nat /\ l \in [1..Len(l) -> S] /\ DOMAIN l = 1..Len(l)
  BY DEF Lists
<1>2. l \in Bijection(1..Len(l), S)
  BY <1>1 DEF Lists, Bijection, Injection, Surjection, IsInjective
<1>3. IsFiniteSet(1..Len(l)) /\ Cardinality(1..Len(l)) = Len(l)
  <2>1. \A a, b \in Int : IsFiniteSet(a..b)
                          /\ Cardinality(a..b) = IF a > b THEN 0 ELSE b - a + 1
    BY FS_Interval
  <2> QED
    BY <1>1, <2>1, SMTT(30)
<1>4. IsFiniteSet(S) /\ Cardinality(1..Len(l)) = Cardinality(S)
  BY <1>2, <1>3, FS_Bijection DEF ExistsBijection
<1> QED
  BY <1>1, <1>3, <1>4 DEF Lists

-----------------------------------------------------------------------------
(* The scan.                                                                *)

\* What the scan makes of the i-th key from the end.
Stage(l, idle, expired, limit, periodic, before, i) ==
  LET n == Len(l)
      key == l[n + 1 - i]
      size == n - Cardinality(before.gone)
  IN  CASE before.stop -> before
        [] ~before.stop /\ key \in idle /\ (key \in expired \/ size >= limit) ->
             [before EXCEPT !.gone = @ \cup {key}]
        [] OTHER -> [before EXCEPT !.stop = ~periodic /\ size < limit]

Scans(l, idle, expired, limit, periodic, f, n) ==
  f = [i \in 0..n |-> IF i = 0 THEN [gone |-> {}, stop |-> FALSE]
                      ELSE Stage(l, idle, expired, limit, periodic, f[i - 1], i)]

LEMMA ScansExists ==
  ASSUME NEW l, NEW idle, NEW expired, NEW limit, NEW periodic, NEW n \in Nat
  PROVE  \E f : Scans(l, idle, expired, limit, periodic, f, n)
<1> DEFINE St(before, i) == Stage(l, idle, expired, limit, periodic, before, i)
           Sc(f, m) == Scans(l, idle, expired, limit, periodic, f, m)
           Bad == {m \in 0..n : ~\E f : Sc(f, m)}
<1>0. \A f, m : Sc(f, m) <=> f = [i \in 0..m |-> IF i = 0 THEN [gone |-> {}, stop |-> FALSE]
                                                 ELSE St(f[i - 1], i)]
  BY DEF Scans
<1> HIDE DEF St, Sc
<1>1. Bad = {}
  <2> SUFFICES ASSUME Bad # {} PROVE FALSE
    OBVIOUS
  <2>1. PICK m \in Bad : \A p \in Bad : m <= p
    <3>1. Bad \subseteq Nat
      OBVIOUS
    <3> HIDE DEF Bad
    <3> QED
      BY <3>1, LeastNumber
  <2>2. m \in 0..n /\ m \in Nat /\ ~\E f : Sc(f, m)
    BY <2>1
  <2>3. m # 0
    <3> DEFINE first == [gone |-> {}, stop |-> FALSE]
               f == [i \in 0..0 |-> first]
    <3> HIDE DEF first
    <3>1. f = [i \in 0..0 |-> IF i = 0 THEN first ELSE St(f[i - 1], i)]
      OBVIOUS
    <3> HIDE DEF f
    <3>2. Sc(f, 0)
      BY <1>0, <3>1 DEF first
    <3> QED
      BY <2>2, <3>2
  <2>4. m - 1 \in 0..n /\ m - 1 \notin Bad
    BY <2>1, <2>2, <2>3
  <2>5. PICK f : Sc(f, m - 1)
    BY <2>4
  <2>6. f = [i \in 0..(m - 1) |-> IF i = 0 THEN [gone |-> {}, stop |-> FALSE]
                                  ELSE St(f[i - 1], i)]
    BY <1>0, <2>5
  <2> DEFINE h == [i \in 0..m |-> IF i = m THEN St(f[m - 1], m) ELSE f[i]]
  <2>7. ASSUME NEW i \in 0..m
        PROVE  h[i] = IF i = 0 THEN [gone |-> {}, stop |-> FALSE] ELSE St(h[i - 1], i)
    <3>1. CASE i = m
      <4>1. h[i] = St(f[m - 1], m) /\ h[i - 1] = f[m - 1]
        BY <2>2, <2>3, <3>1
      <4> QED
        BY <2>3, <3>1, <4>1
    <3>2. CASE i # m /\ i # 0
      <4>1. i \in 0..(m - 1) /\ h[i] = f[i] /\ h[i - 1] = f[i - 1]
        BY <2>2, <3>2
      <4>2. f[i] = St(f[i - 1], i)
        BY <2>6, <3>2, <4>1
      <4> QED
        BY <3>2, <4>1, <4>2
    <3>3. CASE i # m /\ i = 0
      BY <2>2, <2>3, <2>6, <3>3
    <3> QED
      BY <3>1, <3>2, <3>3
  <2>8. h = [i \in 0..m |-> h[i]]
    OBVIOUS
  <2> HIDE DEF h
  <2>9. h = [i \in 0..m |-> IF i = 0 THEN [gone |-> {}, stop |-> FALSE] ELSE St(h[i - 1], i)]
    BY <2>7, <2>8
  <2> QED
    BY <1>0, <2>2, <2>9
<1> QED
  BY <1>1 DEF Sc

LEMMA RemovedIs ==
  ASSUME NEW l, NEW idle, NEW expired, NEW limit, NEW periodic, Len(l) \in Nat
  PROVE  \E f : /\ Scans(l, idle, expired, limit, periodic, f, Len(l))
                /\ Removed(l, idle, expired, limit, periodic) = f[Len(l)].gone
<1> DEFINE f == CHOOSE f : Scans(l, idle, expired, limit, periodic, f, Len(l))
<1>1. Removed(l, idle, expired, limit, periodic) = f[Len(l)].gone
  BY Zenon DEF Removed, Scans, Stage
<1>2. Scans(l, idle, expired, limit, periodic, f, Len(l))
  BY ScansExists
<1> QED
  BY <1>1, <1>2

ScanRecord(S) == [gone : SUBSET S, stop : BOOLEAN]

\* The scan has more keys before it than the limit allows.
TooMany(l, limit, before) ==
  Len(l) - Cardinality(before.gone) >= limit /\ ~(Len(l) - Cardinality(before.gone) < limit)

StageEnds(S, l, idle, limit, before, after, i) ==
  /\ after \in ScanRecord(S) /\ before.gone \subseteq after.gone
  /\ ~before.stop /\ TooMany(l, limit, before) =>
       ~after.stop /\ (l[Len(l) + 1 - i] \in idle => l[Len(l) + 1 - i] \in after.gone)

\* A key is passed over, removed, or ends the scan.
LEMMA StageDoes ==
  ASSUME NEW S, NEW l, NEW idle, NEW expired, NEW limit, NEW periodic \in BOOLEAN, NEW i,
         NEW before \in ScanRecord(S), l[Len(l) + 1 - i] \in S
  PROVE  StageEnds(S, l, idle, limit, before,
                   Stage(l, idle, expired, limit, periodic, before, i), i)
<1> DEFINE after == Stage(l, idle, expired, limit, periodic, before, i)
           key == l[Len(l) + 1 - i]
           size == Len(l) - Cardinality(before.gone)
<1>0. before.gone \in SUBSET S /\ before.stop \in BOOLEAN
  BY DEF ScanRecord
<1>1. CASE before.stop
  BY <1>0, <1>1 DEF Stage, StageEnds
<1> DEFINE v == [before EXCEPT !.gone = before.gone \cup {key}]
           w == [before EXCEPT !.stop = ~periodic /\ size < limit]
<1>2. v \in ScanRecord(S) /\ v.gone = before.gone \cup {key} /\ v.stop = before.stop
  BY DEF ScanRecord
<1>3. w \in ScanRecord(S) /\ w.gone = before.gone /\ (w.stop <=> (~periodic /\ size < limit))
  BY DEF ScanRecord
<1>4. CASE ~before.stop /\ key \in idle /\ (key \in expired \/ size >= limit)
  <2>1. after = v
    BY <1>4 DEF Stage
  <2> HIDE DEF v, after, key, size
  <2> QED
    BY <1>2, <1>4, <2>1 DEF StageEnds, after, key
<1>5. CASE ~before.stop /\ ~(key \in idle /\ (key \in expired \/ size >= limit))
  <2>1. after = w
    BY <1>5 DEF Stage
  <2> HIDE DEF w, after, key, size
  <2> QED
    BY <1>3, <1>5, <2>1 DEF StageEnds, TooMany, after, key, size
<1> QED
  BY <1>0, <1>1, <1>4, <1>5

\* If more keys stay than the limit allows, none of them is idle.
LEMMA RemovedAll ==
  ASSUME NEW S, NEW l, Lists(l, S), NEW idle, NEW expired, NEW limit \in Nat,
         NEW periodic \in BOOLEAN,
         NEW gone, gone = Removed(l, idle, expired, limit, periodic)
  PROVE  /\ gone \subseteq S
         /\ Len(l) - Cardinality(gone) >= limit => \A k \in S \ gone : k \notin idle
<1> DEFINE n == Len(l)
<1>0. n \in Nat /\ l \in Seq(S) /\ IsFiniteSet(S)
  BY ListsCount DEF Lists
<1>1. PICK f : /\ Scans(l, idle, expired, limit, periodic, f, n)
               /\ gone = f[n].gone
  BY <1>0, RemovedIs
<1>2. ASSUME NEW i \in 0..n
      PROVE  f[i] = IF i = 0 THEN [gone |-> {}, stop |-> FALSE]
                    ELSE Stage(l, idle, expired, limit, periodic, f[i - 1], i)
  BY <1>1 DEF Scans
<1>3. \A i \in 1..n : n + 1 - i \in 1..n /\ l[n + 1 - i] \in S
  BY <1>0
<1> HIDE DEF n
<1> DEFINE Grown(i) == f[i] \in ScanRecord(S) /\ \A j \in 0..i : f[j].gone \subseteq f[i].gone
           Bad == {i \in 0..n : ~Grown(i)}
<1>4. ASSUME NEW i \in 0..n PROVE Grown(i)
  <2> SUFFICES ASSUME Bad # {} PROVE FALSE
    OBVIOUS
  <2>1. PICK m \in Bad : \A p \in Bad : m <= p
    <3>1. Bad \subseteq Nat
      OBVIOUS
    <3> HIDE DEF Bad
    <3> QED
      BY <3>1, LeastNumber
  <2>2. m \in 0..n /\ m \in Nat /\ ~Grown(m)
    BY <2>1
  <2>3. m # 0
    <3>1. f[0] = [gone |-> {}, stop |-> FALSE]
      BY <1>0, <1>2
    <3>2. f[0] \in ScanRecord(S)
      BY <3>1 DEF ScanRecord
    <3>3. Grown(0)
      BY <3>2
    <3> QED
      BY <2>2, <3>3
  <2>4. m - 1 \in 0..n /\ m - 1 \notin Bad
    <3>1. m - 1 \in 0..n /\ ~(m <= m - 1)
      BY <1>0, <2>2, <2>3
    <3> HIDE DEF Bad
    <3> QED
      BY <2>1, <3>1
  <2>5. Grown(m - 1)
    BY <2>4
  <2>6. f[m] = Stage(l, idle, expired, limit, periodic, f[m - 1], m)
    BY <1>2, <2>2, <2>3
  <2>7. m \in 1..n
    BY <1>0, <2>2, <2>3
  <2>8. f[m] \in ScanRecord(S) /\ f[m - 1].gone \subseteq f[m].gone
    <3>1. f[m - 1] \in ScanRecord(S) /\ l[Len(l) + 1 - m] \in S
      BY <1>3, <2>5, <2>7 DEF n
    <3>2. StageEnds(S, l, idle, limit, f[m - 1], f[m], m)
      BY <2>6, <3>1, StageDoes
    <3> QED
      BY <3>2 DEF StageEnds
  <2>9. ASSUME NEW j \in 0..m PROVE f[j].gone \subseteq f[m].gone
    <3>1. j = m \/ j \in 0..(m - 1)
      BY <2>2
    <3> QED
      BY <2>5, <2>8, <3>1
  <2> QED
    BY <2>2, <2>8, <2>9
<1>5. gone \subseteq S
  BY <1>0, <1>1, <1>4 DEF ScanRecord
<1>6. ASSUME n - Cardinality(gone) >= limit, NEW k \in S \ gone, k \in idle
      PROVE  FALSE
  <2> DEFINE Passed(i) ==
               ~f[i].stop /\ \A j \in 1..i : l[n + 1 - j] \in idle => l[n + 1 - j] \in f[i].gone
             Worse == {i \in 0..n : ~Passed(i)}
  <2>1. ASSUME NEW i \in 0..n PROVE Passed(i)
    <3> SUFFICES ASSUME Worse # {} PROVE FALSE
      OBVIOUS
    <3>1. PICK m \in Worse : \A p \in Worse : m <= p
      <4>1. Worse \subseteq Nat
        OBVIOUS
      <4> HIDE DEF Worse
      <4> QED
        BY <4>1, LeastNumber
    <3>2. m \in 0..n /\ m \in Nat /\ ~Passed(m)
      BY <3>1
    <3>3. m # 0
      <4>1. f[0] = [gone |-> {}, stop |-> FALSE]
        BY <1>0, <1>2
      <4>2. Passed(0)
        BY <4>1
      <4> QED
        BY <3>2, <4>2
    <3>4. m - 1 \in 0..n /\ m - 1 \notin Worse
      <4>1. m - 1 \in 0..n /\ ~(m <= m - 1)
        BY <1>0, <3>2, <3>3
      <4> HIDE DEF Worse
      <4> QED
        BY <3>1, <4>1
    <3>5. Passed(m - 1)
      BY <3>4
    <3> DEFINE before == f[m - 1]
    <3>6. before \in ScanRecord(S) /\ before.gone \subseteq f[n].gone /\ before.gone \subseteq S
      <4>1. m - 1 \in 0..n /\ n \in 0..n
        BY <1>0, <3>4
      <4>2. Grown(m - 1) /\ Grown(n)
        BY <1>4, <4>1
      <4> QED
        BY <4>1, <4>2 DEF ScanRecord
    <3>7. TooMany(l, limit, before)
      <4>1. IsFiniteSet(gone)
        BY <1>0, <1>5, FS_Subset
      <4>2. /\ Cardinality(before.gone) <= Cardinality(gone)
            /\ Cardinality(before.gone) \in Nat /\ Cardinality(gone) \in Nat
        BY <1>1, <3>6, <4>1, FS_Subset, FS_CardinalityType
      <4> HIDE DEF before
      <4> QED
        BY <1>0, <1>6, <4>2 DEF TooMany, n
    <3>8. f[m] = Stage(l, idle, expired, limit, periodic, before, m)
      BY <1>2, <3>2, <3>3
    <3>9. m \in 1..n
      BY <1>0, <3>2, <3>3
    <3>10. ~before.stop
      BY <3>5
    <3> DEFINE key == l[n + 1 - m]
    <3>11. key \in S
      BY <1>3, <3>9
    <3> HIDE DEF before
    <3>12. /\ before.gone \subseteq f[m].gone
           /\ ~f[m].stop /\ (key \in idle => key \in f[m].gone)
      <4>1. StageEnds(S, l, idle, limit, before, f[m], m)
        BY <3>6, <3>8, <3>11, StageDoes DEF n
      <4> QED
        BY <3>7, <3>10, <4>1 DEF StageEnds, n
    <3>13. ASSUME NEW j \in 1..m, l[n + 1 - j] \in idle PROVE l[n + 1 - j] \in f[m].gone
      <4>1. j = m \/ j \in 1..(m - 1)
        BY <3>2
      <4> QED
        BY <3>5, <3>12, <3>13, <4>1 DEF before
    <3> QED
      BY <3>2, <3>12, <3>13
  <2>2. PICK p \in 1..n : l[p] = k
    BY DEF Lists, n
  <2>3. n + 1 - p \in 1..n /\ n + 1 - (n + 1 - p) = p /\ n \in 0..n
    BY <1>0
  <2>4. Passed(n)
    BY <2>1, <2>3
  <2>5. k \in f[n].gone
    BY <1>6, <2>2, <2>3, <2>4
  <2> QED
    BY <1>1, <1>6, <2>5
<1> QED
  BY <1>5, <1>6 DEF n

-----------------------------------------------------------------------------
(* The list and the map.                                                    *)

\* group_lru_ has each key of groups_ once.
Listed == Lists(lru, Mapped)

\* What LimitExceededOnlyWhenBusy says of a step.
Makes ==
  Mapped' \ Mapped # {} /\ MaxGroups > 0 /\ Cardinality(Mapped') > MaxGroups
    => \A k \in Mapped \cap Mapped' : ~GroupIdle(groups[k])

LEMMA EvictedWhat ==
  ASSUME Listed, NEW old
  PROVE  /\ Evicted(old) \subseteq Mapped
         /\ MaxGroups > 0 /\ Len(lru) - Cardinality(Evicted(old)) >= MaxGroups =>
              \A k \in Mapped \ Evicted(old) : ~GroupIdle(groups[k])
<1> DEFINE idle == {k \in Keys : groups[k] # None /\ GroupIdle(groups[k])}
           expired == {lru[n] : n \in (Len(lru) + 1 - old)..Len(lru)}
           periodic == FALSE
           E == Evicted(old)
<1>1. CASE MaxGroups = 0
  BY <1>1 DEF Evicted
<1>2. CASE MaxGroups # 0
  <2>1. E = Removed(lru, idle, expired, MaxGroups, periodic)
    BY <1>2 DEF Evicted
  <2>2. periodic \in BOOLEAN /\ MaxGroups \in Nat
    BY GroupAssumption
  <2> HIDE DEF E, idle, expired, periodic
  <2>3. /\ E \subseteq Mapped
        /\ Len(lru) - Cardinality(E) >= MaxGroups => \A k \in Mapped \ E : k \notin idle
    BY <2>1, <2>2, RemovedAll DEF Listed
  <2>4. \A k \in Mapped : k \notin idle => ~GroupIdle(groups[k])
    BY DEF idle, Mapped
  <2> QED
    BY <2>3, <2>4 DEF E
<1> QED
  BY <1>1, <1>2

\* Nothing is added to the map.
LEMMA NothingMade ==
  ASSUME Mapped' \subseteq Mapped
  PROVE  Makes
BY DEF Makes

LEMMA MapUnchanged ==
  ASSUME Listed, UNCHANGED <<groups, lru>>
  PROVE  Listed' /\ Makes
<1>1. Mapped' = Mapped
  BY DEF Mapped
<1> QED
  BY <1>1, NothingMade DEF Listed

\* splice moves a key of the map.
LEMMA MapTouched ==
  ASSUME Listed, UNCHANGED groups, NEW k \in Keys, groups[k] # None, lru' = Touched(lru, k)
  PROVE  Listed' /\ Makes
<1>1. Mapped' = Mapped /\ k \in Mapped
  BY DEF Mapped
<1>2. Lists(lru', Mapped)
  BY <1>1, TouchedLists DEF Listed
<1> QED
  BY <1>1, <1>2, NothingMade DEF Listed

\* Eviction comes before the new group: what stays is all that the limit has
\* to give way to.
LEMMA MapNew ==
  ASSUME Inv, Listed, NEW h \in Threads, NEW k \in Keys, NEW i \in Ids, NewGroup(h, k, i)
  PROVE  Listed' /\ Makes
<1>1. PICK old :
        /\ groups' = [q \in Keys |-> CASE q = k -> i
                                       [] q # k /\ q \in Evicted(old) -> None
                                       [] OTHER -> groups[q]]
        /\ lru' = <<k>> \o Without(lru, Evicted(old))
  BY DEF NewGroup
<1> DEFINE E == Evicted(old)
           R == Mapped \ E
           l == Without(lru, E)
<1>2. groups[k] = None /\ i # None
  BY ShapeFacts DEF NewGroup, Inv, Types
<1>3. /\ E \subseteq Mapped
      /\ MaxGroups > 0 /\ Len(lru) - Cardinality(E) >= MaxGroups =>
           \A q \in Mapped \ E : ~GroupIdle(groups[q])
  BY EvictedWhat
<1>4. lru' = <<k>> \o l
  BY <1>1
<1>5. groups' = [q \in Keys |-> CASE q = k -> i
                                  [] q # k /\ q \in E -> None
                                  [] OTHER -> groups[q]]
  BY <1>1
<1>6. Lists(l, R)
  BY WithoutLists DEF Listed
<1> HIDE DEF E, l
<1>7. Mapped' = R \cup {k} /\ k \notin Mapped
  BY <1>2, <1>5 DEF Mapped
<1>8. Listed'
  <2>1. k \notin R
    BY <1>7
  <2> HIDE DEF R
  <2>2. Lists(<<k>> \o l, R \cup {k})
    BY <1>6, <2>1, OneMoreListed
  <2> QED
    BY <1>4, <1>7, <2>2 DEF Listed
<1>9. ASSUME MaxGroups > 0, Cardinality(Mapped') > MaxGroups
      PROVE  \A q \in Mapped \cap Mapped' : ~GroupIdle(groups[q])
  <2>1. IsFiniteSet(Mapped) /\ Cardinality(Mapped) = Len(lru) /\ Len(lru) \in Nat
    BY ListsCount DEF Listed
  <2>2. IsFiniteSet(E) /\ IsFiniteSet(R) /\ Cardinality(E) \in Nat
    BY <1>3, <2>1, FS_Subset, FS_CardinalityType
  <2>3. Cardinality(R) = Len(lru) - Cardinality(E)
    <3>1. Mapped \cap E = E
      BY <1>3
    <3>2. Cardinality(R) = Cardinality(Mapped) - Cardinality(Mapped \cap E)
      BY <2>1, <2>2, FS_Difference
    <3> QED
      BY <2>1, <3>1, <3>2
  <2>4. Cardinality(R \cup {k}) = Cardinality(R) + 1
    BY <1>7, <2>2, FS_AddElement
  <2>5. Len(lru) - Cardinality(E) >= MaxGroups
    BY <1>7, <1>9, <2>1, <2>2, <2>3, <2>4, GroupAssumption
  <2> QED
    BY <1>3, <1>7, <1>9, <2>5
<1> QED
  BY <1>8, <1>9 DEF Makes

LEMMA MapFor ==
  ASSUME Inv, Listed, NEW h \in Threads, NEW k \in shape.keys, NEW i \in Ids, GroupFor(h, k, i)
  PROVE  Listed' /\ Makes
<1>1. k \in Keys /\ i # None
  BY GroupAssumption, ShapeFacts DEF Inv, Types
<1>2. CASE FromCache(h, k, i)
  BY <1>1, <1>2, MapTouched, MapUnchanged DEF FromCache
<1>3. CASE FromMap(h, k, i)
  BY <1>1, <1>3, MapTouched DEF FromMap
<1>4. CASE NewGroup(h, k, i)
  BY <1>1, <1>4, MapNew
<1> QED
  BY <1>2, <1>3, <1>4 DEF GroupFor

LEMMA MapMaintained ==
  ASSUME Inv, Listed, RunMaintenance
  PROVE  Listed' /\ Makes
<1>1. PICK old :
        /\ groups' = [k \in Keys |-> IF k \in Evicted(old) THEN None ELSE groups[k]]
        /\ lru' = Without(lru, Evicted(old))
  BY DEF RunMaintenance
<1> DEFINE E == Evicted(old)
<1>2. Mapped' = Mapped \ E
  BY <1>1 DEF Mapped
<1>3. Lists(Without(lru, E), Mapped \ E)
  BY WithoutLists DEF Listed
<1> QED
  BY <1>1, <1>2, <1>3, NothingMade DEF Listed

LEMMA MapStays ==
  ASSUME Inv, Listed, [Next]_vars
  PROVE  Listed' /\ Makes
<1>1. CASE UNCHANGED vars
  BY <1>1, MapUnchanged DEF vars
<1>2. ASSUME NEW r \in Requests, Start(r) PROVE Listed' /\ Makes
  BY <1>2, MapFor DEF Start
<1>3. ASSUME NEW r \in Requests,
             \/ Decide(r) \/ Route(r) \/ Arrive(r) \/ Proceed(r)
             \/ TakeSlot(r) \/ SlotWaitEnds(r) \/ Answer(r)
      PROVE  Listed' /\ Makes
  <2>1. UNCHANGED <<groups, lru>>
    BY <1>3, Zenon DEF Decide, Route, Arrive, Proceed, TakeSlot, SlotWaitEnds, Answer
  <2> QED
    BY <2>1, MapUnchanged, Zenon
<1>4. ASSUME NEW i \in Ids, NEW x \in Indices,
             ConnectEnds(i, x) \/ Break(i, x) \/ \E what \in Asks : RunAsk(i, x, what)
      PROVE  Listed' /\ Makes
  <2>1. UNCHANGED <<groups, lru>>
    BY <1>4, Zenon DEF ConnectEnds, Break, RunAsk
  <2> QED
    BY <2>1, MapUnchanged, Zenon
<1>5. CASE RunMaintenance
  BY <1>5, MapMaintained
<1>6. CASE ResetConnections \/ Shutdown \/ PreconnectStore
  <2>1. UNCHANGED <<groups, lru>>
    BY <1>6 DEF ResetConnections, Shutdown, CallAll, PreconnectStore
  <2> QED
    BY <2>1, MapUnchanged
<1>7. ASSUME NEW target \in 1..Sessions, PreconnectStart(target) PROVE Listed' /\ Makes
  BY <1>7, MapFor DEF PreconnectStart
<1>8. ASSUME NEW i \in Ids, Destroy(i) PROVE Listed' /\ Makes
  BY <1>8, MapUnchanged DEF Destroy
<1> QED
  BY <1>1, <1>2, <1>3, <1>4, <1>5, <1>6, <1>7, <1>8 DEF Next

LEMMA ListedAtFirst == Init => Listed
<1>1. SUFFICES ASSUME Init PROVE Listed
  OBVIOUS
<1>2. Mapped = {} /\ lru = <<>>
  BY <1>1 DEF Init, Mapped
<1> QED
  BY <1>2 DEF Listed, Lists

\* The list and the map have the same keys, whichever of group_for, eviction and
\* run_maintenance changes them.
THEOREM ListIsOfTheMap == Spec => []Listed
BY ListedAtFirst, MapStays, InvHolds, PTL DEF Spec

\* inflight counts exactly the requests between active_impl_count and their end,
\* the sessions in use are sessions of the group, and group_lru_ has exactly the
\* keys of groups_: what active_impl_count, choose_impl_index, run_maintenance and
\* evict_session_groups_locked decide on.
THEOREM BooksAreRight == Spec => []GroupAccounting
<1>1. Inv /\ Listed => GroupAccounting
  <2> SUFFICES ASSUME Inv, Listed PROVE ActiveInRange /\ ListMatchesMap
    BY DEF Inv, GroupAccounting
  <2>1. group \in [Ids -> GroupRecord]
    BY DEF Inv, Types
  <2>2. ActiveInRange
    BY <2>1 DEF ActiveInRange, GroupRecord
  <2>3. ListMatchesMap
    BY ListsCount DEF Listed, ListMatchesMap
  <2> QED
    BY <2>2, <2>3
<1> QED
  BY <1>1, InvHolds, ListIsOfTheMap, PTL

\* evict_session_groups_locked runs before the new group is added and scans the
\* whole list while there are too many: the limit is exceeded only when all the
\* groups that stay have work to do.
THEOREM LimitGivesWayToWork == Spec => LimitExceededOnlyWhenBusy
<1>1. Inv /\ Listed /\ [Next]_vars => [Makes]_vars
  BY MapStays
<1> QED
  BY <1>1, InvHolds, ListIsOfTheMap, PTL DEF Spec, LimitExceededOnlyWhenBusy, Makes
=============================================================================
