---------------------------- MODULE AsyncxProofs -----------------------------
(***************************************************************************)
(* Proofs about AsyncLimited, for maps of any length, any window and both  *)
(* functions, the caller cancelled or not, and, at the end, about          *)
(* AsyncTask, for any number of awaiters on any executors and any number   *)
(* of threads that bring continuations.  The two share no variable.        *)
(*                                                                         *)
(* The argument of the maps counts.  The indices below group->next are the *)
(* started ones (InOrder), and each of them either runs or has been        *)
(* counted in group->completed (Counted).  As long as nothing has failed,  *)
(* every launch that was made and every item that has ended has taken one  *)
(* index (Refilled); that sum is what keeps the window full.  What runs    *)
(* inside the launching loop was taken last (Inside), so that an error     *)
(* there can only be swallowed if it is that of the last index.            *)
(*                                                                         *)
(* The invariant of the task says where a continuation and a timer can be. *)
(* Each has one place at a time: in the list of the task, in the list that *)
(* complete_task has taken away, missed (a timer cancelled before it was   *)
(* armed), or done with.  The rest is what the executor adds: an awaiter on*)
(* it is never between its registration and its async_wait when the task   *)
(* takes the list, so that none of them is missed.                         *)
(***************************************************************************)
EXTENDS AsyncLimited, AsyncTask, FiniteSetTheorems, TLAPS

Types ==
  /\ kind \in {"gather_limited", "for_each_limited"}
  /\ total \in 0..MaxTotal /\ concurrency \in 0..MaxWindow
  /\ toLaunch \in Nat /\ next \in Nat /\ completed \in Nat
  /\ inline \in Indices \cup {NoItem}
  /\ stop \in BOOLEAN /\ error \in BOOLEAN /\ once \in BOOLEAN
  /\ item \in [Indices -> {"todo", "running", "value", "error"}]
  /\ parent \in {"start", "launching", "waiting", "returned", "threw"}
  /\ spent \in BOOLEAN

\* Indices are taken in their order, and only those of the map.
InOrder == \A i \in Indices : item[i] # "todo" <=> i < next /\ i < total

Smaller(m, n) == IF m < n THEN m ELSE n

\* An index that was taken runs, or its end has been counted.
Counted == completed + Cardinality(Running) = Smaller(next, total)

\* Every launch that was made and every item that has ended took an index.
Refilled ==
  parent \in {"launching", "waiting"} /\ ~stop => next + toLaunch = Window + completed

\* Before the call nothing has happened, and the loop is over when the caller waits.
Untouched ==
  /\ parent = "start" => next = 0 /\ completed = 0 /\ ~stop /\ ~error /\ ~spent
  /\ parent # "launching" => toLaunch = 0

\* What runs inside the loop of the caller was taken last, and a failure there
\* leaves the rest untaken.
Inside ==
  /\ inline # NoItem => parent = "launching" /\ next = inline + 1
  /\ parent = "launching" => ~spent
  /\ parent = "launching" => \A i \in Indices : item[i] = "error" => stop /\ next = i + 1

\* An item that failed has set first_error, and with it stop.
Reported ==
  /\ \A i \in Indices : item[i] = "error" => error
  /\ error => stop

\* Who has returned has its values, except for the error that it did not look at.
AllValues ==
  parent = "returned" =>
    \A i \in 0..(total - 1) :
      \/ item[i] = "value"
      \/ item[i] = "error" /\ kind = "for_each_limited" /\ spent /\ i = total - 1

\* wake_once is used up by a failure or by the last item.  The caller that finds
\* it so sleeps on.
Latched ==
  /\ (error \/ completed = total) /\ parent \in {"launching", "waiting"} => once
  /\ spent => error \/ completed = total
  /\ SpentCallSleeps

Inv ==
  /\ Types /\ InOrder /\ Counted /\ Refilled /\ Untouched /\ Inside /\ Reported /\ AllValues
  /\ Latched

------------------------------------------------------------------------------
(* The running items.                                                      *)

LEMMA RunningFinite ==
  /\ IsFiniteSet(Running) /\ Running \subseteq Indices
  /\ Cardinality(Running) \in Nat
<1>1. IsFiniteSet(Indices) BY FS_Interval, LimitedAssumption DEF Indices
<1>2. Running \subseteq Indices BY DEF Running
<1>. QED BY <1>1, <1>2, FS_Subset, FS_CardinalityType

LEMMA WindowInRange ==
  ASSUME Types, total # 0
  PROVE  Window \in 1..total
BY LimitedAssumption DEF Types, Window

\* One item less runs when one ends, and one more when one is taken.
LEMMA OneLess ==
  ASSUME NEW i \in Running
  PROVE  /\ IsFiniteSet(Running \ {i})
         /\ Cardinality(Running \ {i}) = Cardinality(Running) - 1
BY RunningFinite, FS_RemoveElement

LEMMA OneMore ==
  ASSUME NEW S, IsFiniteSet(S), NEW n, n \notin S
  PROVE  Cardinality(S \cup {n}) = Cardinality(S) + 1
BY FS_AddElement

------------------------------------------------------------------------------

LEMMA InitInv == Init => Inv
<1>. SUFFICES ASSUME Init PROVE Inv OBVIOUS
<1>0. total \in Nat /\ MaxTotal \in Nat BY LimitedAssumption DEF Init
<1>1. Types BY LimitedAssumption DEF Init, Types
<1>2. InOrder BY <1>0 DEF Init, InOrder, Indices
<1>3. Running = {} BY DEF Init, Running
<1>4. Counted BY <1>0, <1>3, FS_EmptySet DEF Init, Counted, Smaller
<1>5. Latched BY DEF Init, Latched, SpentCallSleeps
<1>. QED BY <1>1, <1>2, <1>4, <1>5 DEF Init, Inv, Refilled, Untouched, Inside, Reported, AllValues

LEMMA CallInv ==
  ASSUME Inv, Call
  PROVE  Inv'
<1>. USE DEF Inv
<1>0. /\ UNCHANGED <<kind, total, concurrency, inline, next, completed, stop, error, once, wake, item,
                     cancelled, spent>>
      /\ parent = "start"
  BY DEF Call, args
<1>1. Running' = Running /\ Window' = Window BY <1>0 DEF Running, Window
<1>2. InOrder' /\ Counted' BY <1>0, <1>1 DEF InOrder, Counted, Smaller
<1>3. ~stop /\ ~error /\ ~spent /\ next = 0 /\ completed = 0 /\ inline = NoItem /\ toLaunch = 0
  BY <1>0 DEF Untouched, Inside
<1>4. Reported' BY <1>0 DEF Reported
<1>5. CASE total = 0
  <2>1. parent' = "returned" /\ toLaunch' = toLaunch BY <1>5 DEF Call
  <2>2. Types' BY <1>0, <2>1 DEF Types
  <2>3. AllValues' BY <1>0, <1>5 DEF AllValues
  <2>4. Latched' BY <1>0, <1>3, <2>1 DEF Latched, SpentCallSleeps
  <2>. QED BY <1>0, <1>2, <1>3, <1>4, <2>1, <2>2, <2>3, <2>4 DEF Refilled, Untouched, Inside
<1>6. CASE total # 0
  <2>1. parent' = "launching" /\ toLaunch' = Window BY <1>6 DEF Call
  <2>2. Window \in Nat BY <1>6, WindowInRange DEF Types
  <2>3. Types' BY <1>0, <2>1, <2>2 DEF Types
  <2>4. Refilled' BY <1>0, <1>1, <1>3, <2>1, <2>2 DEF Refilled
  <2>5. Inside' BY <1>0, <1>3, <1>4, <2>1 DEF Inside, Reported
  <2>6. Latched' BY <1>0, <1>3, <1>6, <2>1 DEF Latched, SpentCallSleeps
  <2>. QED BY <1>0, <1>2, <1>4, <2>1, <2>3, <2>4, <2>5, <2>6 DEF Untouched, AllValues
<1>. QED BY <1>5, <1>6

\* A turn of the loop takes an index, if there is one.
LEMMA ParentLaunchesInv ==
  ASSUME Inv, ParentLaunches
  PROVE  Inv'
<1>. USE DEF Inv
<1>0. /\ UNCHANGED <<kind, total, concurrency, completed, stop, error, once, wake, parent, cancelled, spent>>
      /\ toLaunch \in Nat /\ toLaunch > 0 /\ toLaunch' = toLaunch - 1
      /\ total \in Nat /\ total <= MaxTotal /\ MaxTotal \in Nat /\ next \in Nat
      /\ parent = "launching" /\ inline = NoItem
      /\ Window' = Window /\ completed \in Nat /\ Window \in Int
  BY LimitedAssumption DEF ParentLaunches, Types, Window, args
<1>l. Latched' BY <1>0 DEF Latched, SpentCallSleeps
<1>a. AllValues' BY <1>0 DEF AllValues
<1>1. CASE stop \/ next >= total
  <2>1. item' = item /\ inline' = NoItem /\ next' = IF stop THEN next ELSE next + 1
    BY <1>0, <1>1 DEF ParentLaunches, Launch
  <2>2. Running' = Running BY <2>1 DEF Running
  <2>3. Types' BY <1>0, <2>1 DEF Types
  <2>4. InOrder' BY <1>0, <1>1, <2>1 DEF InOrder, Indices
  <2>5. Counted' BY <1>0, <1>1, <2>1, <2>2 DEF Counted, Smaller
  <2>6. Refilled' BY <1>0, <2>1 DEF Refilled
  <2>7. Inside' BY <1>0, <2>1 DEF Inside
  <2>. QED BY <1>0, <1>l, <1>a, <2>1, <2>3, <2>4, <2>5, <2>6, <2>7 DEF Untouched, Reported
<1>2. CASE ~stop /\ next < total
  <2>1. item' = [item EXCEPT ![next] = "running"] /\ next' = next + 1 /\ inline' = next
    BY <1>0, <1>2 DEF ParentLaunches, Launch
  <2>2. next \in Indices /\ item[next] = "todo" BY <1>0, <1>2 DEF InOrder, Indices
  <2>3. Types' BY <1>0, <2>1, <2>2 DEF Types
  <2>4. InOrder' BY <1>0, <1>2, <2>1, <2>2 DEF InOrder, Indices, Types
  <2>5. Running' = Running \cup {next} /\ next \notin Running
    BY <2>1, <2>2 DEF Running, Types
  <2>6. Cardinality(Running') = Cardinality(Running) + 1 BY <2>5, RunningFinite, OneMore
  <2>7. Counted' BY <1>0, <1>2, <2>1, <2>6, RunningFinite DEF Counted, Smaller, Types
  <2>8. Refilled' BY <1>0, <2>1 DEF Refilled
  <2>9. Reported' BY <1>0, <2>1, <2>2 DEF Reported, Types
  <2>10. Inside' BY <1>0, <1>2, <2>1, <2>2 DEF Inside, Types
  <2>. QED BY <1>0, <1>l, <1>a, <2>3, <2>4, <2>7, <2>8, <2>9, <2>10 DEF Untouched
<1>. QED BY <1>0, <1>1, <1>2

\* The caller comes out of its loop: nothing runs when every item is counted, and
\* a failure inside the loop was that of the last index taken.
LEMMA ParentWaitsInv ==
  ASSUME Inv, ParentWaits
  PROVE  Inv'
<1>. USE DEF Inv
<1>0. /\ UNCHANGED <<kind, total, concurrency, toLaunch, inline, next, completed, stop, error, once,
                     item, cancelled>>
      /\ parent = "launching" /\ toLaunch = 0 /\ inline = NoItem
      /\ spent' = (error \/ completed = total)
      /\ \/ kind = "for_each_limited" /\ completed = total /\ parent' = "returned"
         \/ parent' = "waiting" /\ wake' = "pending"
  BY DEF ParentWaits, args
<1>1. Running' = Running /\ Window' = Window BY <1>0 DEF Running, Window
<1>2. InOrder' /\ Counted' BY <1>0, <1>1 DEF InOrder, Counted, Smaller
<1>3. Types' BY <1>0 DEF Types
<1>4. Refilled' BY <1>0, <1>1 DEF Refilled
<1>5. Reported' BY <1>0 DEF Reported
<1>6. Inside' BY <1>0 DEF Inside
<1>7. Latched' BY <1>0 DEF Latched, SpentCallSleeps
<1>8. AllValues'
  <2>. SUFFICES ASSUME parent' = "returned", NEW i \in 0..(total - 1)
                PROVE  \/ item[i] = "value"
                       \/ item[i] = "error" /\ kind = "for_each_limited" /\ spent' /\ i = total - 1
    BY <1>0 DEF AllValues
  <2>1. total \in Nat /\ total <= MaxTotal /\ MaxTotal \in Nat /\ next \in Nat /\ completed \in Nat
    BY LimitedAssumption DEF Types
  <2>2. completed = total /\ kind = "for_each_limited" /\ spent' BY <1>0
  <2>3. Cardinality(Running) = 0 /\ next >= total
    BY <2>1, <2>2, RunningFinite DEF Counted, Smaller
  <2>4. Running = {} BY <2>3, RunningFinite, FS_EmptySet
  <2>5. i \in Indices /\ i < next /\ i < total BY <2>1, <2>3 DEF Indices
  <2>6. item[i] # "todo" /\ item[i] # "running" BY <2>4, <2>5 DEF InOrder, Running
  <2>7. item[i] = "error" => i = total - 1 BY <1>0, <2>1, <2>3, <2>5 DEF Inside, Indices
  <2>. QED BY <2>2, <2>5, <2>6, <2>7 DEF Types
<1>. QED BY <1>0, <1>2, <1>3, <1>4, <1>5, <1>6, <1>7, <1>8 DEF Untouched

\* The end of an item, with the index that its coroutine takes next.
LEMMA EndItemInv ==
  ASSUME Inv, NEW i \in Indices, NEW bad \in BOOLEAN, EndItem(i, bad)
  PROVE  Inv'
<1>. USE DEF Inv
<1>. DEFINE it == [item EXCEPT ![i] = IF bad THEN "error" ELSE "value"]
            goesOn == ~(stop \/ bad) /\ (kind = "for_each_limited" \/ parent \notin Ended)
<1>0. /\ UNCHANGED <<kind, total, concurrency, toLaunch, parent, cancelled, spent>>
      /\ error' = (error \/ bad) /\ stop' = (stop \/ bad) /\ completed' = completed + 1
      /\ item[i] = "running" /\ Window' = Window
      /\ parent = "launching" => inline = i
  BY DEF EndItem, Window, args
<1>1. /\ total \in Nat /\ total <= MaxTotal /\ MaxTotal \in Nat /\ next \in Nat /\ completed \in Nat
      /\ Window \in Int /\ toLaunch \in Nat
  BY LimitedAssumption DEF Types, Window
<1>2. i \in Nat /\ i < next /\ i < total /\ i # NoItem BY <1>0, <1>1 DEF InOrder, Indices, NoItem
<1>3. parent # "start" /\ parent # "returned"
  <2>1. parent # "start" BY <1>1, <1>2 DEF Untouched
  <2>2. parent # "returned" BY <1>0, <1>1, <1>2 DEF AllValues
  <2>. QED BY <2>1, <2>2
<1>4. i \in Running BY <1>0 DEF Running
<1>5. /\ IsFiniteSet(Running \ {i}) /\ Cardinality(Running \ {i}) = Cardinality(Running) - 1
      /\ Cardinality(Running) \in Nat /\ completed + Cardinality(Running) = Smaller(next, total)
      /\ Cardinality(Running) >= 1
  <2>1. /\ IsFiniteSet(Running \ {i}) /\ Cardinality(Running \ {i}) = Cardinality(Running) - 1
        /\ Cardinality(Running) \in Nat
    BY <1>4, OneLess, RunningFinite
  <2>2. Cardinality(Running \ {i}) \in Nat BY <2>1, FS_CardinalityType
  <2>. QED BY <2>1, <2>2 DEF Counted
<1>6. it \in [Indices -> {"todo", "running", "value", "error"}] BY DEF Types
<1>7. completed < total BY <1>1, <1>5 DEF Smaller
<1>8. Latched'
  <2>1. /\ once' = (once \/ (bad /\ ~error) \/ completed + 1 = total)
        /\ once => wake' = wake
    BY DEF EndItem, Wake, Types
  <2>2. spent => error BY <1>1, <1>7 DEF Latched
  <2>3. SpentCallSleeps' BY <1>0, <2>1, <2>2 DEF Latched, SpentCallSleeps
  <2>. QED BY <1>0, <2>1, <2>2, <2>3 DEF Latched, Types
<1>9. ASSUME parent' \in {"launching", "waiting"}, ~stop'
      PROVE  /\ goesOn /\ next + toLaunch = Window + completed
  <2>1. parent \in {"launching", "waiting"} /\ ~stop /\ ~bad BY <1>0, <1>9, Zenon
  <2>2. goesOn BY <2>1 DEF Ended
  <2>3. next + toLaunch = Window + completed BY <2>1 DEF Refilled
  <2>. QED BY <2>2, <2>3
<1>10. CASE ~goesOn \/ next >= total
  <2>1. item' = it /\ inline' = NoItem /\ next' = IF goesOn THEN next + 1 ELSE next
    <3>1. CASE ~goesOn BY <3>1 DEF EndItem, Launch
    <3>2. CASE goesOn /\ next >= total BY <1>1, <3>2 DEF EndItem, Launch
    <3>. QED BY <1>10, <3>1, <3>2
  <2>2. Types' BY <1>0, <1>1, <1>6, <1>8, <2>1 DEF Types, EndItem, Wake
  <2>3. InOrder' BY <1>0, <1>1, <1>2, <1>10, <2>1 DEF InOrder, Indices, Types
  <2>4. Running' = Running \ {i} BY <2>1 DEF Running, Types
  <2>5. Counted' BY <1>0, <1>1, <1>5, <1>10, <2>1, <2>4 DEF Counted, Smaller
  <2>6. Refilled' BY <1>0, <1>1, <1>9, <2>1 DEF Refilled
  <2>7. Reported' BY <1>0, <2>1 DEF Reported, Types
  <2>8. Inside'
    <3>. SUFFICES ASSUME parent = "launching", NEW j \in Indices, it[j] = "error"
                  PROVE  ~spent /\ (stop \/ bad) /\ next' = j + 1
      BY <1>0, <2>1 DEF Inside
    <3>1. next = i + 1 BY <1>0, <1>2 DEF Inside
    <3>2. CASE j = i
      <4>1. bad BY <3>2 DEF Types
      <4>. QED BY <2>1, <3>1, <3>2, <4>1 DEF Inside
    <3>3. CASE j # i
      <4>1. item[j] = "error" BY <3>3 DEF Types
      <4>. QED BY <2>1, <4>1 DEF Inside
    <3>. QED BY <3>2, <3>3
  <2>. QED BY <1>0, <1>3, <1>8, <2>2, <2>3, <2>5, <2>6, <2>7, <2>8 DEF Untouched, AllValues
<1>11. CASE goesOn /\ next < total
  <2>1. item' = [it EXCEPT ![next] = "running"] /\ next' = next + 1
        /\ inline' = IF parent = "launching" THEN next ELSE NoItem
    BY <1>11 DEF EndItem, Launch
  <2>2. next \in Indices /\ item[next] = "todo" /\ next # i
    BY <1>0, <1>1, <1>2, <1>11 DEF InOrder, Indices
  <2>3. Types' BY <1>0, <1>1, <1>6, <2>1, <2>2 DEF Types, EndItem, Wake
  <2>4. InOrder' BY <1>0, <1>1, <1>2, <1>11, <2>1, <2>2 DEF InOrder, Indices, Types
  <2>5. Running' = (Running \ {i}) \cup {next} /\ next \notin Running \ {i}
    BY <2>1, <2>2 DEF Running, Types
  <2>6. Cardinality(Running') = Cardinality(Running) BY <1>5, <2>5, OneMore
  <2>7. Counted' BY <1>0, <1>1, <1>5, <1>11, <2>1, <2>6 DEF Counted, Smaller
  <2>8. Refilled' BY <1>0, <1>1, <1>9, <2>1 DEF Refilled
  <2>9. Reported' BY <1>0, <2>1, <2>2 DEF Reported, Types
  <2>10. Inside'
    <3>1. ~stop /\ ~bad BY <1>11
    <3>2. ASSUME parent = "launching", NEW j \in Indices, item'[j] = "error" PROVE FALSE
      <4>1. j # next BY <2>1, <2>2, <3>2 DEF Types
      <4>2. j # i BY <2>1, <2>2, <3>1, <3>2 DEF Types
      <4>3. item[j] = "error" BY <2>1, <2>2, <3>2, <4>1, <4>2 DEF Types
      <4>. QED BY <3>1, <3>2, <4>3 DEF Inside
    <3>. QED BY <1>0, <2>1, <3>2 DEF Inside
  <2>. QED BY <1>0, <1>3, <1>8, <2>3, <2>4, <2>7, <2>8, <2>9, <2>10 DEF Untouched, AllValues
<1>. QED BY <1>1, <1>10, <1>11

\* The parent returns when every item is counted, so that none runs.
LEMMA WakesInv ==
  ASSUME Inv, Wakes
  PROVE  Inv'
<1>. USE DEF Inv
<1>1. /\ UNCHANGED <<kind, total, concurrency, toLaunch, inline, next, completed, stop, error, item,
                     cancelled, spent>>
      /\ parent = "waiting" /\ wake = "fired"
      /\ \/ /\ parent' = "waiting" /\ ~error /\ ~(completed >= total)
            /\ once' \in {once, FALSE}
         \/ parent' = "threw" /\ once' = once
         \/ parent' = "returned" /\ ~error /\ completed >= total /\ once' = once
  BY DEF Wakes, args
<1>2. Running' = Running /\ Window' = Window BY <1>1 DEF Running, Window
<1>3. Types' BY <1>1 DEF Types
<1>4. total \in Nat /\ total <= MaxTotal /\ MaxTotal \in Nat /\ next \in Nat /\ completed \in Nat
  BY LimitedAssumption DEF Types
<1>5. AllValues'
  <2>. SUFFICES ASSUME parent' = "returned", NEW i \in 0..(total - 1) PROVE item[i] = "value"
    BY <1>1 DEF AllValues
  <2>2. completed >= total /\ ~error BY <1>1
  <2>3. Cardinality(Running) = 0 /\ next >= total
    BY <1>4, <2>2, RunningFinite DEF Counted, Smaller
  <2>4. Running = {} BY <2>3, RunningFinite, FS_EmptySet
  <2>5. i \in Indices /\ i < next /\ i < total BY <1>4, <2>3 DEF Indices
  <2>6. item[i] # "todo" /\ item[i] # "running" /\ item[i] # "error"
    BY <2>2, <2>4, <2>5 DEF InOrder, Running, Reported
  <2>. QED BY <2>5, <2>6 DEF Types
<1>6. Latched'
  <2>1. SpentCallSleeps'
    <3>1. CASE parent' = "waiting" BY <1>1, <1>4, <3>1 DEF Latched, SpentCallSleeps
    <3>. QED BY <1>1, <3>1 DEF SpentCallSleeps
  <2>2. ((error \/ completed = total) /\ parent \in {"launching", "waiting"} => once)'
    <3>1. CASE parent' = "waiting"
      <4>1. ~error' /\ ~(completed = total)' BY <1>1, <1>4, <3>1
      <4>. QED BY <4>1
    <3>2. CASE parent' # "waiting" BY <1>1, <3>2
    <3>. QED BY <3>1, <3>2
  <2>3. (spent => error \/ completed = total)' BY <1>1 DEF Latched
  <2>. QED BY <2>1, <2>2, <2>3 DEF Latched
<1>. QED BY <1>1, <1>2, <1>3, <1>5, <1>6
     DEF InOrder, Counted, Smaller, Refilled, Untouched, Inside, Reported

LEMMA NextInv == Inv /\ [Next]_vars => Inv'
<1>. SUFFICES ASSUME Inv, [Next]_vars PROVE Inv' OBVIOUS
<1>1. ASSUME UNCHANGED <<kind, total, concurrency, toLaunch, next, completed, stop, error, once, item,
                         parent, spent>>,
             inline' \in {inline, NoItem},
             cancelled' \/ UNCHANGED <<wake, cancelled>>
      PROVE  Inv'
  <2>1. Running' = Running /\ Window' = Window BY <1>1 DEF Running, Window
  <2>2. Types' BY <1>1 DEF Inv, Types
  <2>3. Inside' BY <1>1 DEF Inv, Inside
  <2>4. Latched'
    <3>1. SpentCallSleeps' BY <1>1 DEF Inv, Latched, SpentCallSleeps
    <3>. QED BY <1>1, <3>1 DEF Inv, Latched
  <2>. QED BY <1>1, <2>1, <2>2, <2>3, <2>4
       DEF Inv, InOrder, Counted, Smaller, Refilled, Untouched, Reported, AllValues
<1>2. CASE CancelParent BY <1>1, <1>2 DEF CancelParent, args
<1>3. CASE Quiescent BY <1>1, <1>3 DEF Quiescent, vars, args
<1>4. CASE UNCHANGED vars BY <1>1, <1>4 DEF vars, args
<1>5. CASE Suspends BY <1>1, <1>5 DEF Suspends, args
<1>. QED BY <1>2, <1>3, <1>4, <1>5, CallInv, ParentLaunchesInv, ParentWaitsInv, EndItemInv, WakesInv
     DEF Next

\* The invariant holds in every reachable state of every map.
THEOREM InvHolds == Spec => []Inv
BY InitInv, NextInv, PTL DEF Spec

\* gather_limited and for_each_limited keep their window full, neither less nor
\* more, from the first launch until an item fails, and return only with every
\* value (but for the error of the last index that for_each_limited swallows),
\* whatever the number of items, the concurrency, the order in which the items
\* end, and whether they suspend at all.
THEOREM WindowFull == Spec => []WindowIsKeptFull
<1>1. Inv => WindowIsKeptFull
  <2>. SUFFICES ASSUME Inv PROVE WindowIsKeptFull OBVIOUS
  <2>1. ASSUME parent \in {"launching", "waiting"}, ~stop
        PROVE  Cardinality(Running) = IF total - completed < Window - toLaunch
                                      THEN total - completed ELSE Window - toLaunch
    <3>1. /\ total \in Nat /\ next \in Nat /\ completed \in Nat /\ toLaunch \in Nat /\ Window \in Int
          /\ next + toLaunch = Window + completed
          /\ completed + Cardinality(Running) = Smaller(next, total)
      BY <2>1, LimitedAssumption DEF Inv, Types, Window, Refilled, Counted
    <3>. QED BY <3>1, RunningFinite DEF Smaller
  <2>. QED BY <2>1 DEF Inv, AllValues, WindowIsKeptFull
<1>. QED BY <1>1, InvHolds, PTL

\* A caller that comes out of its loop after a failure, or gather_limited after its
\* last item, has no wake-up left and sleeps until it is cancelled itself.
THEOREM SpentSleepsOn == Spec => []SpentCallSleeps
<1>1. Inv => SpentCallSleeps BY DEF Inv, Latched
<1>. QED BY <1>1, InvHolds, PTL

\* No index is taken after a failure, nor by gather_limited after it has ended:
\* a stopped map only finishes what runs.
THEOREM NothingStarts == Spec => NothingStartsAfterTheEnd
<1>1. ASSUME Inv, [Next]_vars, stop \/ (kind = "gather_limited" /\ parent \in Ended)
      PROVE  \A i \in Indices : item[i] = "todo" => item'[i] = "todo"
  <2>1. CASE ParentLaunches
    <3>1. stop BY <1>1, <2>1 DEF ParentLaunches, Ended
    <3>. QED BY <2>1, <3>1 DEF ParentLaunches, Launch
  <2>2. ASSUME NEW j \in Indices, NEW bad \in BOOLEAN, EndItem(j, bad)
        PROVE  \A i \in Indices : item[i] = "todo" => item'[i] = "todo"
    <3>1. item' = [item EXCEPT ![j] = IF bad THEN "error" ELSE "value"] /\ item[j] = "running"
      BY <1>1, <2>2 DEF EndItem, Launch
    <3>. QED BY <1>1, <3>1 DEF Inv, Types
  <2>3. CASE Call \/ Suspends \/ ParentWaits \/ Wakes \/ CancelParent \/ Quiescent \/ UNCHANGED vars
    BY <2>3 DEF Call, Suspends, ParentWaits, Wakes, CancelParent, Quiescent, vars
  <2>. QED BY <1>1, <2>1, <2>2, <2>3 DEF Next
<1>. QED BY <1>1, InvHolds, PTL DEF Spec, NothingStartsAfterTheEnd

------------------------------------------------------------------------------
(* The task.                                                               *)

TaskTypes ==
  /\ done \in BOOLEAN
  /\ waiters \subseteq Awaiters /\ toCancel \subseteq Awaiters /\ missed \subseteq Awaiters
  /\ conts \subseteq Callers /\ toRun \subseteq Callers
  /\ body \in {"running", "notify", "finished"}
  /\ await \in [Awaiters -> {"start", "registered", "asleep", "returned", "cancelled"}]
  /\ timer \in [Awaiters -> {"unarmed", "armed", "fired"}]
  /\ add \in [Callers -> {"start", "ready", "finished"}]
  /\ ran \in [Callers -> Nat]

\* complete_task: what it has taken away belongs to it until it returns.
Completion ==
  /\ done <=> body # "running"
  /\ done => waiters = {} /\ conts = {}
  /\ body # "notify" => toCancel = {} /\ toRun = {}

\* A continuation that was brought is registered, taken away, or has run, and only
\* one of these; one that was not brought yet, or is about to be run by the thread
\* that brought it, is in no list.
Continuations ==
  \A k \in Callers :
    /\ ~(k \in conts /\ k \in toRun)
    /\ k \in conts \cup toRun => add[k] = "finished" /\ ran[k] = 0
    /\ add[k] = "finished" /\ k \notin conts \cup toRun => ran[k] = 1
    /\ add[k] # "finished" => ran[k] = 0

\* Where the timers are: one that has yet to go off is registered, taken away, or
\* missed, and until its awaiter sleeps it is not armed.
Places ==
  \A a \in Awaiters :
    /\ await[a] \in {"start", "registered"} => timer[a] = "unarmed"
    /\ a \in waiters \cup toCancel /\ timer[a] = "unarmed" => await[a] = "registered"
    /\ await[a] \in {"registered", "asleep"} /\ timer[a] # "fired"
         => a \in waiters \cup toCancel \cup missed

\* The list is not taken before an awaiter of the task's own executor sleeps.
LocalAwaiters ==
  \A a \in SameExecutor : (await[a] = "registered" => ~done) /\ a \notin missed

\* A timer goes off for the task or for its awaiter.
Timers ==
  \A a \in Awaiters :
    /\ timer[a] = "fired" => done \/ a \in MayCancel
    /\ await[a] = "cancelled" => a \in MayCancel

TaskInv == TaskTypes /\ Completion /\ Continuations /\ Places /\ LocalAwaiters /\ Timers
------------------------------------------------------------------------------

LEMMA TaskInitInv == TaskInit => TaskInv
<1>. SUFFICES ASSUME TaskInit PROVE TaskInv OBVIOUS
<1>. USE TaskAssumption DEF TaskInit
<1>1. TaskTypes BY DEF TaskTypes
<1>2. Completion BY DEF Completion
<1>3. Continuations BY DEF Continuations
<1>4. Places /\ LocalAwaiters BY DEF Places, LocalAwaiters
<1>5. Timers BY DEF Timers
<1>. QED BY <1>1, <1>2, <1>3, <1>4, <1>5 DEF TaskInv

LEMMA CompleteInv ==
  ASSUME TaskInv, Complete
  PROVE  TaskInv'
<1>. USE TaskAssumption DEF TaskInv
<1>1. CASE CompleteLock
  <2>. USE <1>1 DEF CompleteLock
  <2>1. TaskTypes' BY DEF TaskTypes
  <2>2. Completion' BY DEF TaskTypes, Completion
  <2>3. Continuations' BY DEF TaskTypes, Completion, Continuations
  <2>4. Places' /\ LocalAwaiters' BY DEF TaskTypes, Completion, Places, LocalAwaiters, Busy
  <2>5. Timers' BY DEF Timers
  <2>. QED BY <2>1, <2>2, <2>3, <2>4, <2>5
<1>2. CASE CompleteReturns
  BY <1>2 DEF CompleteReturns, TaskTypes, Completion, Continuations, Places, LocalAwaiters, Timers
<1>. QED BY <1>1, <1>2 DEF Complete

LEMMA NotifyInv ==
  ASSUME TaskInv, Notify
  PROVE  TaskInv'
<1>. USE TaskAssumption DEF TaskInv
<1>1. ASSUME NEW a \in Awaiters, CancelTimer(a)
      PROVE  TaskInv'
  <2>. USE <1>1 DEF CancelTimer
  <2>1. TaskTypes' BY DEF TaskTypes
  <2>2. Completion' /\ Continuations' BY DEF Completion, Continuations
  <2>3. Places' /\ LocalAwaiters' BY DEF TaskTypes, Completion, Places, LocalAwaiters
  <2>4. Timers' BY DEF TaskTypes, Completion, Timers
  <2>. QED BY <2>1, <2>2, <2>3, <2>4
<1>2. ASSUME NEW k \in Callers, RunContinuation(k)
      PROVE  TaskInv'
  <2>. USE <1>2 DEF RunContinuation
  <2>1. TaskTypes' BY DEF TaskTypes
  <2>2. Completion' BY DEF Completion
  <2>3. Continuations' BY DEF TaskTypes, Continuations
  <2>4. Places' /\ LocalAwaiters' /\ Timers' BY DEF Places, LocalAwaiters, Timers
  <2>. QED BY <2>1, <2>2, <2>3, <2>4
<1>. QED BY <1>1, <1>2 DEF Notify

LEMMA AwaitInv ==
  ASSUME TaskInv, NEW a \in Awaiters, Await(a) \/ CancelAwaiter(a)
  PROVE  TaskInv'
<1>. USE TaskAssumption DEF TaskInv
<1>1. CASE AwaitLock(a)
  <2>. USE <1>1 DEF AwaitLock
  <2>1. TaskTypes' BY DEF TaskTypes
  <2>2. Completion' /\ Continuations' BY DEF Completion, Continuations
  <2>3. Places' /\ LocalAwaiters' BY DEF TaskTypes, Completion, Places, LocalAwaiters
  <2>4. Timers' BY DEF TaskTypes, Timers
  <2>. QED BY <2>1, <2>2, <2>3, <2>4
<1>2. CASE AwaitSleeps(a)
  <2>. USE <1>2 DEF AwaitSleeps
  <2>1. TaskTypes' BY DEF TaskTypes
  <2>2. Completion' /\ Continuations' BY DEF Completion, Continuations
  <2>3. Places' /\ LocalAwaiters' BY DEF TaskTypes, Completion, Places, LocalAwaiters
  <2>4. Timers' BY DEF TaskTypes, Timers
  <2>. QED BY <2>1, <2>2, <2>3, <2>4
<1>3. CASE AwaitResumes(a)
  <2>. USE <1>3 DEF AwaitResumes
  <2>1. TaskTypes' BY DEF TaskTypes
  <2>2. Completion' /\ Continuations' BY DEF Completion, Continuations
  <2>3. Places' /\ LocalAwaiters' BY DEF TaskTypes, Completion, Places, LocalAwaiters
  <2>4. Timers' BY DEF TaskTypes, Timers
  <2>. QED BY <2>1, <2>2, <2>3, <2>4
<1>4. CASE CancelAwaiter(a)
  <2>. USE <1>4 DEF CancelAwaiter
  <2>1. TaskTypes' BY DEF TaskTypes
  <2>2. Completion' /\ Continuations' BY DEF Completion, Continuations
  <2>3. Places' /\ LocalAwaiters' BY DEF TaskTypes, Completion, Places, LocalAwaiters
  <2>4. Timers' BY DEF TaskTypes, Timers
  <2>. QED BY <2>1, <2>2, <2>3, <2>4
<1>. QED BY <1>1, <1>2, <1>3, <1>4 DEF Await

LEMMA AddInv ==
  ASSUME TaskInv, NEW k \in Callers, Add(k)
  PROVE  TaskInv'
<1>. USE TaskAssumption DEF TaskInv
<1>1. CASE AddLock(k)
  <2>. USE <1>1 DEF AddLock
  <2>1. TaskTypes' BY DEF TaskTypes
  <2>2. Completion' BY DEF TaskTypes, Completion
  <2>3. Continuations' BY DEF TaskTypes, Completion, Continuations
  <2>4. Places' /\ LocalAwaiters' /\ Timers' BY DEF Places, LocalAwaiters, Timers
  <2>. QED BY <2>1, <2>2, <2>3, <2>4
<1>2. CASE AddRuns(k)
  <2>. USE <1>2 DEF AddRuns
  <2>1. TaskTypes' BY DEF TaskTypes
  <2>2. Completion' BY DEF Completion
  <2>3. Continuations' BY DEF TaskTypes, Continuations
  <2>4. Places' /\ LocalAwaiters' /\ Timers' BY DEF Places, LocalAwaiters, Timers
  <2>. QED BY <2>1, <2>2, <2>3, <2>4
<1>. QED BY <1>1, <1>2 DEF Add

\* The places of timers and continuations are as Inv says, in every state.
THEOREM TaskInvariant == TaskSpec => []TaskInv
<1>1. TaskInv /\ [TaskNext]_taskVars => TaskInv'
  <2>. SUFFICES ASSUME TaskInv, [TaskNext]_taskVars PROVE TaskInv' OBVIOUS
  <2>1. CASE UNCHANGED taskVars
    BY <2>1 DEF taskVars, TaskInv, TaskTypes, Completion, Continuations, Places, LocalAwaiters, Timers
  <2>2. CASE TaskQuiescent BY <2>1, <2>2 DEF TaskQuiescent
  <2>. QED BY <2>1, <2>2, CompleteInv, NotifyInv, AwaitInv, AddInv DEF TaskNext
<1>. QED BY <1>1, TaskInitInv, PTL DEF TaskSpec

\* complete_task reaches everyone it can, for any number of awaiters and callers
\* of add_completion on any threads: each continuation has run once, whoever is
\* left with an unfired timer is on another executor and was cancelled before it
\* slept, and only the cancelled gave up.
THEOREM CompletionReaches == TaskSpec => []CompletionReachesEveryone
<1>1. TaskInv => CompletionReachesEveryone
  <2>. SUFFICES ASSUME TaskInv PROVE CompletionReachesEveryone OBVIOUS
  <2>. USE TaskAssumption DEF TaskInv
  <2>1. ASSUME body = "finished", NEW k \in Callers, add[k] = "finished"
        PROVE  ran[k] = 1
    BY <2>1 DEF Completion, Continuations
  <2>2. ASSUME body = "finished", NEW a \in Awaiters, timer[a] # "fired",
               await[a] \in {"registered", "asleep"}
        PROVE  a \in missed \ SameExecutor
    BY <2>2 DEF Completion, Places, LocalAwaiters
  <2>. QED BY <2>1, <2>2 DEF CompletionReachesEveryone, Timers
<1>. QED BY <1>1, TaskInvariant, PTL
==============================================================================
