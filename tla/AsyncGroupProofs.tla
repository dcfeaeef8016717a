------------------------- MODULE AsyncGroupProofs ---------------------------
(***************************************************************************)
(* Proofs about AsyncGroup, for any number of tasks and each of the eleven *)
(* combinators, whichever tasks are done when it is called, tasks and      *)
(* caller being cancelled or not.                                          *)
(*                                                                         *)
(* What a wake-up depends on is wake_once.  Woken says what every handler  *)
(* does to it and to the timer: it is set by the first, and only that one  *)
(* fires the timer, and only if the parent sleeps already.  Begun says     *)
(* what the call itself leaves of it, task by task, and Asleep carries     *)
(* that to the end: a parent that sleeps with wake_once set does so since  *)
(* the call, and otherwise what it waits for has not happened.             *)
(***************************************************************************)
EXTENDS AsyncGroup, FiniteSetTheorems, NaturalsInduction, TLAPS

Snapshots == {"one_of", "race", "wait_for"}
Races == {"race", "wait_for"}
Gathers == {"gather", "gather_outcomes"}
Vectors == {"gather_tasks", "gather_vector"}

\* The kinds that keep first_error.
Errors == {"gather_tasks", "gather_vector", "wait_exception"}

-----------------------------------------------------------------------------
(* The inductive invariant.                                                 *)

GroupRecord ==
  [count : Nat, once : BOOLEAN, cancelOnce : BOOLEAN, error : Nat,
   wake : {"idle", "pending", "fired"}, asked : SUBSET Nat, joined : SUBSET Nat]

Done == {t \in Tasks : IsDone(t)}

Types ==
  /\ kind \in AllKinds /\ kind \in Kinds
  /\ task \in [Tasks -> Outcomes \cup {"running"}]
  /\ group \in GroupRecord
  /\ parent \in Ended \cup {"start", "waiting"}
  /\ cancelled \in BOOLEAN /\ ready \subseteq Done /\ first \in Nat /\ thrown \in Nat

\* done_count is the number of ends that were seen.
Counts(g) == g.joined \subseteq Done /\ g.count = Cardinality(g.joined)

\* The parent sleeps for what has not happened, or its wake-up was used up in the call.
Asleep(g) ==
  g.wake = "pending"
    => /\ ~cancelled
       /\ g.once <=> SpentAtTheCall
       /\ ~SpentAtTheCall => ~Happened(g)

\* In that case it sleeps until it is cancelled.
Forever == SpentAtTheCall /\ parent = "waiting" /\ ~cancelled => group.wake = "pending"

\* The tasks that have failed.
Failed == {t \in Tasks : task[t] \in {"error", "cancelled"}}

\* Before the call.
Before ==
  parent = "start" =>
    /\ group = [count |-> 0, once |-> FALSE, cancelOnce |-> FALSE, error |-> 0,
                wake |-> "idle", asked |-> {}, joined |-> {}]
    /\ thrown = 0 /\ ~cancelled
    /\ ready = Done /\ first = Least(Failed)
    /\ kind = "wait_for" => task[2] = "running"

\* first is there as soon as a task has failed.
Ledger == first = 0 => Failed = {}

\* Continuations see the ends as they come.
Seen == kind \notin TupleKinds /\ parent # "start" => group.joined = Done

\* The wait of the parent.
Waits == parent = "waiting" <=> group.wake # "idle"

\* A tuple gather that was not cancelled has seen all its tasks.
Structured == kind \in Gathers /\ parent \in Ended /\ ~cancelled => group.joined = Tasks

\* The winner of a race stops the others, and has set wake_once.
Stops(g) ==
  kind \in Races =>
    /\ g.cancelOnce <=> g.joined # {}
    /\ g.cancelOnce => g.once
    /\ g.cancelOnce => \A t \in Tasks : IsDone(t) \/ t \in g.asked

\* There is one before the parent runs.
Winner ==
  kind \in Races =>
    /\ group.wake = "fired" /\ ~cancelled => group.cancelOnce
    /\ parent \in Ended /\ ~cancelled => group.cancelOnce

\* first_error of the vector forms.
FirstFailure ==
  kind \in Vectors =>
    /\ parent # "start" => group.error = first
    /\ thrown # 0 => thrown = first

\* A gather that returned has the values of all its tasks.
Whole ==
  kind \in {"gather", "gather_tasks", "gather_vector"} /\ parent = "returned"
    => \A t \in Tasks : task[t] = "value"

\* Who cancels whom in wait_for.
Sleepers(g) ==
  kind = "wait_for" =>
    /\ task[2] # "error"
    /\ task[2] = "cancelled" => 2 \in g.asked
    /\ task[1] = "cancelled" => OutsideCancel \/ 1 \in g.asked
    /\ 2 \in g.asked => 1 \in g.joined
    /\ 1 \in g.asked => 2 \in g.joined /\ task[2] = "value"
    /\ ~g.cancelOnce => g.asked = {}

\* The empty optionals.
Missing ==
  \/ kind = "wait_for" /\ (cancelled \/ (OutsideCancel /\ task[1] = "cancelled"))
  \/ kind = "gather_vector" /\ ready = Tasks /\ first # 0
Defined == parent = "undefined" => Missing

Inv ==
  /\ Types /\ Counts(group) /\ Asleep(group) /\ Forever /\ Before /\ Ledger /\ Seen /\ Waits
  /\ Structured /\ Stops(group) /\ Winner /\ FirstFailure /\ Whole /\ Sleepers(group) /\ Defined

-----------------------------------------------------------------------------
(* Tasks and numbers.                                                       *)

LEMMA LeastNumber ==
  ASSUME NEW S, S \subseteq Nat, S # {}
  PROVE  \E n \in S : \A m \in S : n <= m
<1>1. IsWellFoundedOn(OpToRel(<, Nat), Nat)
  BY NatLessThanWellFounded
<1>2. \E n \in S : \A m \in S : ~(<<m, n>> \in OpToRel(<, Nat))
  BY <1>1, WFMin
<1>3. OpToRel(<, Nat) = {p \in Nat \X Nat : p[1] < p[2]}
  BY Zenon DEF OpToRel
<1>4. PICK n \in S : \A m \in S : ~(<<m, n>> \in {p \in Nat \X Nat : p[1] < p[2]})
  BY <1>2, <1>3
<1>5. ASSUME NEW m \in S PROVE n <= m
  <2>1. m \in Nat /\ n \in Nat
    OBVIOUS
  <2>2. ~(m < n)
    BY <1>4, <1>5, <2>1
  <2> QED
    BY <2>1, <2>2
<1> QED
  BY <1>5

LEMMA TasksAre ==
  ASSUME kind \in AllKinds, kind \in Kinds
  PROVE  /\ Total \in Nat \ {0} /\ Tasks = 1..Total /\ IsFiniteSet(Tasks)
         /\ Cardinality(Tasks) = Total
         /\ kind = "wait_for" => Total = 2
<1>1. N \in Nat \ {0}
  BY GroupAssumption
<1>2. Cardinality(1..N) = N /\ IsFiniteSet(1..N) /\ Cardinality(1..2) = 2 /\ IsFiniteSet(1..2)
  <2>1. \A n \in Nat : IsFiniteSet(1..n) /\ Cardinality(1..n) = IF 1 > n THEN 0 ELSE n - 1 + 1
    BY FS_Interval
  <2>2. IsFiniteSet(1..N) /\ Cardinality(1..N) = N
    BY <1>1, <2>1
  <2>3. IsFiniteSet(1..2) /\ Cardinality(1..2) = IF 1 > 2 THEN 0 ELSE 2 - 1 + 1
    BY <2>1, 2 \in Nat, Zenon
  <2> QED
    BY <2>2, <2>3
<1>3. CASE kind = "wait_for"
  BY <1>2, <1>3 DEF Tasks, Total, Given
<1>4. CASE kind # "wait_for"
  BY <1>1, <1>2, <1>4 DEF Tasks, Total, Given
<1> QED
  BY <1>3, <1>4

LEMMA DoneFinite ==
  ASSUME kind \in AllKinds, kind \in Kinds, NEW S, S \subseteq Done
  PROVE  /\ IsFiniteSet(S) /\ Cardinality(S) \in Nat /\ Cardinality(S) <= Total
         /\ Cardinality(S) = Total => S = Tasks
         /\ S \subseteq Tasks
<1>1. S \subseteq Tasks
  BY DEF Done
<1> QED
  BY <1>1, TasksAre, FS_Subset, FS_CardinalityType

LEMMA LeastIs ==
  ASSUME NEW S, S \subseteq Nat \ {0}
  PROVE  /\ Least(S) \in Nat /\ (Least(S) = 0 <=> S = {})
         /\ S # {} => Least(S) \in S /\ \A u \in S : Least(S) <= u
<1>1. CASE S = {}
  BY <1>1 DEF Least
<1>2. CASE S # {}
  <2>0. S \subseteq Nat
    OBVIOUS
  <2>1. \E t \in S : \A u \in S : t <= u
    BY <1>2, <2>0, LeastNumber
  <2>2. Least(S) = CHOOSE t \in S : \A u \in S : t <= u
    BY <1>2, Zenon DEF Least
  <2>3. Least(S) \in S /\ \A u \in S : Least(S) <= u
    BY <2>1, <2>2
  <2> QED
    BY <1>2, <2>3
<1> QED
  BY <1>1, <1>2

\* A number above the others does not change which one is the least.
LEMMA LeastAdd ==
  ASSUME NEW S, S \subseteq Nat \ {0}, NEW i \in Nat \ {0}, \A u \in S : u < i,
         NEW T, T = S \cup {i}
  PROVE  Least(T) = IF S = {} THEN i ELSE Least(S)
<1>1. T \subseteq Nat \ {0} /\ T # {}
  OBVIOUS
<1>2. Least(T) \in T /\ \A u \in T : Least(T) <= u
  BY <1>1, LeastIs
<1>3. CASE S = {}
  BY <1>2, <1>3
<1>4. CASE S # {}
  <2> DEFINE a == Least(S)
             b == Least(T)
  <2>1. a \in S /\ (\A u \in S : a <= u) /\ b \in T /\ (\A u \in T : b <= u)
    BY <1>2, <1>4, LeastIs
  <2> HIDE DEF a, b
  <2>2. a \in T /\ a < i /\ b <= a /\ a \in Nat /\ b \in Nat
    BY <1>1, <2>1
  <2>3. b \in S
    BY <2>1, <2>2
  <2>4. a <= b
    BY <2>1, <2>3
  <2>5. a = b
    BY <2>2, <2>4
  <2> QED
    BY <1>4, <2>5 DEF a, b
<1> QED
  BY <1>3, <1>4

-----------------------------------------------------------------------------
(* What the end of a task does to the group.                                *)

\* h comes after g: wake_once stays set, and the one that sets it fires the timer.
Woken(g, h) ==
  /\ g.once => h.once /\ h.wake = g.wake
  /\ ~g.once /\ h.once => h.wake = IF g.wake = "pending" THEN "fired" ELSE g.wake
  /\ ~h.once => ~g.once /\ h.wake = g.wake

LEMMA WokenTwice ==
  ASSUME NEW g, NEW e, NEW h, Woken(g, e), Woken(e, h)
  PROVE  Woken(g, h)
BY DEF Woken

\* h is g with the parent woken.
Raised(g, h) ==
  /\ h \in GroupRecord /\ h.once = TRUE /\ Woken(g, h)
  /\ h.count = g.count /\ h.joined = g.joined /\ h.error = g.error
  /\ h.cancelOnce = g.cancelOnce /\ h.asked = g.asked

LEMMA WakeOnceRaises ==
  ASSUME NEW g \in GroupRecord
  PROVE  Raised(g, WakeOnce(g))
<1>1. CASE g.once
  <2>1. WakeOnce(g) = g
    BY <1>1 DEF WakeOnce
  <2>2. g.once = TRUE
    BY <1>1 DEF GroupRecord
  <2> QED
    BY <1>1, <2>1, <2>2 DEF Raised, Woken
<1>2. CASE ~g.once
  <2> DEFINE w == IF g.wake = "pending" THEN "fired" ELSE g.wake
             h == [g EXCEPT !.once = TRUE, !.wake = w]
  <2>1. WakeOnce(g) = h
    BY <1>2 DEF WakeOnce
  <2>2. w \in {"idle", "fired"}
    BY DEF GroupRecord
  <2> HIDE DEF w
  <2>3. h \in GroupRecord /\ h.once = TRUE /\ h.wake = w
        /\ h.count = g.count /\ h.joined = g.joined /\ h.error = g.error
        /\ h.cancelOnce = g.cancelOnce /\ h.asked = g.asked
    BY <2>2 DEF GroupRecord
  <2> HIDE DEF h
  <2>4. Woken(g, h)
    BY <1>2, <2>3 DEF Woken, w
  <2> QED
    BY <2>1, <2>3, <2>4 DEF Raised
<1> QED
  BY <1>1, <1>2

\* h is g with the end of t seen; the parent is woken by the last.
Seen1(g, t, h) ==
  /\ h \in GroupRecord /\ h.count = g.count + 1 /\ h.joined = g.joined \cup {t}
  /\ h.error = g.error /\ h.cancelOnce = g.cancelOnce /\ h.asked = g.asked
  /\ Woken(g, h)
  /\ h.once <=> g.once \/ h.count = Total

LEMMA CountDoneSees ==
  ASSUME NEW g \in GroupRecord, NEW t \in Nat
  PROVE  Seen1(g, t, CountDone(g, t))
<1> DEFINE c == g.count + 1
           j == g.joined \cup {t}
           h == [g EXCEPT !.count = c, !.joined = j]
<1>1. CountDone(g, t) = IF h.count = Total THEN WakeOnce(h) ELSE h
  BY DEF CountDone
<1>2. c \in Nat /\ j \in SUBSET Nat
  BY DEF GroupRecord
<1> HIDE DEF c, j
<1>3. h \in GroupRecord /\ h.once = g.once /\ h.wake = g.wake
      /\ h.count = c /\ h.joined = j /\ h.error = g.error
      /\ h.cancelOnce = g.cancelOnce /\ h.asked = g.asked
  BY <1>2 DEF GroupRecord
<1> HIDE DEF h
<1>4. CASE h.count = Total
  <2>1. Raised(h, WakeOnce(h)) /\ CountDone(g, t) = WakeOnce(h)
    BY <1>1, <1>3, <1>4, WakeOnceRaises
  <2> HIDE DEF CountDone
  <2> DEFINE r == WakeOnce(h)
  <2>2. Raised(h, r) /\ CountDone(g, t) = r
    BY <2>1
  <2> HIDE DEF r
  <2>3. Woken(g, r)
    BY <1>3, <2>2 DEF Raised, Woken
  <2> QED
    BY <1>3, <1>4, <2>2, <2>3 DEF Raised, Seen1, c, j
<1>5. CASE h.count # Total
  <2>1. CountDone(g, t) = h
    BY <1>1, <1>5
  <2>2. Woken(g, h)
    BY <1>3 DEF Woken
  <2> QED
    BY <1>3, <1>5, <2>1, <2>2 DEF Seen1, c, j
<1> QED
  BY <1>4, <1>5

\* first_error as it is after the end of t, and whether that end wakes the parent.
ErrorAfter(g, t, outcome) ==
  IF kind \in Errors /\ outcome # "value" /\ g.error = 0 THEN t ELSE g.error

Raises(g, outcome) ==
  outcome # "value" /\ (kind = "gather_vector" \/ (kind \in Errors /\ g.error = 0))

\* The first half of a continuation: an error is kept, and wakes the parent.
Noted(g, t, outcome, e) ==
  /\ e \in GroupRecord /\ e.error = ErrorAfter(g, t, outcome)
  /\ e.count = g.count /\ e.joined = g.joined
  /\ e.cancelOnce = g.cancelOnce /\ e.asked = g.asked
  /\ Woken(g, e)
  /\ e.once <=> g.once \/ Raises(g, outcome)

LEMMA FirstErrorEffect ==
  ASSUME NEW g \in GroupRecord, NEW t \in Nat
  PROVE  LET e == FirstError(g, t)
         IN  \/ g.error # 0 /\ e = g
             \/ /\ g.error = 0 /\ e \in GroupRecord /\ e.error = t
                /\ e.once = TRUE /\ Woken(g, e)
                /\ e.count = g.count /\ e.joined = g.joined
                /\ e.cancelOnce = g.cancelOnce /\ e.asked = g.asked
<1>1. CASE g.error # 0
  BY <1>1 DEF FirstError
<1>2. CASE g.error = 0
  <2> DEFINE h == [g EXCEPT !.error = t]
             e == WakeOnce(h)
  <2>1. FirstError(g, t) = e
    BY <1>2 DEF FirstError
  <2>2. h \in GroupRecord /\ h.once = g.once /\ h.wake = g.wake /\ h.error = t
        /\ h.count = g.count /\ h.joined = g.joined
        /\ h.cancelOnce = g.cancelOnce /\ h.asked = g.asked
    BY DEF GroupRecord
  <2> HIDE DEF h
  <2>3. Raised(h, e)
    BY <2>2, WakeOnceRaises
  <2> HIDE DEF e
  <2>4. Woken(g, e)
    BY <2>2, <2>3 DEF Raised, Woken
  <2> QED
    BY <1>2, <2>1, <2>2, <2>3, <2>4 DEF Raised
<1> QED
  BY <1>1, <1>2

\* What a continuation makes of the group.
Continued(g, t, outcome, h) ==
  /\ h \in GroupRecord /\ h.count = g.count + 1 /\ h.joined = g.joined \cup {t}
  /\ h.error = ErrorAfter(g, t, outcome)
  /\ h.cancelOnce = g.cancelOnce /\ h.asked = g.asked
  /\ Woken(g, h)
  /\ h.once <=> g.once \/ h.count = Total \/ kind = "wait_first" \/ Raises(g, outcome)

LEMMA ContinuationEffect ==
  ASSUME NEW g \in GroupRecord, NEW t \in Nat, NEW outcome
  PROVE  Continued(g, t, outcome, Continuation(g, t, outcome))
<1> DEFINE e == IF outcome = "value" THEN g
                ELSE IF kind \in {"gather_tasks", "wait_exception"} THEN FirstError(g, t)
                ELSE IF kind = "gather_vector" THEN WakeOnce(FirstError(g, t)) ELSE g
           c == CountDone(e, t)
           h == Continuation(g, t, outcome)
           f == FirstError(g, t)
<1>1. h = IF kind = "wait_first" THEN WakeOnce(c) ELSE c
  BY DEF Continuation
<1>2. \/ g.error # 0 /\ f = g
      \/ /\ g.error = 0 /\ f \in GroupRecord /\ f.error = t
         /\ f.once = TRUE /\ Woken(g, f)
         /\ f.count = g.count /\ f.joined = g.joined
         /\ f.cancelOnce = g.cancelOnce /\ f.asked = g.asked
  BY FirstErrorEffect
<1>3. f \in GroupRecord /\ Woken(g, f)
  BY <1>2 DEF Woken
<1>4. Raised(f, WakeOnce(f))
  BY <1>3, WakeOnceRaises
<1>5. Noted(g, t, outcome, e)
  <2>1. CASE outcome = "value" \/ kind \notin Errors
    <3>1. e = g
      BY <2>1 DEF Errors
    <3>2. Woken(g, g)
      BY DEF Woken
    <3> QED
      BY <2>1, <3>1, <3>2 DEF Noted, ErrorAfter, Raises, Errors
  <2>2. CASE outcome # "value" /\ kind \in {"gather_tasks", "wait_exception"}
    <3>1. e = f
      BY <2>2
    <3> HIDE DEF e, f
    <3> QED
      BY <1>2, <1>3, <2>2, <3>1 DEF Noted, ErrorAfter, Raises, Errors
  <2>3. CASE outcome # "value" /\ kind = "gather_vector"
    <3>1. e = WakeOnce(f)
      BY <2>3
    <3> HIDE DEF e, f
    <3>2. Woken(g, e) /\ e.once = TRUE
      BY <1>3, <1>4, <3>1, WokenTwice DEF Raised
    <3> QED
      BY <1>2, <1>4, <2>3, <3>1, <3>2 DEF Noted, ErrorAfter, Raises, Errors, Raised
  <2> QED
    BY <2>1, <2>2, <2>3 DEF Errors
<1> HIDE DEF e
<1>6. Seen1(e, t, c)
  BY <1>5, CountDoneSees DEF Noted
<1> HIDE DEF c, h
<1>9. Woken(g, c) /\ (c.once <=> g.once \/ c.count = Total \/ Raises(g, outcome))
  BY <1>5, <1>6, WokenTwice DEF Noted, Seen1
<1>7. CASE kind = "wait_first"
  <2>1. Raised(c, h)
    BY <1>1, <1>6, <1>7, WakeOnceRaises DEF Seen1
  <2>2. Woken(g, h)
    BY <1>9, <2>1, WokenTwice DEF Raised
  <2> QED
    BY <1>5, <1>6, <1>7, <2>1, <2>2 DEF Noted, Seen1, Raised, Continued, h
<1>8. CASE kind # "wait_first"
  <2>1. h = c
    BY <1>1, <1>8
  <2> QED
    BY <1>5, <1>6, <1>8, <1>9, <2>1 DEF Noted, Seen1, Continued, h
<1> QED
  BY <1>7, <1>8 DEF h

\* What a wait_task coroutine makes of the group.
Joined(g, t, h) ==
  /\ h \in GroupRecord /\ h.count = g.count + 1 /\ h.joined = g.joined \cup {t}
  /\ h.error = g.error /\ h.once = TRUE /\ Woken(g, h)
  /\ kind \in Races =>
       /\ h.cancelOnce = TRUE
       /\ h.asked = IF g.cancelOnce THEN g.asked ELSE g.asked \cup (Tasks \ {t})
  /\ kind \notin Races => h.cancelOnce = g.cancelOnce /\ h.asked = g.asked

LEMMA JoinEffect ==
  ASSUME NEW g \in GroupRecord, NEW t \in Nat, Tasks \subseteq Nat,
         kind \in Races /\ g.cancelOnce => g.once
  PROVE  Joined(g, t, Join(g, t))
<1> DEFINE e == IF kind \in {"race", "wait_for"} THEN RaceDone(g, t) ELSE WakeOnce(g)
           h == Join(g, t)
<1>1. h = CountDone(e, t)
  BY DEF Join
<1>2. /\ e \in GroupRecord /\ e.count = g.count /\ e.joined = g.joined /\ e.error = g.error
      /\ e.once = TRUE /\ Woken(g, e)
      /\ kind \in Races =>
           /\ e.cancelOnce = TRUE
           /\ e.asked = IF g.cancelOnce THEN g.asked ELSE g.asked \cup (Tasks \ {t})
      /\ kind \notin Races => e.cancelOnce = g.cancelOnce /\ e.asked = g.asked
  <2>1. CASE kind \notin Races
    <3>1. Raised(g, e)
      BY <2>1, WakeOnceRaises DEF Races
    <3> HIDE DEF e
    <3> QED
      BY <2>1, <3>1 DEF Raised
  <2>2. CASE kind \in Races /\ g.cancelOnce
    <3>1. e = g
      BY <2>2 DEF Races, RaceDone
    <3>2. g.cancelOnce = TRUE /\ g.once = TRUE
      BY <2>2 DEF GroupRecord
    <3>3. Woken(g, g)
      BY DEF Woken
    <3> QED
      BY <2>2, <3>1, <3>2, <3>3
  <2>3. CASE kind \in Races /\ ~g.cancelOnce
    <3> DEFINE a == g.asked \cup (Tasks \ {t})
               f == [g EXCEPT !.cancelOnce = TRUE, !.asked = a]
    <3>1. e = WakeOnce(f)
      BY <2>3 DEF Races, RaceDone
    <3>2. a \in SUBSET Nat
      BY DEF GroupRecord
    <3> HIDE DEF a
    <3>3. f \in GroupRecord /\ f.cancelOnce = TRUE /\ f.asked = a /\ f.count = g.count
          /\ f.joined = g.joined /\ f.error = g.error /\ f.once = g.once /\ f.wake = g.wake
      BY <3>2 DEF GroupRecord
    <3> HIDE DEF f
    <3>4. Raised(f, e)
      BY <3>1, <3>3, WakeOnceRaises
    <3> HIDE DEF e
    <3>5. Woken(g, e)
      BY <3>3, <3>4 DEF Raised, Woken
    <3> QED
      BY <2>3, <3>3, <3>4, <3>5 DEF Raised, a
  <2> QED
    BY <2>1, <2>2, <2>3
<1> HIDE DEF e
<1>3. Seen1(e, t, h)
  BY <1>1, <1>2, CountDoneSees
<1> HIDE DEF h
<1>4. Woken(g, h) /\ h.once = TRUE
  BY <1>2, <1>3, WokenTwice DEF Seen1, GroupRecord
<1> QED
  BY <1>2, <1>3, <1>4 DEF Seen1, Joined, h

-----------------------------------------------------------------------------
(* Registering.                                                             *)

\* The recursive function is what it is written to be.
LEMMA RegisteringIs ==
  ASSUME Total \in Nat
  PROVE  Registering = [i \in 0..Total |->
                          IF i = 0 THEN group ELSE RegisterOne(Registering[i - 1], i)]
<1> DEFINE F(f, n) ==
             f = [i \in 0..n |-> IF i = 0 THEN group ELSE RegisterOne(f[i - 1], i)]
           Bad == {n \in 0..Total : ~\E f : F(f, n)}
<1>1. Bad = {}
  <2> SUFFICES ASSUME Bad # {} PROVE FALSE
    OBVIOUS
  <2>1. PICK n \in Bad : \A m \in Bad : n <= m
    <3>1. Bad \subseteq Nat
      OBVIOUS
    <3> HIDE DEF Bad
    <3> QED
      BY <3>1, LeastNumber
  <2>2. n \in 0..Total /\ n \in Nat
    BY <2>1
  <2>3. n # 0
    <3> DEFINE f == [i \in 0..0 |-> group]
    <3>1. F(f, 0)
      OBVIOUS
    <3> HIDE DEF F
    <3> QED
      BY <2>1, <3>1
  <2>4. n - 1 \in 0..Total /\ n - 1 \notin Bad
    BY <2>1, <2>2, <2>3
  <2>5. PICK f : F(f, n - 1)
    BY <2>4
  <2> DEFINE h == [i \in 0..n |-> IF i = n THEN RegisterOne(f[n - 1], n) ELSE f[i]]
  <2>6. \A i \in 0..n : h[i] = IF i = 0 THEN group ELSE RegisterOne(h[i - 1], i)
    <3> SUFFICES ASSUME NEW i \in 0..n
                 PROVE h[i] = IF i = 0 THEN group ELSE RegisterOne(h[i - 1], i)
      OBVIOUS
    <3>1. CASE i = n
      <4>1. h[i - 1] = f[n - 1]
        BY <2>2, <2>3, <3>1
      <4> QED
        BY <2>3, <3>1, <4>1
    <3>2. CASE i # n /\ i # 0
      <4>1. i \in 0..(n - 1) /\ h[i] = f[i] /\ i - 1 \in 0..n /\ i - 1 # n
        BY <2>2, <3>2
      <4>2. h[i - 1] = f[i - 1]
        BY <4>1
      <4>3. f[i] = RegisterOne(f[i - 1], i)
        BY <2>5, <3>2, <4>1
      <4> QED
        BY <3>2, <4>1, <4>2, <4>3
    <3>3. CASE i # n /\ i = 0
      BY <2>2, <2>3, <2>5, <3>3
    <3> QED
      BY <3>1, <3>2, <3>3
  <2>7. h = [i \in 0..n |-> h[i]]
    OBVIOUS
  <2> HIDE DEF h
  <2>8. F(h, n)
    BY <2>6, <2>7
  <2> HIDE DEF F
  <2> QED
    BY <2>1, <2>8
<1>2. \E f : F(f, Total)
  BY <1>1
<1>3. Registering = CHOOSE f : F(f, Total)
  BY DEF Registering
<1>4. F(CHOOSE f : F(f, Total), Total)
  <2> HIDE DEF F
  <2> QED
    BY <1>2
<1> QED
  BY <1>3, <1>4

\* What is done, and what has failed, of the first i tasks.
Prefix(i) == {t \in 1..i : IsDone(t)}
Failing(i) == {t \in Prefix(i) : task[t] # "value"}

\* Whether wake_once is set by then.
OnceAfter(i) ==
  \/ kind \in TupleKinds \cup {"wait_first"} /\ Prefix(i) # {}
  \/ kind \in Errors /\ Failing(i) # {}
  \/ Cardinality(Prefix(i)) = Total

\* The group after the first i tasks.
Begun(g, i) ==
  /\ g \in GroupRecord /\ g.wake = "idle"
  /\ g.joined = Prefix(i) /\ g.count = Cardinality(Prefix(i))
  /\ g.error = IF kind \in Errors THEN Least(Failing(i)) ELSE 0
  /\ g.once <=> OnceAfter(i)
  /\ kind \in Races =>
       /\ g.cancelOnce <=> Prefix(i) # {}
       /\ g.asked = IF Prefix(i) = {} THEN {} ELSE Tasks \ {Least(Prefix(i))}

LEMMA PrefixFinite ==
  ASSUME NEW i \in Nat
  PROVE  /\ IsFiniteSet(Prefix(i)) /\ Cardinality(Prefix(i)) \in Nat /\ Cardinality(Prefix(i)) <= i
         /\ Prefix(i) \subseteq Nat \ {0} /\ Failing(i) \subseteq Prefix(i)
         /\ Prefix(i) \subseteq 1..i
<1>1. IsFiniteSet(1..i) /\ Cardinality(1..i) = IF 1 > i THEN 0 ELSE i - 1 + 1
  BY FS_Interval
<1>2. Prefix(i) \subseteq 1..i /\ Failing(i) \subseteq Prefix(i)
  BY DEF Prefix, Failing
<1>3. Cardinality(1..i) = i
  BY <1>1
<1>4. IsFiniteSet(Prefix(i)) /\ Cardinality(Prefix(i)) <= Cardinality(1..i)
  BY <1>1, <1>2, FS_Subset
<1>5. Cardinality(Prefix(i)) \in Nat
  BY <1>4, FS_CardinalityType
<1>6. Prefix(i) \subseteq Nat \ {0}
  BY <1>2
<1> QED
  BY <1>2, <1>3, <1>4, <1>5, <1>6

LEMMA BegunAtFirst ==
  ASSUME Types, Before, parent = "start"
  PROVE  Begun(group, 0)
<1>1. /\ group.wake = "idle" /\ group.asked = {} /\ group.cancelOnce = FALSE
      /\ group.count = 0 /\ group.joined = {} /\ group.error = 0 /\ group.once = FALSE
  BY DEF Before
<1>2. Prefix(0) = {} /\ Failing(0) = {}
  BY DEF Prefix, Failing
<1>3. Cardinality({}) = 0 /\ Cardinality(Prefix(0)) = 0
  BY <1>2, FS_EmptySet
<1>4. Total \in Nat \ {0}
  BY TasksAre DEF Types
<1>5. ~OnceAfter(0)
  BY <1>2, <1>3, <1>4 DEF OnceAfter
<1>6. Least(Failing(0)) = 0
  BY <1>2 DEF Least
<1> QED
  BY <1>1, <1>2, <1>3, <1>5, <1>6 DEF Begun, Types

LEMMA BegunNext ==
  ASSUME Types, NEW i \in 1..Total, NEW g, Begun(g, i - 1)
  PROVE  Begun(RegisterOne(g, i), i)
<1>0. /\ Total \in Nat \ {0} /\ Tasks = 1..Total /\ i \in Nat \ {0} /\ i - 1 \in Nat
      /\ Tasks \subseteq Nat
  BY TasksAre DEF Types
<1> DEFINE h == RegisterOne(g, i)
           P == Prefix(i - 1)
           Q == Prefix(i)
           F == Failing(i - 1)
           G == Failing(i)
<1>1. CASE ~IsDone(i)
  <2>1. h = g
    BY <1>1 DEF RegisterOne
  <2>2. Q = P
    BY <1>0, <1>1 DEF Prefix
  <2>3. G = F
    BY <2>2 DEF Failing
  <2>4. OnceAfter(i) <=> OnceAfter(i - 1)
    BY <2>2, <2>3 DEF OnceAfter
  <2> HIDE DEF h
  <2> QED
    BY <2>1, <2>2, <2>3, <2>4 DEF Begun, h
<1>2. CASE IsDone(i)
  <2> DEFINE bad == task[i] # "value"
  <2>1. Q = P \cup {i} /\ i \notin P /\ \A u \in P : u < i
    BY <1>0, <1>2 DEF Prefix
  <2>2. G = (IF bad THEN F \cup {i} ELSE F) /\ F \subseteq P
    BY <2>1 DEF Failing
  <2>3. /\ IsFiniteSet(P) /\ Cardinality(P) \in Nat /\ Cardinality(P) <= i - 1
        /\ P \subseteq Nat \ {0} /\ F \subseteq Nat \ {0}
    BY <1>0, PrefixFinite
  <2>4. Cardinality(Q) = Cardinality(P) + 1
    BY <2>1, <2>3, FS_AddElement
  <2>5. /\ g \in GroupRecord /\ g.wake = "idle" /\ g.joined = P /\ g.count = Cardinality(P)
        /\ g.error = (IF kind \in Errors THEN Least(F) ELSE 0)
        /\ g.once <=> OnceAfter(i - 1)
        /\ kind \in Races => /\ g.cancelOnce <=> P # {}
                             /\ g.asked = IF P = {} THEN {} ELSE Tasks \ {Least(P)}
    BY DEF Begun
  <2>6. Cardinality(P) # Total
    BY <1>0, <2>3
  <2>7. (kind \in TupleKinds \cup {"wait_first"} /\ P # {}) \/ (kind \in Errors /\ F # {})
          <=> g.once
    BY <2>5, <2>6 DEF OnceAfter
  <2>8. Least(Q) = IF P = {} THEN i ELSE Least(P)
    BY <1>0, <2>1, <2>3, LeastAdd
  <2>9. Least(G) = IF bad /\ F = {} THEN i ELSE Least(F)
    <3>1. CASE bad
      <4>1. \A u \in F : u < i
        BY <2>1, <2>2
      <4>2. G = F \cup {i}
        BY <2>2, <3>1
      <4> HIDE DEF F, G, bad
      <4>3. Least(G) = IF F = {} THEN i ELSE Least(F)
        BY <1>0, <2>3, <4>1, <4>2, LeastAdd
      <4> QED
        BY <3>1, <4>3
    <3>2. CASE ~bad
      BY <2>2, <3>2
    <3> QED
      BY <3>1, <3>2
  <2>10. Least(F) = 0 <=> F = {}
    BY <2>3, LeastIs
  <2> HIDE DEF h, P, Q, F, G, bad
  <2>11. CASE kind \in TupleKinds
    <3>1. h = Join(g, i)
      BY <1>2, <2>11 DEF RegisterOne, h
    <3>2. kind \in Races /\ g.cancelOnce => g.once
      BY <2>5, <2>7, <2>11
    <3>3. Joined(g, i, h)
      BY <1>0, <2>5, <3>1, <3>2, JoinEffect
    <3>4. h.joined = Q /\ h.count = Cardinality(Q) /\ h.wake = "idle" /\ h.error = 0
          /\ h.once = TRUE /\ h \in GroupRecord
      BY <2>1, <2>4, <2>5, <2>11, <3>3 DEF Joined, Woken, TupleKinds, Errors
    <3>5. OnceAfter(i)
      BY <2>1, <2>11 DEF OnceAfter, Q
    <3>6. kind \in Races => /\ h.cancelOnce <=> Q # {}
                            /\ h.asked = IF Q = {} THEN {} ELSE Tasks \ {Least(Q)}
      <4>1. CASE P = {}
        BY <2>1, <2>5, <2>8, <3>3, <4>1 DEF Joined
      <4>2. CASE P # {}
        BY <2>1, <2>5, <2>8, <3>3, <4>2 DEF Joined
      <4> QED
        BY <4>1, <4>2
    <3> QED
      BY <2>11, <3>4, <3>5, <3>6 DEF Begun, TupleKinds, Errors, h, Q
  <2>12. CASE kind \notin TupleKinds
    <3>1. h = Continuation(g, i, task[i])
      BY <1>2, <2>12 DEF RegisterOne, h
    <3>2. Continued(g, i, task[i], h)
      BY <1>0, <2>5, <3>1, ContinuationEffect
    <3>3. h.joined = Q /\ h.count = Cardinality(Q) /\ h.wake = "idle" /\ h \in GroupRecord
      BY <2>1, <2>4, <2>5, <3>2 DEF Continued, Woken
    <3>4. h.error = IF kind \in Errors THEN Least(G) ELSE 0
      BY <2>5, <2>9, <2>10, <3>2 DEF Continued, ErrorAfter, bad
    <3>5. h.once <=> g.once \/ h.count = Total \/ kind = "wait_first" \/ Raises(g, task[i])
      BY <3>2 DEF Continued
    <3>6. G # {} <=> F # {} \/ bad
      BY <2>2
    <3>7. OnceAfter(i) <=> \/ kind = "wait_first" \/ (kind \in Errors /\ G # {})
                           \/ Cardinality(Q) = Total
      BY <2>1, <2>12 DEF OnceAfter, Q, G
    <3>8. h.once <=> OnceAfter(i)
      <4>1. CASE kind \in Errors
        <5>1. g.error = 0 <=> F = {}
          BY <2>5, <2>10, <4>1
        <5>2. g.once <=> F # {}
          BY <2>7, <4>1 DEF Errors, TupleKinds
        <5>3. Raises(g, task[i]) => bad
          BY DEF Raises, bad
        <5>4. bad /\ F = {} => Raises(g, task[i])
          BY <4>1, <5>1 DEF Raises, bad
        <5> QED
          BY <3>3, <3>5, <3>6, <3>7, <4>1, <5>2, <5>3, <5>4 DEF Errors
      <4>2. CASE kind \notin Errors
        <5>1. ~Raises(g, task[i])
          BY <4>2 DEF Raises, Errors
        <5>2. g.once => kind = "wait_first"
          BY <2>7, <2>12, <4>2
        <5> QED
          BY <3>3, <3>5, <3>7, <4>2, <5>1, <5>2
      <4> QED
        BY <4>1, <4>2
    <3>9. kind \notin Races
      BY <2>12 DEF Races, TupleKinds
    <3> QED
      BY <3>3, <3>4, <3>8, <3>9 DEF Begun, h, Q, G
  <2> QED
    BY <2>11, <2>12
<1> QED
  BY <1>1, <1>2

LEMMA RegisteredBegun ==
  ASSUME Types, Before, parent = "start"
  PROVE  Begun(Registered, Total)
<1>0. Total \in Nat \ {0} /\ Tasks = 1..Total
  BY TasksAre DEF Types
<1>1. Registering = [i \in 0..Total |->
                       IF i = 0 THEN group ELSE RegisterOne(Registering[i - 1], i)]
  BY <1>0, RegisteringIs
<1> DEFINE Bad == {n \in 0..Total : ~Begun(Registering[n], n)}
<1>2. Bad = {}
  <2> SUFFICES ASSUME Bad # {} PROVE FALSE
    OBVIOUS
  <2>1. Bad \subseteq Nat
    OBVIOUS
  <2>2. PICK n \in Bad : \A m \in Bad : n <= m
    <3> HIDE DEF Bad
    <3> QED
      BY <2>1, LeastNumber
  <2>3. n \in 0..Total /\ n \in Nat /\ ~Begun(Registering[n], n)
    BY <2>2
  <2>4. n # 0
    <3>1. Registering[0] = group
      BY <1>0, <1>1
    <3> QED
      BY <2>3, <3>1, BegunAtFirst
  <2>5. n - 1 \in 0..Total /\ n - 1 \notin Bad /\ n \in 1..Total
    <3>1. n - 1 \in 0..Total /\ n \in 1..Total /\ ~(n <= n - 1)
      BY <1>0, <2>3, <2>4
    <3> HIDE DEF Bad
    <3> QED
      BY <2>2, <3>1
  <2>6. Begun(Registering[n - 1], n - 1)
    BY <2>5
  <2>7. Registering[n] = RegisterOne(Registering[n - 1], n)
    <3> DEFINE R == Registering
    <3>1. R = [i \in 0..Total |-> IF i = 0 THEN group ELSE RegisterOne(R[i - 1], i)]
      BY <1>1
    <3> HIDE DEF R
    <3>2. R[n] = RegisterOne(R[n - 1], n)
      BY <2>3, <2>4, <3>1
    <3> QED
      BY <3>2 DEF R
  <2> QED
    BY <2>3, <2>5, <2>6, <2>7, BegunNext
<1>3. Total \in 0..Total
  BY <1>0
<1> QED
  BY <1>2, <1>3 DEF Registered

-----------------------------------------------------------------------------
(* The parent.                                                              *)

\* h is g but for wake_once and the timer.
Like(g, h) ==
  /\ h \in GroupRecord /\ h.count = g.count /\ h.joined = g.joined /\ h.error = g.error
  /\ h.cancelOnce = g.cancelOnce /\ h.asked = g.asked

LEMMA SameTasks ==
  ASSUME UNCHANGED kind
  PROVE  Tasks' = Tasks /\ Total' = Total
BY DEF Tasks, Total, Given

LEMMA SameDone ==
  ASSUME UNCHANGED <<kind, task>>
  PROVE  /\ Tasks' = Tasks /\ Total' = Total /\ Done' = Done /\ Failed' = Failed
         /\ \A t : IsDone(t)' <=> IsDone(t)
BY SameTasks DEF Done, IsDone, Failed

\* What has happened depends on the count, the first error and the ends seen.
LEMMA SameHappened ==
  ASSUME UNCHANGED kind, NEW g, Like(g, group')
  PROVE  Happened(group)' <=> Happened(g)
BY SameTasks DEF Happened, Finished, Like

\* The tasks that were done when the combinator was called stay as they are.
LEMMA SameSpent ==
  ASSUME UNCHANGED <<kind, ready>>, \A t \in ready : task'[t] = task[t]
  PROVE  SpentAtTheCall' <=> SpentAtTheCall
BY SameTasks DEF SpentAtTheCall

\* What the parent knows when it moves: the group, and what goes with its kind.
Moves(g) ==
  /\ g \in GroupRecord /\ Counts(g) /\ Stops(g) /\ Sleepers(g)
  /\ kind \notin TupleKinds => g.joined = Done
  /\ kind \in Vectors => g.error = first

LEMMA MovesAsleep ==
  ASSUME Inv, parent # "start"
  PROVE  Moves(group)
BY DEF Inv, Types, Moves, Seen, FirstFailure

LEMMA MovesInv ==
  ASSUME Inv, NEW g, Moves(g), Like(g, group'), UNCHANGED <<kind, task, cancelled, ready, first>>,
         parent' \in Ended \cup {"waiting"}, thrown' \in Nat,
         kind \in Races => group'.once = g.once
  PROVE  /\ Types' /\ Counts(group)' /\ Before' /\ Ledger' /\ Seen' /\ Sleepers(group)'
         /\ Stops(group)'
         /\ kind \in Vectors => group'.error = first
<1>1. Tasks' = Tasks /\ Done' = Done /\ Failed' = Failed /\ \A t : IsDone(t)' <=> IsDone(t)
  BY SameDone
<1>2. Types'
  BY <1>1 DEF Inv, Types, Like
<1>3. Counts(group)'
  BY <1>1 DEF Counts, Moves, Like
<1>4. Before' /\ Seen' /\ Ledger'
  BY <1>1 DEF Before, Seen, Ledger, Moves, Like, Ended, Inv
<1>5. Sleepers(group)'
  BY DEF Sleepers, Moves, Like
<1>6. Stops(group)'
  BY <1>1 DEF Stops, Moves, Like
<1>7. kind \in Vectors => group'.error = first
  BY DEF Moves, Like
<1> QED
  BY <1>2, <1>3, <1>4, <1>5, <1>6, <1>7

LEMMA EndInv ==
  ASSUME Inv, NEW g, Moves(g), group' = [g EXCEPT !.wake = "idle"],
         UNCHANGED <<kind, task, cancelled, ready, first>>, parent' \in Ended, thrown' \in Nat,
         kind \in Gathers /\ ~cancelled => g.joined = Tasks,
         kind \in Races /\ ~cancelled => g.cancelOnce,
         kind \in Vectors /\ thrown' # 0 => thrown' = first,
         kind \in {"gather", "gather_tasks", "gather_vector"} /\ parent' = "returned"
           => \A t \in Tasks : task[t] = "value",
         parent' = "undefined" => Missing
  PROVE  Inv'
<1>1. Like(g, group') /\ group'.wake = "idle" /\ group'.once = g.once
  BY DEF Moves, GroupRecord, Like
<1>2. /\ Types' /\ Counts(group)' /\ Before' /\ Ledger' /\ Seen' /\ Sleepers(group)'
      /\ Stops(group)'
      /\ kind \in Vectors => group'.error = first
  BY <1>1, MovesInv
<1>0. Tasks' = Tasks
  BY SameTasks
<1>3. Asleep(group)' /\ Waits' /\ Forever'
  BY <1>1 DEF Asleep, Waits, Forever, Ended
<1>4. Structured'
  BY <1>0, <1>1 DEF Structured, Like
<1>5. Winner'
  <2>1. kind \in Races /\ ~cancelled => group'.cancelOnce
    BY <1>1 DEF Like
  <2> QED
    BY <1>1, <2>1 DEF Winner
<1>6. FirstFailure'
  BY <1>2 DEF FirstFailure
<1>7. Defined'
  BY <1>0 DEF Defined, Missing
<1>8. Whole'
  BY <1>0 DEF Whole
<1> QED
  BY <1>2, <1>3, <1>4, <1>5, <1>6, <1>7, <1>8 DEF Inv

\* It sleeps.
LEMMA SleepInv ==
  ASSUME Inv, NEW g, Moves(g), Like(g, group'), group'.wake = "pending",
         UNCHANGED <<kind, task, cancelled, ready, first, thrown>>, parent' = "waiting",
         kind \in Races => group'.once = g.once,
         ~cancelled, group'.once <=> SpentAtTheCall, ~SpentAtTheCall => ~Happened(g)
  PROVE  Inv'
<1>1. thrown' \in Nat
  BY DEF Inv, Types
<1>2. /\ Types' /\ Counts(group)' /\ Before' /\ Ledger' /\ Seen' /\ Sleepers(group)'
      /\ Stops(group)'
      /\ kind \in Vectors => group'.error = first
  BY <1>1, MovesInv
<1>3. Happened(group)' <=> Happened(g)
  BY SameHappened
<1>4. SpentAtTheCall' <=> SpentAtTheCall
  BY SameSpent
<1>5. Asleep(group)' /\ Waits' /\ Forever'
  BY <1>3, <1>4 DEF Asleep, Waits, Forever
<1>6. Structured' /\ Defined' /\ Whole'
  BY DEF Structured, Defined, Whole, Ended
<1>7. Winner'
  BY DEF Winner, Ended
<1>8. FirstFailure'
  BY <1>2 DEF FirstFailure, Inv
<1> QED
  BY <1>2, <1>5, <1>6, <1>7, <1>8 DEF Inv

\* The error that is rethrown is that of a task, and there is none if none failed.
LEMMA LowestErrorType ==
  ASSUME NEW g \in GroupRecord, g.joined \subseteq Nat \ {0}
  PROVE  LowestError(g) \in Nat /\ (LowestError(g) = 0 => JoinedErrors(g) = {})
<1>1. JoinedErrors(g) \subseteq Nat \ {0}
  BY DEF JoinedErrors
<1> QED
  BY <1>1, LeastIs DEF LowestError

\* A gather that has seen all ends and no error has all values.
LEMMA AllValues ==
  ASSUME task \in [Tasks -> Outcomes \cup {"running"}], NEW g, g.joined = Tasks,
         g.joined \subseteq Done, kind \notin Races, JoinedErrors(g) = {}
  PROVE  \A t \in Tasks : task[t] = "value"
<1> SUFFICES ASSUME NEW t \in Tasks PROVE task[t] = "value"
  OBVIOUS
<1>1. task[t] \in Outcomes
  BY DEF Done, IsDone
<1>2. t \notin JoinedErrors(g)
  OBVIOUS
<1>3. task[t] # "error" /\ task[t] # "cancelled"
  BY <1>2 DEF JoinedErrors, Races
<1> QED
  BY <1>1, <1>3 DEF Outcomes

\* What the call leaves: the group is one the parent may move with.
LEMMA CallMoves ==
  ASSUME Inv, parent = "start", NEW g, Begun(g, Total)
  PROVE  /\ Moves(g) /\ g.joined = Done /\ Failing(Total) = Failed
         /\ kind \in Errors => g.error = first
         /\ g.once <=> \/ kind \in TupleKinds \cup {"wait_first"} /\ ready # {}
                       \/ kind \in Errors /\ Failed # {}
                       \/ ready = Tasks
         /\ g.count = Total <=> ready = Tasks
         /\ g.count > 0 <=> ready # {}
<1>0. /\ Total \in Nat \ {0} /\ Tasks = 1..Total /\ Total \in Nat /\ Tasks \subseteq Nat
      /\ task \in [Tasks -> Outcomes \cup {"running"}] /\ ready = Done /\ first = Least(Failed)
      /\ kind \in AllKinds /\ kind \in Kinds /\ (kind = "wait_for" => Total = 2 /\ task[2] = "running")
  BY TasksAre DEF Inv, Types, Before
<1>1. Prefix(Total) = Done
  BY <1>0 DEF Prefix, Done
<1>2. Failing(Total) = Failed
  BY <1>0, <1>1 DEF Failing, Failed, Done, IsDone, Outcomes
<1>3. /\ g \in GroupRecord /\ g.joined = Done /\ g.count = Cardinality(Done)
      /\ g.error = (IF kind \in Errors THEN first ELSE 0)
      /\ g.once <=> \/ kind \in TupleKinds \cup {"wait_first"} /\ Done # {}
                    \/ kind \in Errors /\ Failed # {}
                    \/ Cardinality(Done) = Total
      /\ kind \in Races => /\ g.cancelOnce <=> Done # {}
                           /\ g.asked = IF Done = {} THEN {} ELSE Tasks \ {Least(Done)}
  BY <1>0, <1>1, <1>2 DEF Begun, OnceAfter
<1>4. IsFiniteSet(Done) /\ Cardinality(Done) \in Nat /\ Done \subseteq Tasks
      /\ (Cardinality(Done) = Total <=> Done = Tasks)
  BY <1>0, DoneFinite, TasksAre
<1>5. Cardinality(Done) > 0 <=> Done # {}
  BY <1>4, FS_EmptySet
<1>6. Done \subseteq Nat \ {0}
  BY <1>0, <1>4
<1>7. Done # {} => Least(Done) \in Done
  BY <1>6, LeastIs
<1>8. Stops(g)
  <2> SUFFICES ASSUME kind \in Races PROVE Stops(g)
    BY DEF Stops
  <2>1. g.cancelOnce => g.once
    BY <1>3 DEF Races, TupleKinds
  <2>2. g.cancelOnce => \A t \in Tasks : IsDone(t) \/ t \in g.asked
    <3> SUFFICES ASSUME g.cancelOnce, NEW t \in Tasks PROVE IsDone(t) \/ t \in g.asked
      OBVIOUS
    <3>1. g.asked = Tasks \ {Least(Done)} /\ Least(Done) \in Done
      BY <1>3, <1>7
    <3>2. IsDone(Least(Done))
      BY <3>1 DEF Done
    <3> QED
      BY <3>1, <3>2
  <2> QED
    BY <1>3, <2>1, <2>2 DEF Stops
<1>9. Sleepers(g)
  <2> SUFFICES ASSUME kind = "wait_for" PROVE Sleepers(g)
    BY DEF Sleepers
  <2>1. Tasks = {1, 2} /\ task[2] = "running"
    BY <1>0
  <2>2. Done = {} \/ Done = {1}
    BY <1>4, <2>1 DEF Done, IsDone
  <2>3. Done = {1} => Least(Done) = 1
    BY <1>7
  <2>4. g.asked = {} \/ (Done = {1} /\ g.asked = {2})
    BY <1>3, <2>1, <2>2, <2>3 DEF Races
  <2>5. task[1] = "cancelled" => OutsideCancel
    <3>1. group.asked = {}
      BY DEF Inv, Before
    <3> QED
      BY <3>1 DEF Inv, Sleepers
  <2> QED
    BY <1>3, <2>1, <2>2, <2>4, <2>5 DEF Sleepers, Races
<1>10. Counts(g)
  BY <1>3 DEF Counts
<1>11. kind \in Vectors => kind \in Errors
  BY DEF Vectors, Errors
<1>12. Moves(g)
  BY <1>3, <1>8, <1>9, <1>10, <1>11 DEF Moves
<1> QED
  BY <1>0, <1>2, <1>3, <1>4, <1>5, <1>12

\* Whether the wake-up is used up when the parent goes to sleep in the call, and that
\* what it waits for has not happened otherwise.
LEMMA CallSleeps ==
  ASSUME Inv, parent = "start", NEW g, Begun(g, Total), ~(Finished(g) /\ kind \notin Snapshots)
  PROVE  (g.once <=> SpentAtTheCall) /\ (~SpentAtTheCall => ~Happened(g))
<1>0. /\ g.once <=> \/ kind \in TupleKinds \cup {"wait_first"} /\ ready # {}
                    \/ kind \in Errors /\ Failed # {}
                    \/ ready = Tasks
      /\ g.count = Total <=> ready = Tasks
      /\ g.count > 0 <=> ready # {}
      /\ g.joined = ready /\ (kind \in Errors => g.error = first)
      /\ ready = Done /\ first = Least(Failed) /\ kind \in AllKinds
  BY CallMoves DEF Inv, Before, Types
<1>1. Failed # {} <=> \E t \in ready : task[t] # "value"
  <2>1. Failed = {t \in Done : task[t] # "value"}
    BY DEF Inv, Types, Failed, Done, IsDone, Outcomes
  <2> QED
    BY <1>0, <2>1
<1>2. first = 0 <=> Failed = {}
  <2>1. Failed \subseteq Nat \ {0}
    BY TasksAre DEF Failed, Inv, Types
  <2> QED
    BY <1>0, <2>1, LeastIs
<1>3. Tasks # {} /\ Total > 0
  BY TasksAre DEF Inv, Types
<1>4. CASE kind \in Snapshots
  <2>1. SpentAtTheCall <=> ready # {}
    BY <1>4 DEF SpentAtTheCall, Snapshots
  <2>2. kind \in TupleKinds /\ kind \notin Errors
    BY <1>4 DEF Snapshots, TupleKinds, Errors
  <2>3. ready = {} => g.count # Total
    BY <1>0, <1>3
  <2>4. ready = {} => ~Finished(g)
    BY <1>4, <2>3 DEF Finished, Snapshots
  <2>5. ready = {} => ~Happened(g)
    BY <1>0, <1>4, <2>4 DEF Happened, Snapshots
  <2> QED
    BY <1>0, <1>3, <2>1, <2>2, <2>5
<1>5. CASE kind \in Gathers
  <2>1. ~Finished(g) /\ (Finished(g) <=> g.count = Total)
    BY <1>5 DEF Finished, Gathers, Snapshots
  <2>2. SpentAtTheCall <=> ready # {} /\ ready # Tasks
    BY <1>5 DEF SpentAtTheCall, Gathers
  <2>3. kind \in TupleKinds /\ kind \notin Errors /\ kind \notin Snapshots
    BY <1>5 DEF Gathers, TupleKinds, Errors, Snapshots
  <2>4. ~Happened(g)
    BY <1>5, <2>1 DEF Happened, Gathers
  <2> QED
    BY <1>0, <2>1, <2>2, <2>3, <2>4
<1>6. CASE kind \in Vectors
  <2>1. ~Finished(g) /\ (Finished(g) <=> g.count = Total)
    BY <1>6 DEF Finished, Vectors, Snapshots
  <2>2. SpentAtTheCall <=> ready # Tasks /\ Failed # {}
    BY <1>1, <1>6 DEF SpentAtTheCall, Vectors
  <2>3. kind \in Errors /\ kind \notin TupleKinds \cup {"wait_first"}
    BY <1>6 DEF Vectors, TupleKinds, Errors
  <2>4. ~SpentAtTheCall => ~Happened(g)
    BY <1>0, <1>2, <1>6, <2>1, <2>2, <2>3 DEF Happened, Vectors
  <2> QED
    BY <1>0, <2>1, <2>2, <2>3, <2>4
<1>7. CASE kind \in {"wait_all", "wait_first", "wait_exception", "as_completed"}
  <2>1. ~Finished(g)
    BY <1>7 DEF Snapshots
  <2>2. ~SpentAtTheCall /\ (Happened(g) <=> Finished(g))
    BY <1>7 DEF SpentAtTheCall, Happened
  <2>3. CASE kind = "wait_first"
    BY <1>0, <1>3, <2>1, <2>2, <2>3 DEF Finished, Errors
  <2>4. CASE kind = "wait_exception"
    BY <1>0, <1>2, <2>1, <2>2, <2>4 DEF Finished, Errors, TupleKinds
  <2>5. CASE kind \in {"wait_all", "as_completed"}
    <3>1. kind \notin TupleKinds \cup {"wait_first"} /\ kind \notin Errors
      BY <2>5 DEF TupleKinds, Errors
    <3>2. g.count # Total
      BY <2>1, <2>5 DEF Finished
    <3> QED
      BY <1>0, <2>1, <2>2, <3>1, <3>2
  <2> QED
    BY <1>7, <2>3, <2>4, <2>5
<1> QED
  BY <1>0, <1>4, <1>5, <1>6, <1>7
     DEF AllKinds, TupleKinds, TaskKinds, Snapshots, Gathers, Vectors

\* The parent ends inside the call.
LEMMA CallEnds ==
  ASSUME Inv, parent = "start", NEW g, Begun(g, Total), Finished(g), kind \notin Snapshots,
         Result(g), UNCHANGED <<kind, task, cancelled, ready, first>>
  PROVE  Inv'
<1>0. /\ Moves(g) /\ g.joined = Done /\ (kind \in Errors => g.error = first)
      /\ g.count = Total <=> ready = Tasks
      /\ ready = Done /\ first = Least(Failed) /\ kind \in AllKinds
      /\ g \in GroupRecord /\ task \in [Tasks -> Outcomes \cup {"running"}]
      /\ Done \subseteq Nat \ {0} /\ Failed \subseteq Nat \ {0} /\ first \in Nat
  <2>1. Tasks \subseteq Nat \ {0}
    BY TasksAre DEF Inv, Types
  <2> QED
    BY <2>1, CallMoves DEF Inv, Before, Types, Moves, Done, Failed
<1>1. kind \notin Races
  BY DEF Races, Snapshots
<1>2. JoinedErrors(g) = Failed
  BY <1>0, <1>1 DEF JoinedErrors, Failed, Done, IsDone, Races
<1>3. LowestError(g) = first /\ (first = 0 <=> Failed = {})
  BY <1>0, <1>2, LeastIs DEF LowestError
<1>4. kind \in Gathers \cup Vectors => g.joined = Tasks /\ ready = Tasks
  <2>1. kind \in Gathers \cup Vectors => g.count = Total
    BY DEF Finished, Gathers, Vectors
  <2> QED
    BY <1>0, <2>1
<1>5. kind \in Gathers \cup Vectors /\ first = 0 => \A t \in Tasks : task[t] = "value"
  BY <1>0, <1>1, <1>2, <1>3, <1>4, AllValues
<1>6. CASE kind = "gather"
  <2>1. \/ Throw(g, LowestError(g))
        \/ LowestError(g) = 0 /\ Return(g)
    BY <1>6 DEF Result, GatherResult
  <2>2. group' = [g EXCEPT !.wake = "idle"] /\ thrown' \in Nat
        /\ (parent' = "threw" \/ (parent' = "returned" /\ first = 0))
    BY <1>0, <1>3, <2>1 DEF Throw, Return
  <2>3. kind \in Gathers /\ kind \notin Vectors
    BY <1>6 DEF Gathers, Vectors
  <2> QED
    BY <1>0, <1>1, <1>4, <1>5, <2>2, <2>3, EndInv DEF Ended
<1>7. CASE kind = "gather_tasks" /\ g.error # 0
  <2>1. Throw(g, first)
    BY <1>3, <1>7 DEF Result
  <2>2. kind \notin Gathers
    BY <1>7 DEF Gathers
  <2> QED
    BY <1>0, <1>1, <2>1, <2>2, EndInv DEF Throw, Ended
<1>8. CASE kind = "gather_vector" /\ g.error # 0
  <2>1. parent' = "undefined" /\ thrown' = 0 /\ group' = [g EXCEPT !.wake = "idle"]
    BY <1>8 DEF Result
  <2>2. kind \in Errors /\ kind \in Vectors /\ kind \notin Gathers
    BY <1>8 DEF Errors, Vectors, Gathers
  <2>3. Missing
    BY <1>0, <1>4, <1>8, <2>2 DEF Missing
  <2> QED
    BY <1>0, <1>1, <2>1, <2>2, <2>3, EndInv DEF Ended
<1>9. CASE kind # "gather" /\ ~(kind \in Vectors /\ g.error # 0)
  <2>1. Return(g)
    BY <1>9 DEF Result, Vectors, Snapshots
  <2>2. parent' = "returned" /\ thrown' = 0 /\ group' = [g EXCEPT !.wake = "idle"]
    BY <2>1 DEF Return
  <2>3. kind \in Vectors => first = 0
    BY <1>0, <1>9 DEF Vectors, Errors
  <2>4. kind \in {"gather", "gather_tasks", "gather_vector"} => \A t \in Tasks : task[t] = "value"
    BY <1>5, <1>9, <2>3 DEF Vectors
  <2>5. kind \in Gathers => g.joined = Tasks
    BY <1>4
  <2> QED
    BY <1>0, <1>1, <2>2, <2>4, <2>5, EndInv DEF Ended
<1> QED
  BY <1>6, <1>7, <1>8, <1>9 DEF Vectors

LEMMA CallInv ==
  ASSUME Inv, Call
  PROVE  Inv'
<1> DEFINE g == Registered
<1>0. /\ parent = "start" /\ UNCHANGED <<kind, task, cancelled, ready, first>>
      /\ Types /\ Before /\ ~cancelled
  BY DEF Inv, Before, Call
<1>1. Begun(g, Total)
  BY <1>0, RegisteredBegun
<1>2. IF Finished(g) /\ kind \notin Snapshots THEN Result(g)
      ELSE parent' = "waiting" /\ group' = [g EXCEPT !.wake = "pending"] /\ UNCHANGED thrown
  BY DEF Call, Snapshots
<1> HIDE DEF g
<1>3. CASE Finished(g) /\ kind \notin Snapshots
  BY <1>0, <1>1, <1>2, <1>3, CallEnds
<1>4. CASE ~(Finished(g) /\ kind \notin Snapshots)
  <2>1. parent' = "waiting" /\ group' = [g EXCEPT !.wake = "pending"] /\ UNCHANGED thrown
    BY <1>2, <1>4
  <2>2. Moves(g) /\ g \in GroupRecord
    BY <1>0, <1>1, CallMoves DEF Moves
  <2>3. Like(g, group') /\ group'.wake = "pending" /\ group'.once = g.once
    BY <2>1, <2>2 DEF GroupRecord, Like
  <2>4. (g.once <=> SpentAtTheCall) /\ (~SpentAtTheCall => ~Happened(g))
    BY <1>0, <1>1, <1>4, CallSleeps
  <2> QED
    BY <1>0, <2>1, <2>2, <2>3, <2>4, SleepInv
<1> QED
  BY <1>3, <1>4

\* The cancellation of the tasks of a tuple gather leaves the rest of the group alone.
LEMMA GatherCancelEffect ==
  ASSUME Inv, parent = "waiting"
  PROVE  LET g == GatherCancel(group)
         IN  /\ Moves(g) /\ g.count = group.count /\ g.joined = group.joined
             /\ g.error = group.error /\ (kind # "gather" => g = group)
<1> DEFINE g == GatherCancel(group)
<1>1. group \in GroupRecord /\ Counts(group) /\ Tasks \subseteq Nat /\ Moves(group)
  BY TasksAre, MovesAsleep DEF Inv, Types
<1>2. CASE kind = "gather" /\ LowestError(group) # 0 /\ ~group.cancelOnce
  <2>1. g = [group EXCEPT !.cancelOnce = TRUE, !.asked = Tasks]
    BY <1>2 DEF GatherCancel
  <2>2. g \in GroupRecord /\ g.count = group.count /\ g.joined = group.joined
        /\ g.error = group.error
    BY <1>1, <2>1 DEF GroupRecord
  <2> HIDE DEF g
  <2>3. Counts(g)
    BY <1>1, <2>2 DEF Counts
  <2>4. Stops(g) /\ Sleepers(g)
    BY <1>2 DEF Stops, Sleepers, Races
  <2> QED
    BY <1>2, <2>2, <2>3, <2>4 DEF Moves, Vectors, TupleKinds, g
<1>3. CASE ~(kind = "gather" /\ LowestError(group) # 0 /\ ~group.cancelOnce)
  <2>1. g = group
    BY <1>3 DEF GatherCancel
  <2> QED
    BY <1>1, <2>1
<1> QED
  BY <1>2, <1>3

LEMMA SnapshotInv ==
  ASSUME Inv, parent = "waiting", group.wake = "fired", kind \in Snapshots,
         SnapshotResult(group), UNCHANGED <<kind, task, cancelled, ready, first>>
  PROVE  Inv'
<1>0. /\ group \in GroupRecord /\ Moves(group) /\ Tasks = 1..Total /\ Total \in Nat \ {0}
      /\ group.joined \subseteq Tasks /\ task \in [Tasks -> Outcomes \cup {"running"}]
      /\ \A t \in group.joined : IsDone(t)
  BY TasksAre, MovesAsleep DEF Inv, Types, Counts, Done
<1>1. LowestError(group) \in Nat /\ (LowestError(group) = 0 => JoinedErrors(group) = {})
  BY <1>0, LowestErrorType
<1>2. kind \notin Gathers /\ kind \notin Vectors
      /\ kind \notin {"gather", "gather_tasks", "gather_vector"}
  BY DEF Snapshots, Gathers, Vectors
<1>3. kind \in Races /\ ~cancelled => group.cancelOnce
  BY DEF Inv, Winner
<1>4. group' = [group EXCEPT !.wake = "idle"] /\ parent' \in Ended /\ thrown' \in Nat
  BY <1>1 DEF SnapshotResult, Throw, Return, Ended
<1>5. parent' = "undefined" => Missing
  <2> SUFFICES ASSUME parent' = "undefined"
               PROVE kind = "wait_for" /\ (cancelled \/ (OutsideCancel /\ task[1] = "cancelled"))
    BY DEF Missing
  <2>1. kind = "wait_for" /\ JoinedValues(group) = {} /\ LowestError(group) = 0
    BY DEF SnapshotResult, Throw, Return
  <2>2. \A t \in group.joined : task[t] = "cancelled"
    BY <1>0, <1>1, <2>1 DEF JoinedErrors, JoinedValues, IsDone, Outcomes
  <2>3. SUFFICES ASSUME ~cancelled PROVE OutsideCancel /\ task[1] = "cancelled"
    BY <2>1
  <2>4. group.joined # {}
    BY <1>3, <2>1, <2>3 DEF Inv, Stops, Races
  <2>5. group.joined \subseteq {1, 2}
    BY <1>0, <2>1, TasksAre DEF Inv, Types
  <2>6. 1 \in group.joined
    BY <2>1, <2>2, <2>4, <2>5 DEF Inv, Sleepers
  <2>7. 1 \notin group.asked
    BY <2>1, <2>2 DEF Inv, Sleepers
  <2> QED
    BY <2>1, <2>2, <2>6, <2>7 DEF Inv, Sleepers
<1> QED
  BY <1>0, <1>2, <1>3, <1>4, <1>5, EndInv

LEMMA WakesInv ==
  ASSUME Inv, Wakes
  PROVE  Inv'
<1> DEFINE g == GatherCancel(group)
<1>0. parent = "waiting" /\ group.wake = "fired"
      /\ UNCHANGED <<kind, task, cancelled, ready, first>>
      /\ IF kind \in {"gather_tasks", "gather_vector"} /\ g.error # 0 THEN Throw(g, g.error)
         ELSE IF kind \in {"one_of", "race", "wait_for"} \/ Finished(g) THEN Result(g)
         ELSE SleepAgain(g)
  BY DEF Wakes
<1>1. /\ Moves(g) /\ g.count = group.count /\ g.joined = group.joined
      /\ g.error = group.error /\ (kind # "gather" => g = group)
  BY <1>0, GatherCancelEffect
<1> HIDE DEF g
<1>2. CASE kind \in Snapshots
  <2>1. Result(g) /\ g = group
    BY <1>0, <1>1, <1>2 DEF Snapshots
  <2>2. SnapshotResult(group)
    BY <1>2, <2>1 DEF Result, Snapshots
  <2> QED
    BY <1>0, <1>2, <2>2, SnapshotInv
<1>3. kind \notin Snapshots => kind \notin Races
  BY DEF Races, Snapshots
<1>4. CASE kind \in Vectors /\ g.error # 0
  <2>1. Throw(g, g.error)
    BY <1>0, <1>4 DEF Vectors
  <2>2. parent' = "threw" /\ thrown' = g.error /\ group' = [g EXCEPT !.wake = "idle"]
    BY <2>1 DEF Throw
  <2>3. g.error \in Nat /\ g.error = first
    BY <1>1, <1>4 DEF Moves, GroupRecord
  <2>4. kind \notin Gathers /\ kind \notin Races
    BY <1>4 DEF Vectors, Gathers, Races
  <2> QED
    BY <1>0, <1>1, <2>2, <2>3, <2>4, EndInv DEF Ended
<1>5. CASE kind \notin Snapshots /\ (kind \in Vectors => g.error = 0) /\ Finished(g)
  <2>1. Result(g)
    BY <1>0, <1>5 DEF Vectors, Snapshots
  <2>2. (kind = "gather" /\ GatherResult(g)) \/ (kind # "gather" /\ Return(g))
    BY <1>5, <2>1 DEF Result, Snapshots, Vectors
  <2>3. /\ g \in GroupRecord /\ g.joined \subseteq Done /\ g.joined \subseteq Nat \ {0}
        /\ task \in [Tasks -> Outcomes \cup {"running"}]
    <3>1. Tasks = 1..Total /\ g.joined \subseteq Done
      BY <1>1, TasksAre DEF Moves, Counts, Inv, Types
    <3> QED
      BY <1>1, <3>1 DEF Moves, Done, Inv, Types
  <2>4. LowestError(g) \in Nat /\ (LowestError(g) = 0 => JoinedErrors(g) = {})
    BY <2>3, LowestErrorType
  <2>5. group' = [g EXCEPT !.wake = "idle"] /\ parent' \in {"threw", "returned"} /\ thrown' \in Nat
        /\ (kind # "gather" => thrown' = 0)
        /\ (kind = "gather" /\ parent' = "returned" => LowestError(g) = 0)
    BY <2>2, <2>4 DEF GatherResult, Throw, Return
  <2>6. kind \in Gathers \cup Vectors => g.joined = Tasks
    <3>1. kind \in Gathers \cup Vectors => g.count = Total
      BY <1>5 DEF Finished, Gathers, Vectors
    <3> QED
      BY <1>1, <2>3, <3>1, DoneFinite DEF Moves, Counts, Inv, Types
  <2>7. kind \in Vectors => thrown' = 0
    BY <2>5 DEF Vectors
  <2>8. kind = "gather" /\ parent' = "returned" => \A t \in Tasks : task[t] = "value"
    BY <1>3, <1>5, <2>3, <2>4, <2>5, <2>6, AllValues DEF Gathers
  <2>9. kind \in Vectors => \A t \in Tasks : task[t] = "value"
    <3> SUFFICES ASSUME kind \in Vectors, NEW t \in Tasks PROVE task[t] = "value"
      OBVIOUS
    <3>1. first = 0
      BY <1>1, <1>5 DEF Moves
    <3>2. Failed = {}
      BY <3>1 DEF Inv, Ledger
    <3>3. t \in Done
      BY <2>3, <2>6
    <3> QED
      BY <2>3, <3>2, <3>3 DEF Failed, Done, IsDone, Outcomes
  <2>10. kind \in {"gather", "gather_tasks", "gather_vector"} /\ parent' = "returned"
           => \A t \in Tasks : task[t] = "value"
    BY <2>8, <2>9 DEF Vectors
  <2> QED
    BY <1>0, <1>1, <1>3, <1>5, <2>5, <2>6, <2>7, <2>10, EndInv DEF Ended
<1>6. CASE kind \notin Snapshots /\ (kind \in Vectors => g.error = 0) /\ ~Finished(g)
  <2>1. SleepAgain(g)
    BY <1>0, <1>6 DEF Vectors, Snapshots
  <2>2. CASE cancelled
    <3>1. parent' = "threw" /\ thrown' = 0 /\ group' = [g EXCEPT !.wake = "idle"]
      BY <2>1, <2>2 DEF SleepAgain, Throw
    <3> QED
      BY <1>0, <1>1, <2>2, <3>1, EndInv DEF Ended
  <2>3. CASE ~cancelled
    <3>1. parent' = "waiting" /\ UNCHANGED thrown
          /\ group' = [g EXCEPT !.once = FALSE, !.wake = "pending"]
      BY <2>1, <2>3 DEF SleepAgain, Sleep
    <3>2. Like(g, group') /\ group'.wake = "pending" /\ group'.once = FALSE
      BY <1>1, <3>1 DEF Like, Moves, GroupRecord
    <3>3. ~SpentAtTheCall
      BY <1>0, <2>3 DEF Inv, Forever
    <3>4. ~Happened(g)
      BY <1>6 DEF Happened, Vectors, Snapshots
    <3> QED
      BY <1>0, <1>1, <1>3, <1>6, <2>3, <3>1, <3>2, <3>3, <3>4, SleepInv
  <2> QED
    BY <2>2, <2>3
<1> QED
  BY <1>2, <1>4, <1>5, <1>6

LEMMA CancelParentInv ==
  ASSUME Inv, CancelParent
  PROVE  Inv'
<1>0. parent = "waiting" /\ cancelled' = TRUE
      /\ UNCHANGED <<kind, task, parent, ready, first, thrown>>
      /\ group \in GroupRecord
  BY DEF CancelParent, Inv, Types
<1>1. \/ group.wake # "pending" /\ group' = group
      \/ group' = [group EXCEPT !.wake = "fired"]
  BY DEF CancelParent
<1>2. Like(group, group') /\ group'.wake \in {"idle", "fired"} /\ group'.once = group.once
      /\ (group'.wake = group.wake \/ group'.wake = "fired")
  <2>1. CASE group.wake # "pending" /\ group' = group
    BY <1>0, <2>1 DEF Like, GroupRecord
  <2>2. CASE group' = [group EXCEPT !.wake = "fired"]
    BY <1>0, <2>2 DEF Like, GroupRecord
  <2> QED
    BY <1>1, <2>1, <2>2
<1>3. Tasks' = Tasks /\ Done' = Done /\ Failed' = Failed /\ \A t : IsDone(t)' <=> IsDone(t)
  BY <1>0, SameDone
<1>4. group.wake # "idle"
  BY <1>0 DEF Inv, Waits
<1>5. Types'
  BY <1>0, <1>2, <1>3 DEF Inv, Types, Like
<1>6. Counts(group)' /\ Seen' /\ Before' /\ Ledger'
  BY <1>0, <1>2, <1>3 DEF Inv, Counts, Seen, Before, Ledger, Like
<1>7. Asleep(group)' /\ Forever'
  BY <1>0, <1>2 DEF Asleep, Forever
<1>8. Waits'
  BY <1>0, <1>2, <1>4 DEF Waits
<1>9. Structured' /\ Defined' /\ Whole'
  BY <1>0 DEF Structured, Defined, Whole, Ended
<1>10. Winner' /\ Sleepers(group)' /\ Stops(group)'
  BY <1>0, <1>2, <1>3 DEF Inv, Winner, Sleepers, Stops, Like
<1>11. FirstFailure'
  BY <1>0, <1>2 DEF Inv, FirstFailure, Like
<1> QED
  BY <1>5, <1>6, <1>7, <1>8, <1>9, <1>10, <1>11 DEF Inv

-----------------------------------------------------------------------------
(* The tasks.                                                               *)

LEMMA InitInv == Init => Inv
<1> SUFFICES ASSUME Init PROVE Inv
  OBVIOUS
<1>1. /\ kind \in Kinds /\ kind \in AllKinds
      /\ group = [count |-> 0, once |-> FALSE, cancelOnce |-> FALSE, error |-> 0,
                  wake |-> "idle", asked |-> {}, joined |-> {}]
      /\ parent = "start" /\ cancelled = FALSE /\ thrown = 0
      /\ task \in [Tasks -> Outcomes \cup {"running"}]
      /\ ready = {t \in Tasks : task[t] # "running"}
      /\ first = Least({t \in Tasks : task[t] \in {"error", "cancelled"}})
  BY GroupAssumption DEF Init, Tasks
<1>2. group \in GroupRecord /\ group.joined = {} /\ group.count = 0 /\ group.wake = "idle"
      /\ group.cancelOnce = FALSE /\ group.error = 0 /\ group.asked = {}
  BY <1>1 DEF GroupRecord
<1>3. ready = Done /\ first = Least(Failed)
  BY <1>1 DEF Done, IsDone, Failed
<1>4. first \in Nat /\ (first = 0 <=> Failed = {})
  <2>1. Failed \subseteq Nat \ {0}
    BY <1>1, TasksAre DEF Failed
  <2> QED
    BY <1>3, <2>1, LeastIs
<1>5. Types
  BY <1>1, <1>2, <1>3, <1>4 DEF Types
<1>6. Counts(group)
  BY <1>2, FS_EmptySet DEF Counts
<1>7. /\ Asleep(group) /\ Forever /\ Seen /\ Waits /\ Structured /\ Defined /\ Whole /\ Ledger
      /\ Winner /\ FirstFailure /\ Stops(group)
  BY <1>1, <1>2, <1>4 DEF Asleep, Forever, Seen, Waits, Structured, Defined, Whole, Ledger,
     Winner, FirstFailure, Stops, Ended
<1>8. kind = "wait_for" => task[2] = "running" /\ (task[1] = "cancelled" => OutsideCancel)
  <2> SUFFICES ASSUME kind = "wait_for"
               PROVE task[2] = "running" /\ (task[1] = "cancelled" => OutsideCancel)
    OBVIOUS
  <2>1. 1 \in Given(kind)
    BY DEF Given
  <2> QED
    BY <2>1 DEF Init, Sleeper
<1>9. Before
  BY <1>1, <1>3, <1>8 DEF Before
<1>10. Sleepers(group)
  BY <1>2, <1>8 DEF Sleepers
<1> QED
  BY <1>5, <1>6, <1>7, <1>9, <1>10 DEF Inv

\* The end of a task, apart from the group.
LEMMA FinishTasks ==
  ASSUME Inv, NEW t \in Tasks, NEW o \in Outcomes, Finish(t, o)
  PROVE  /\ task[t] = "running" /\ parent # "start" /\ UNCHANGED <<kind, parent, cancelled, ready, thrown>>
         /\ group' = (IF kind \notin TupleKinds THEN Continuation(group, t, o) ELSE group)
         /\ first' = IF first = 0 /\ o # "value" THEN t ELSE first
         /\ o = "cancelled" => t \in group.asked \/ (OutsideCancel /\ t \notin Owned(kind))
         /\ kind = "wait_for" /\ t = 2 => o # "error"
         /\ task' \in [Tasks -> Outcomes \cup {"running"}] /\ task'[t] = o
         /\ \A u \in Tasks \ {t} : task'[u] = task[u]
         /\ Tasks' = Tasks /\ Total' = Total
         /\ Done' = Done \cup {t} /\ t \notin Done /\ \A u \in Tasks : IsDone(u) => IsDone(u)'
         /\ Failed' = (IF o = "value" THEN Failed ELSE Failed \cup {t})
         /\ SpentAtTheCall' <=> SpentAtTheCall
         /\ first' \in Nat /\ ready' \subseteq Done' /\ Ledger' /\ Before'
         /\ t \in Nat /\ t # 0
<1>0. /\ task[t] = "running" /\ parent # "start" /\ task' = [task EXCEPT ![t] = o]
      /\ first' = (IF first = 0 /\ o # "value" THEN t ELSE first)
      /\ group' = (IF kind \notin TupleKinds THEN Continuation(group, t, o) ELSE group)
      /\ UNCHANGED <<kind, parent, cancelled, ready, thrown>>
      /\ o = "cancelled" => t \in group.asked \/ (OutsideCancel /\ t \notin Owned(kind))
      /\ kind = "wait_for" /\ t = 2 => o # "error"
  BY DEF Finish, Sleeper
<1>1. /\ task \in [Tasks -> Outcomes \cup {"running"}] /\ first \in Nat /\ ready \subseteq Done
      /\ t \in Nat /\ t # 0
  BY TasksAre DEF Inv, Types
<1>2. Tasks' = Tasks /\ Total' = Total
  BY <1>0, SameTasks
<1>3. task' \in [Tasks -> Outcomes \cup {"running"}] /\ task'[t] = o
      /\ \A u \in Tasks \ {t} : task'[u] = task[u]
  BY <1>0, <1>1
<1>4. Done' = Done \cup {t} /\ t \notin Done /\ \A u \in Tasks : IsDone(u) => IsDone(u)'
  BY <1>0, <1>1, <1>2, <1>3 DEF Done, IsDone, Outcomes
<1>5. Failed' = (IF o = "value" THEN Failed ELSE Failed \cup {t})
  BY <1>0, <1>1, <1>2, <1>3 DEF Failed, Outcomes
<1>6. SpentAtTheCall' <=> SpentAtTheCall
  <2>1. \A u \in ready : task'[u] = task[u]
    BY <1>1, <1>3, <1>4 DEF Done
  <2> QED
    BY <1>0, <2>1, SameSpent
<1>7. first' \in Nat /\ ready' \subseteq Done'
  BY <1>0, <1>1, <1>4
<1>8. Ledger'
  BY <1>0, <1>1, <1>5 DEF Inv, Ledger
<1>9. Before'
  BY <1>0 DEF Before
<1> QED
  BY <1>0, <1>1, <1>2, <1>3, <1>4, <1>5, <1>6, <1>7, <1>8, <1>9

\* A task ends.
LEMMA FinishInv ==
  ASSUME Inv, NEW t \in Tasks, NEW o \in Outcomes, Finish(t, o)
  PROVE  Inv'
<1>0. /\ task[t] = "running" /\ parent # "start" /\ UNCHANGED <<kind, parent, cancelled, ready, thrown>>
      /\ group' = (IF kind \notin TupleKinds THEN Continuation(group, t, o) ELSE group)
      /\ first' = (IF first = 0 /\ o # "value" THEN t ELSE first)
      /\ o = "cancelled" => t \in group.asked \/ (OutsideCancel /\ t \notin Owned(kind))
      /\ kind = "wait_for" /\ t = 2 => o # "error"
      /\ task' \in [Tasks -> Outcomes \cup {"running"}] /\ task'[t] = o
      /\ \A u \in Tasks \ {t} : task'[u] = task[u]
      /\ Tasks' = Tasks /\ Total' = Total
      /\ Done' = Done \cup {t} /\ t \notin Done /\ \A u \in Tasks : IsDone(u) => IsDone(u)'
      /\ SpentAtTheCall' <=> SpentAtTheCall
      /\ first' \in Nat /\ ready' \subseteq Done' /\ Ledger' /\ Before'
      /\ t \in Nat /\ t # 0
  BY FinishTasks
<1>1. /\ group \in GroupRecord /\ Total \in Nat \ {0} /\ Tasks = 1..Total
      /\ (kind = "wait_for" => Total = 2) /\ kind \in AllKinds /\ kind \in Kinds
      /\ parent \in Ended \cup {"start", "waiting"} /\ cancelled \in BOOLEAN /\ thrown \in Nat
  BY TasksAre DEF Inv, Types
<1>2. Whole'
  BY <1>0 DEF Inv, Whole
<1>3. kind \in {"wait_for", "gather_vector"} /\ Missing => Missing'
  <2>1. ready = Tasks => FALSE
    BY <1>0 DEF Inv, Types
  <2>2. kind = "wait_for" /\ task[1] = "cancelled" => task'[1] = "cancelled"
    <3>1. 1 \in Tasks
      BY <1>1
    <3>2. task[1] = "cancelled" => t # 1
      BY <1>0
    <3> QED
      BY <1>0, <3>1, <3>2
  <2> QED
    BY <1>0, <2>1, <2>2 DEF Missing
<1>4. Defined'
  BY <1>0, <1>3 DEF Inv, Defined, Missing
<1>6. CASE kind \in TupleKinds
  <2>1. group' = group
    BY <1>0, <1>6
  <2>2. Types'
    BY <1>0, <1>1, <2>1 DEF Types
  <2>3. Counts(group)'
    BY <1>0, <2>1 DEF Inv, Counts
  <2>4. Happened(group)' <=> Happened(group)
    BY <1>0, <1>1, <2>1, SameHappened DEF Like
  <2>5. Asleep(group)' /\ Waits' /\ Forever'
    BY <1>0, <2>1, <2>4 DEF Inv, Asleep, Waits, Forever
  <2>6. Seen'
    BY <1>0, <1>6 DEF Seen
  <2>7. Structured'
    BY <1>0, <2>1 DEF Inv, Structured
  <2>8. Winner' /\ Stops(group)'
    BY <1>0, <2>1 DEF Inv, Winner, Stops
  <2>9. FirstFailure'
    BY <1>0, <1>6 DEF FirstFailure, Vectors, TupleKinds
  <2>10. Sleepers(group)'
    <3> SUFFICES ASSUME kind = "wait_for" PROVE Sleepers(group)'
      BY <1>0 DEF Sleepers
    <3>1. Tasks = 1..2 /\ 1 \in Tasks /\ 2 \in Tasks /\ Owned(kind) = {2}
      BY <1>1 DEF Owned, Sleeper
    <3>2. CASE t = 1
      <4>1. task'[2] = task[2] /\ task'[1] = o
        BY <1>0, <3>1, <3>2
      <4> QED
        BY <1>0, <2>1, <3>2, <4>1 DEF Inv, Sleepers
    <3>3. CASE t = 2
      <4>1. task'[1] = task[1] /\ task'[2] = o
        BY <1>0, <3>1, <3>3
      <4>2. 2 \notin group.joined
        BY <1>0, <3>3 DEF Inv, Counts
      <4> QED
        BY <1>0, <2>1, <3>1, <3>3, <4>1, <4>2 DEF Inv, Sleepers
    <3> QED
      BY <1>1, <3>1, <3>2, <3>3
  <2> QED
    BY <1>0, <1>2, <1>4, <2>2, <2>3, <2>5, <2>6, <2>7, <2>8, <2>9, <2>10 DEF Inv
<1>7. CASE kind \notin TupleKinds
  <2>0. Continued(group, t, o, group')
    BY <1>0, <1>1, <1>7, ContinuationEffect
  <2>1. group' \in GroupRecord /\ group'.count = group.count + 1
        /\ group'.joined = group.joined \cup {t} /\ group'.error = ErrorAfter(group, t, o)
        /\ Woken(group, group')
    BY <2>0 DEF Continued
  <2>2. Types'
    BY <1>0, <1>1, <2>1 DEF Types
  <2>3. Counts(group)' /\ Seen'
    <3>1. group.joined = Done /\ group.count = Cardinality(group.joined)
      BY <1>0, <1>7 DEF Inv, Seen, Counts
    <3>2. IsFiniteSet(group.joined) /\ t \notin group.joined
      BY <1>0, <1>1, <3>1, DoneFinite
    <3>3. Cardinality(group.joined \cup {t}) = Cardinality(group.joined) + 1
      BY <3>2, FS_AddElement
    <3> QED
      BY <1>0, <2>1, <3>1, <3>3 DEF Counts, Seen
  <2>4. Asleep(group)' /\ Waits' /\ Forever'
    <3>1. group'.wake = "pending" => group.wake = "pending" /\ (group'.once <=> group.once)
      BY <2>1 DEF Woken
    <3>2. group.once => group'.wake = group.wake
      BY <2>1 DEF Woken
    <3>3. (group'.wake = "idle" <=> group.wake = "idle")
      BY <2>1 DEF Woken
    <3>4. Waits'
      BY <1>0, <3>3 DEF Inv, Waits
    <3>5. Forever'
      BY <1>0, <3>2 DEF Inv, Forever, Asleep
    <3>6. ASSUME group'.wake = "pending", ~SpentAtTheCall PROVE ~Happened(group)'
      <4>1. ~group.once /\ ~group'.once /\ ~Happened(group)
        BY <3>1, <3>6 DEF Inv, Asleep
      <4>2. group'.count # Total /\ kind # "wait_first" /\ ~Raises(group, o)
        BY <2>0, <4>1 DEF Continued
      <4>3. kind \in Errors => group.error = 0
        BY <4>1 DEF Happened, Finished, Errors
      <4>4. kind \in Errors => o = "value"
        BY <4>2, <4>3 DEF Raises
      <4>5. kind \in Errors => group'.error = 0
        BY <2>1, <4>3, <4>4 DEF ErrorAfter
      <4> QED
        BY <1>0, <1>7, <4>2, <4>5 DEF Happened, Finished, Errors, TupleKinds
    <3>7. Asleep(group)'
      BY <1>0, <3>1, <3>6 DEF Inv, Asleep
    <3> QED
      BY <3>4, <3>5, <3>7
  <2>6. Structured' /\ Winner' /\ Sleepers(group)' /\ Stops(group)'
    BY <1>0, <1>7 DEF Structured, Winner, Sleepers, Stops, Gathers, Races, TupleKinds
  <2>7. FirstFailure'
    <3> SUFFICES ASSUME kind \in Vectors PROVE FirstFailure'
      BY <1>0 DEF FirstFailure
    <3>1. group.error = first /\ (thrown # 0 => thrown = first) /\ kind \in Errors
      BY <1>0 DEF Inv, FirstFailure, Vectors, Errors
    <3>2. group'.error = first'
      BY <1>0, <2>1, <3>1 DEF ErrorAfter
    <3>3. first # 0 => first' = first
      BY <1>0
    <3> QED
      BY <1>0, <3>1, <3>2, <3>3 DEF FirstFailure
  <2> QED
    BY <1>0, <1>2, <1>4, <2>2, <2>3, <2>4, <2>6, <2>7 DEF Inv
<1> QED
  BY <1>6, <1>7

\* A wait_task coroutine resumes.
LEMMA JoinsInv ==
  ASSUME Inv, NEW t \in Tasks, Joins(t)
  PROVE  Inv'
<1>0. /\ kind \in TupleKinds /\ parent # "start" /\ IsDone(t) /\ t \notin group.joined
      /\ group' = Join(group, t)
      /\ UNCHANGED <<kind, task, parent, cancelled, ready, first, thrown>>
  BY DEF Joins
<1>1. /\ group \in GroupRecord /\ Total \in Nat \ {0} /\ Tasks = 1..Total /\ t \in Nat
      /\ Tasks \subseteq Nat /\ (kind = "wait_for" => Total = 2)
      /\ kind \in AllKinds /\ kind \in Kinds
      /\ (kind \in Races /\ group.cancelOnce => group.once)
  BY TasksAre DEF Inv, Types, Stops
<1>2. Joined(group, t, group')
  BY <1>0, <1>1, JoinEffect
<1>3. group' \in GroupRecord /\ group'.count = group.count + 1
      /\ group'.joined = group.joined \cup {t} /\ group'.error = group.error
      /\ group'.once = TRUE /\ Woken(group, group')
  BY <1>2 DEF Joined
<1>4. kind \in Races =>
        /\ group'.cancelOnce = TRUE
        /\ group'.asked = IF group.cancelOnce THEN group.asked
                          ELSE group.asked \cup (Tasks \ {t})
  BY <1>2 DEF Joined
<1>5. Tasks' = Tasks /\ Done' = Done /\ Failed' = Failed /\ \A u : IsDone(u)' <=> IsDone(u)
  BY <1>0, SameDone
<1>12. SpentAtTheCall' <=> SpentAtTheCall
  BY <1>0, SameSpent
<1>6. Types' /\ Before' /\ Ledger' /\ Seen'
  BY <1>0, <1>3, <1>5 DEF Inv, Types, Before, Ledger, Seen
<1>13. Asleep(group)' /\ Waits' /\ Forever'
  <2>1. group'.wake = "pending" => group.wake = "pending" /\ group.once
    BY <1>3 DEF Woken
  <2>2. group.once => group'.wake = group.wake
    BY <1>3 DEF Woken
  <2>3. (group'.wake = "idle" <=> group.wake = "idle")
    BY <1>3 DEF Woken
  <2>4. group'.wake = "pending" => ~cancelled /\ SpentAtTheCall
    BY <2>1 DEF Inv, Asleep
  <2>5. Asleep(group)'
    BY <1>0, <1>3, <1>12, <2>4 DEF Asleep
  <2>6. Forever'
    BY <1>0, <1>12, <2>2 DEF Inv, Forever, Asleep
  <2> QED
    BY <1>0, <2>3, <2>5, <2>6 DEF Inv, Waits
<1>7. Counts(group)'
  <2>1. group.joined \subseteq Done /\ group.count = Cardinality(group.joined) /\ t \in Done
    BY <1>0 DEF Inv, Counts, Done
  <2>2. IsFiniteSet(group.joined)
    BY <1>1, <2>1, DoneFinite
  <2>3. Cardinality(group.joined \cup {t}) = Cardinality(group.joined) + 1
    BY <1>0, <2>2, FS_AddElement
  <2> QED
    BY <1>3, <1>5, <2>1, <2>3 DEF Counts
<1>8. Structured'
  <2>1. group'.joined \subseteq Tasks
    BY <1>3 DEF Inv, Counts, Done
  <2> QED
    BY <1>0, <1>3, <1>5, <2>1 DEF Inv, Structured
<1>9. Winner' /\ Stops(group)'
  <2> SUFFICES ASSUME kind \in Races PROVE Winner' /\ Stops(group)'
    BY <1>0 DEF Winner, Stops
  <2>1. \A u \in Tasks : IsDone(u) \/ u \in group'.asked
    <3>1. CASE group.cancelOnce
      BY <1>4, <3>1 DEF Inv, Stops
    <3>2. CASE ~group.cancelOnce
      BY <1>0, <1>4, <3>2
    <3> QED
      BY <3>1, <3>2
  <2> QED
    BY <1>3, <1>4, <1>5, <2>1 DEF Winner, Stops
<1>10. FirstFailure' /\ Defined' /\ Whole'
  BY <1>0, <1>5 DEF Inv, FirstFailure, Defined, Missing, Whole, Vectors, TupleKinds
<1>11. Sleepers(group)'
  <2> SUFFICES ASSUME kind = "wait_for" PROVE Sleepers(group)'
    BY <1>0 DEF Sleepers
  <2>1. /\ task[2] # "error" /\ (task[2] = "cancelled" => 2 \in group.asked)
        /\ task[1] = "cancelled" => OutsideCancel \/ 1 \in group.asked
        /\ 2 \in group.asked => 1 \in group.joined
        /\ 1 \in group.asked => 2 \in group.joined /\ task[2] = "value"
        /\ ~group.cancelOnce => group.asked = {}
    BY DEF Inv, Sleepers
  <2>2. kind \in Races
    BY DEF Races
  <2>3. CASE group.cancelOnce
    BY <1>0, <1>3, <1>4, <2>1, <2>2, <2>3 DEF Sleepers
  <2>4. CASE ~group.cancelOnce
    <3>1. group'.asked = Tasks \ {t} /\ group'.cancelOnce = TRUE /\ Tasks = 1..2
      BY <1>1, <1>4, <2>1, <2>2, <2>4
    <3>2. CASE t = 1
      BY <1>0, <1>3, <2>1, <2>4, <3>1, <3>2 DEF Sleepers
    <3>3. CASE t = 2
      <4>1. task[2] = "value"
        BY <1>0, <2>1, <2>4, <3>1, <3>3 DEF IsDone, Inv, Types, Outcomes
      <4> QED
        BY <1>0, <1>3, <2>1, <2>4, <3>1, <3>3, <4>1 DEF Sleepers
    <3> QED
      BY <3>1, <3>2, <3>3
  <2> QED
    BY <2>3, <2>4
<1> QED
  BY <1>6, <1>7, <1>8, <1>9, <1>10, <1>11, <1>13 DEF Inv

LEMMA StutterInv ==
  ASSUME Inv, UNCHANGED vars
  PROVE  Inv'
<1>0. UNCHANGED <<kind, task, group, parent, cancelled, ready, first, thrown>>
  BY DEF vars
<1>1. Tasks' = Tasks /\ Done' = Done /\ Failed' = Failed /\ \A t : IsDone(t)' <=> IsDone(t)
  BY <1>0, SameDone
<1>2. /\ Types' /\ Counts(group)' /\ Before' /\ Ledger' /\ Seen' /\ Waits' /\ Structured'
      /\ Forever'
  BY <1>0, <1>1, SameSpent DEF Inv, Types, Counts, Before, Ledger, Seen, Waits, Structured, Forever
<1>3. Asleep(group)'
  <2>1. Like(group, group')
    BY <1>0 DEF Inv, Types, Like
  <2> QED
    BY <1>0, <2>1, SameSpent, SameHappened DEF Inv, Asleep
<1>4. Winner' /\ Stops(group)' /\ FirstFailure' /\ Sleepers(group)' /\ Defined' /\ Whole'
  BY <1>0, <1>1 DEF Inv, Winner, Stops, FirstFailure, Sleepers, Defined, Missing, Whole
<1> QED
  BY <1>2, <1>3, <1>4 DEF Inv

-----------------------------------------------------------------------------
LEMMA NextInv ==
  ASSUME Inv, [Next]_vars
  PROVE  Inv'
BY CallInv, WakesInv, CancelParentInv, JoinsInv, FinishInv, StutterInv DEF Next, Quiescent

\* The invariant of a group of tasks.
THEOREM GroupInvariant == Spec => []Inv
<1>1. Inv /\ [Next]_vars => Inv'
  BY NextInv
<1> QED
  BY InitInv, <1>1, PTL DEF Spec

\* When the wake_once / expires_at protocol loses a wake-up, and that it loses no other:
\* if wake_once was used up inside the call the parent sleeps until it is cancelled, and
\* otherwise it is never asleep once what it waits for has happened, however many tasks
\* end while it is being resumed.
THEOREM WakeUpLostExactly == Spec => []WakeUpLostExactlyWhenSpent
<1>1. Inv => WakeUpLostExactlyWhenSpent
  BY DEF Inv, Asleep, Forever, WakeUpLostExactlyWhenSpent
<1> QED
  BY <1>1, GroupInvariant, PTL

\* A tuple gather leaves no task behind, and a race none that was not asked to stop,
\* unless the caller was cancelled.
THEOREM NoTaskIsLeftBehind == Spec => []NobodyLeftBehind
<1>1. Inv => NobodyLeftBehind
  <2> SUFFICES ASSUME Inv, parent \in Ended, ~cancelled, NEW t \in Tasks
               PROVE  /\ kind \in {"gather", "gather_outcomes"} => IsDone(t) /\ t \in group.joined
                      /\ kind \in {"race", "wait_for"} => IsDone(t) \/ t \in group.asked
    BY DEF NobodyLeftBehind
  <2>1. kind \in Gathers => IsDone(t) /\ t \in group.joined
    BY DEF Inv, Structured, Counts, Done
  <2>2. kind \in Races => IsDone(t) \/ t \in group.asked
    BY DEF Inv, Winner, Stops
  <2> QED
    BY <2>1, <2>2 DEF Gathers, Races
<1> QED
  BY <1>1, GroupInvariant, PTL

\* The vector forms of gather rethrow the exception that came first, a gather returns only
\* if all its tasks have values, and an empty optional is dereferenced only by a wait_for
\* whose task or caller was cancelled and by a gather(vector<awaitable>) whose awaitables
\* all ended inside the call, one of them by an exception.
THEOREM EachOutcomeIsRight == Spec => []OutcomeIsRight
<1>1. Inv => OutcomeIsRight
  BY DEF Inv, FirstFailure, Whole, Defined, Missing, OutcomeIsRight, Vectors
<1> QED
  BY <1>1, GroupInvariant, PTL
=============================================================================
