----------------------------- MODULE AsyncGroup -----------------------------
(***************************************************************************)
(* The combinators of include/asyncx/asyncx.hpp that wait for a group of   *)
(* tasks: gather (tuple, return_exceptions, vector of Task, vector of      *)
(* awaitable), wait, as_completed, one_of, race and wait_for.              *)
(*                                                                         *)
(* They share one protocol.  The coroutine that called the combinator (the *)
(* parent) sleeps on the timer group->wake; whoever finishes cancels that  *)
(* timer, but only if it is the first to set wake_once; the parent clears  *)
(* wake_once before it sleeps again.  They differ in who runs the code at  *)
(* the end of a task and in what the parent does when it wakes:            *)
(*   - tuple kinds spawn one wait_task coroutine per task;                 *)
(*   - vector-of-Task kinds register a continuation with add_completion,   *)
(*     which is called on the spot when the task is already done;          *)
(*   - gather_vector runs the awaitables in coroutines of its own.         *)
(* asio::co_spawn dispatches: on the running executor the new coroutine    *)
(* runs at once, up to its first suspension.  So what is done already, or  *)
(* ends without suspending, acts on the group before the parent sleeps.    *)
(*                                                                         *)
(* All of them run on the executor of the parent, one thread, so a step is *)
(* what one coroutine does between two suspensions.  AsyncTask looks at    *)
(* the same timers across two threads.                                     *)
(***************************************************************************)
EXTENDS Integers, FiniteSets

CONSTANTS
  N,                \* how many tasks are given (wait_for always has two)
  Kinds,            \* the combinators that may be called
  OutsideCancel,    \* someone else may cancel a task of the group
  MayCancelParent   \* the coroutine that called may be cancelled

TupleKinds == {"gather", "gather_outcomes", "one_of", "race", "wait_for"}
TaskKinds == {"gather_tasks", "wait_all", "wait_first", "wait_exception",
              "as_completed"}
AllKinds == TupleKinds \cup TaskKinds \cup {"gather_vector"}

ASSUME GroupAssumption ==
  /\ N \in Nat \ {0}
  /\ Kinds \subseteq AllKinds
  /\ "wait_for" \in Kinds => N >= 2
  /\ OutsideCancel \in BOOLEAN /\ MayCancelParent \in BOOLEAN

Outcomes == {"value", "error", "cancelled"}

\* wait_for(t, timeout) is race(t, sleep(timeout)).
Sleeper == 2

VARIABLES
  kind,      \* the combinator
  task,      \* TaskState of each task: "running" or its outcome
  group,     \* GroupState / VectorGroupState: done_count, wake_once, cancel_once, the
             \* task that set first_error, the wake timer ("idle", "pending", "fired"),
             \* the tasks cancel() was called on, the tasks whose end was seen
  parent,    \* where the calling coroutine is, or how it ended
  cancelled, \* the calling coroutine was cancelled
  ready,     \* history: the tasks that were done before the parent could sleep
  first,     \* history: the task that failed first (those of ready in their order), or 0
  thrown     \* the task whose exception the combinator rethrew, or 0

vars == <<kind, task, group, parent, cancelled, ready, first, thrown>>

Given(k) == IF k = "wait_for" THEN 1..2 ELSE 1..N
Tasks == Given(kind)
Total == Cardinality(Tasks)

Ended == {"returned", "threw", "timeout", "undefined"}

\* Nobody outside has a handle on these: the awaitables of gather_vector, which
\* are not tasks, and the sleep of wait_for.
Owned(k) == IF k = "gather_vector" THEN 1..N ELSE IF k = "wait_for" THEN {Sleeper} ELSE {}

Least(S) == IF S = {} THEN 0 ELSE CHOOSE t \in S : \A u \in S : t <= u

\* Tasks may be done when the combinator is called; a cold awaitable may end
\* inside the call, when it is spawned.  Only a sleep always suspends.
Init ==
  /\ kind \in Kinds
  /\ task \in [Given(kind) -> Outcomes \cup {"running"}]
  /\ \A t \in Given(kind) : task[t] = "cancelled" => OutsideCancel /\ t \notin Owned(kind)
  /\ kind = "wait_for" => task[Sleeper] = "running"
  /\ group = [count |-> 0, once |-> FALSE, cancelOnce |-> FALSE, error |-> 0,
              wake |-> "idle", asked |-> {}, joined |-> {}]
  /\ parent = "start"
  /\ cancelled = FALSE
  /\ ready = {t \in Given(kind) : task[t] # "running"}
  /\ first = Least({t \in Given(kind) : task[t] \in {"error", "cancelled"}})
  /\ thrown = 0

IsDone(t) == task[t] # "running"

-----------------------------------------------------------------------------
(* What the end of a task does to the group.                                *)

\* if (!wake_once.exchange(true)) wake->cancel(), and cancel() finds a wait
\* to complete only when the parent is asleep.
WakeOnce(g) ==
  IF g.once THEN g
  ELSE [g EXCEPT !.once = TRUE,
                 !.wake = IF g.wake = "pending" THEN "fired" ELSE g.wake]

\* Mutant of CountDone: the last task does not wake the parent.
CountDoneSilently(g, t) == [g EXCEPT !.count = g.count + 1, !.joined = g.joined \cup {t}]

\* if (done_count.fetch_add(1) + 1 == total) wake
CountDone(g, t) ==
  LET h == [g EXCEPT !.count = g.count + 1, !.joined = g.joined \cup {t}]
  IN IF h.count = Total THEN WakeOnce(h) ELSE h

\* Mutant of FirstError: a later error replaces the first.
FirstErrorOverwritten(g, t) == WakeOnce([g EXCEPT !.error = t])

\* if (!first_error) { first_error = error; wake }
FirstError(g, t) ==
  IF g.error = 0 THEN WakeOnce([g EXCEPT !.error = t]) ELSE g

\* The continuation of gather(vector<Task>), wait and as_completed, and the
\* end of run_vector_gather_item, which wakes for every error.
Continuation(g, t, outcome) ==
  LET bad == outcome # "value"
      h == IF ~bad THEN g
           ELSE IF kind \in {"gather_tasks", "wait_exception"} THEN FirstError(g, t)
           ELSE IF kind = "gather_vector" THEN WakeOnce(FirstError(g, t))
           ELSE g
  IN IF kind = "wait_first" THEN WakeOnce(CountDone(h, t)) ELSE CountDone(h, t)

\* on_done of race: the first to come cancels all the others.
RaceDone(g, t) ==
  IF g.cancelOnce THEN g
  ELSE WakeOnce([g EXCEPT !.cancelOnce = TRUE, !.asked = g.asked \cup (Tasks \ {t})])

\* wait_task once task.await() has come back: on_done, then done_count.
Join(g, t) ==
  CountDone(IF kind \in {"race", "wait_for"} THEN RaceDone(g, t) ELSE WakeOnce(g), t)

-----------------------------------------------------------------------------
(* The parent.                                                              *)

\* Mutant of Finished: gather leaves its loop one task too early.
FinishedOneEarly(g) ==
  CASE kind = "wait_first" -> g.count > 0
    [] kind = "wait_exception" -> g.count = Total \/ g.error # 0
    [] kind \in {"gather", "gather_outcomes"} -> g.count >= Total - 1
    [] OTHER -> g.count = Total

\* The condition under which the parent leaves its loop.
Finished(g) ==
  CASE kind = "wait_first" -> g.count > 0
    [] kind = "wait_exception" -> g.count = Total \/ g.error # 0
    [] OTHER -> g.count = Total

\* first_error over the WaitStates: the lowest index, not the earliest.
JoinedErrors(g) ==
  {t \in g.joined :
     \/ task[t] = "error"
     \/ task[t] = "cancelled" /\ kind \notin {"race", "wait_for"}}
JoinedValues(g) == {t \in g.joined : task[t] = "value"}
LowestError(g) == Least(JoinedErrors(g))

\* Mutant of Sleep: wake_once is not cleared before the parent sleeps.
SleepLatched(g) == [g EXCEPT !.wake = "pending"]

\* wake_once.store(false), expires_at(max), and round the loop to async_wait.
Sleep(g) == [g EXCEPT !.once = FALSE, !.wake = "pending"]

Throw(g, t) ==
  /\ parent' = "threw" /\ thrown' = t
  /\ group' = [g EXCEPT !.wake = "idle"]

Return(g) ==
  /\ parent' = "returned" /\ thrown' = 0
  /\ group' = [g EXCEPT !.wake = "idle"]

\* The parent sleeps again.  A cancelled coroutine throws at the co_await.
SleepAgain(g) ==
  IF cancelled THEN Throw(g, 0)
  ELSE /\ parent' = "waiting"
       /\ group' = Sleep(g)
       /\ UNCHANGED thrown

\* What gather (tuple) does once all its tasks are joined.
GatherResult(g) ==
  IF LowestError(g) # 0 THEN Throw(g, LowestError(g)) ELSE Return(g)

\* The results of one_of, race and wait_for are whatever has been joined by
\* the time the parent runs.
SnapshotResult(g) ==
  IF LowestError(g) # 0 /\ JoinedValues(g) = {} THEN Throw(g, LowestError(g))
  ELSE IF kind # "wait_for" THEN Return(g)
  ELSE /\ group' = [g EXCEPT !.wake = "idle"]
       /\ thrown' = 0
       /\ parent' = IF Sleeper \in JoinedValues(g) THEN "timeout"
                    ELSE IF JoinedValues(g) # {} THEN "returned" ELSE "undefined"

Result(g) ==
  CASE kind = "gather" -> GatherResult(g)
    [] kind \in {"one_of", "race", "wait_for"} -> SnapshotResult(g)
    [] kind = "gather_tasks" /\ g.error # 0 -> Throw(g, LowestError(g))
    [] kind = "gather_vector" /\ g.error # 0 ->
         /\ parent' = "undefined" /\ thrown' = 0
         /\ group' = [g EXCEPT !.wake = "idle"]
    [] OTHER -> Return(g)

\* Spawning and registering: what is done acts on the group at once, as a
\* continuation called on the spot or as a coroutine that co_spawn runs inline.
RegisterOne(g, i) ==
  IF ~IsDone(i) THEN g
  ELSE IF kind \in TupleKinds THEN Join(g, i) ELSE Continuation(g, i, task[i])

\* In the order of the tasks.
Registering[i \in 0..Total] ==
  IF i = 0 THEN group ELSE RegisterOne(Registering[i - 1], i)
Registered == Registering[Total]

Call ==
  /\ parent = "start"
  /\ LET g == Registered
     IN IF Finished(g) /\ kind \notin {"one_of", "race", "wait_for"}
          THEN Result(g)
          ELSE /\ parent' = "waiting"
               /\ group' = [g EXCEPT !.wake = "pending"]
               /\ UNCHANGED thrown
  /\ UNCHANGED <<kind, task, cancelled, ready, first>>

\* cancel_once: only the first error cancels the tasks of a tuple gather.
GatherCancel(g) ==
  IF kind = "gather" /\ LowestError(g) # 0 /\ ~g.cancelOnce
  THEN [g EXCEPT !.cancelOnce = TRUE, !.asked = Tasks] ELSE g

\* The parent runs again after its wait on group->wake.
Wakes ==
  /\ parent = "waiting" /\ group.wake = "fired"
  /\ LET g == GatherCancel(group)
     IN IF kind \in {"gather_tasks", "gather_vector"} /\ g.error # 0 THEN Throw(g, g.error)
        ELSE IF kind \in {"one_of", "race", "wait_for"} \/ Finished(g) THEN Result(g)
        ELSE SleepAgain(g)
  /\ UNCHANGED <<kind, task, cancelled, ready, first>>

-----------------------------------------------------------------------------
(* The tasks.                                                               *)

\* A task ends.  Continuations, and the items of gather_vector, act on the
\* group in the same step; a wait_task coroutine is only made runnable.
Finish(t, outcome) ==
  /\ task[t] = "running" /\ parent # "start"
  /\ outcome = "cancelled" => t \in group.asked \/ (OutsideCancel /\ t \notin Owned(kind))
  /\ kind = "wait_for" /\ t = Sleeper => outcome # "error"
  /\ task' = [task EXCEPT ![t] = outcome]
  /\ first' = IF first = 0 /\ outcome # "value" THEN t ELSE first
  /\ group' = IF kind \notin TupleKinds
                THEN Continuation(group, t, outcome) ELSE group
  /\ UNCHANGED <<kind, parent, cancelled, ready, thrown>>

\* The wait_task coroutine of t resumes, whether or not the parent is still
\* there.
Joins(t) ==
  /\ kind \in TupleKinds /\ parent # "start"
  /\ IsDone(t) /\ t \notin group.joined
  /\ group' = Join(group, t)
  /\ UNCHANGED <<kind, task, parent, cancelled, ready, first, thrown>>

\* Someone cancels the coroutine that called the combinator.
CancelParent ==
  /\ MayCancelParent /\ ~cancelled /\ parent = "waiting"
  /\ cancelled' = TRUE
  /\ group' = IF group.wake = "pending" THEN [group EXCEPT !.wake = "fired"] ELSE group
  /\ UNCHANGED <<kind, task, parent, ready, first, thrown>>

Quiescent ==
  /\ parent \in Ended /\ \A t \in Tasks : IsDone(t)
  /\ kind \in TupleKinds => group.joined = Tasks
  /\ UNCHANGED vars

Next ==
  \/ Call \/ Wakes \/ CancelParent
  \/ \E t \in Tasks : Joins(t) \/ \E o \in Outcomes : Finish(t, o)
  \/ Quiescent

Spec == Init /\ [][Next]_vars

\* The executor keeps running handlers, and every task ends.
FairSpec ==
  /\ Spec
  /\ WF_vars(Call) /\ WF_vars(Wakes)
  /\ \A t \in 1..N : /\ WF_vars(t \in Tasks /\ Joins(t))
                     /\ WF_vars(t \in Tasks /\ \E o \in Outcomes : Finish(t, o))

-----------------------------------------------------------------------------
(* Properties.                                                              *)

\* wake_once was used up inside the call, by a task or an awaitable that was done
\* before the parent waits; the parent waits without looking at it.  The kinds
\* that are missing leave their loop, or set nothing, in that case.
SpentAtTheCall ==
  \/ kind \in {"one_of", "race", "wait_for"} /\ ready # {}
  \/ kind \in {"gather", "gather_outcomes"} /\ ready # {} /\ ready # Tasks
  \/ /\ kind \in {"gather_tasks", "gather_vector"} /\ ready # Tasks
     /\ \E t \in ready : task[t] # "value"

\* What the parent waits for.
Happened(g) ==
  \/ Finished(g)
  \/ kind \in {"gather_tasks", "gather_vector"} /\ g.error # 0
  \/ kind \in {"one_of", "race", "wait_for"} /\ g.joined # {}

\* Exactly when the wake_once / expires_at protocol loses a wake-up.  A parent that
\* nobody cancels and that went to sleep with wake_once used up is never woken,
\* whatever its tasks do: a tuple combinator given a task that is done
\* (asyncx.hpp:763), a vector gather given one that failed (1199).  In every other
\* case the parent is not asleep once what it waits for has happened, whichever
\* task came first and however many ended while it was being resumed.
WakeUpLostExactlyWhenSpent ==
  parent = "waiting" /\ ~cancelled
    => IF SpentAtTheCall THEN group.wake = "pending"
       ELSE group.wake = "pending" => ~Happened(group)

\* Every combinator ends once its tasks have, if its wake-up was not used up
\* inside the call, or if the caller is cancelled, which is the one way out then.
CombinatorEnds == ~SpentAtTheCall \/ cancelled ~> parent \in Ended

\* A tuple gather is structured: unless it is cancelled itself it leaves no
\* task behind, whether it returns or rethrows.  README: race and wait_for
\* cancel the other tasks.  When they have ended, every task that still runs
\* has been asked to stop, unless the caller of the race was itself cancelled:
\* then they return and stop nobody.
NobodyLeftBehind ==
  parent \in Ended /\ ~cancelled
    => \A t \in Tasks :
         /\ kind \in {"gather", "gather_outcomes"} => IsDone(t) /\ t \in group.joined
         /\ kind \in {"race", "wait_for"} => IsDone(t) \/ t \in group.asked

\* README: gather propagates the first exception.  The vector forms rethrow the
\* one that came first, however many follow before the parent runs, and no gather
\* returns values when a task has failed.  An empty optional is dereferenced in two
\* cases only: by wait_for, when its task or its caller was cancelled; and by
\* gather(vector<awaitable>), whose loop is the only place that looks at
\* first_error, when all the awaitables ended inside the call and one had thrown
\* (asyncx.hpp:1257-1273).
OutcomeIsRight ==
  /\ kind \in {"gather_tasks", "gather_vector"} /\ parent = "threw" /\ thrown # 0
       => thrown = first
  /\ kind \in {"gather", "gather_tasks", "gather_vector"} /\ parent = "returned"
       => \A t \in Tasks : task[t] = "value"
  /\ parent = "undefined"
       => \/ kind = "wait_for" /\ (cancelled \/ (OutsideCancel /\ task[1] = "cancelled"))
          \/ kind = "gather_vector" /\ ready = Tasks /\ first # 0
=============================================================================
