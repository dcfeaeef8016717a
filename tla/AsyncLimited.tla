---------------------------- MODULE AsyncLimited ----------------------------
(***************************************************************************)
(* gather_limited and for_each_limited of include/asyncx/asyncx.hpp: a map *)
(* over the indices 0..total-1 that keeps a window of them running.        *)
(*                                                                         *)
(* gather_limited spawns a coroutine per index; one that ends well launches*)
(* the next index through a weak pointer to launch_one, which the calling  *)
(* coroutine owns.  for_each_limited spawns its workers once, and each     *)
(* loops over indices; the workers own what they use.  Everything runs on  *)
(* the executor of the caller, so a step is what one coroutine does between*)
(* two suspensions.  co_spawn dispatches: a coroutine spawned on the running*)
(* executor runs at once, up to its first suspension or to its end, inside *)
(* the loop of the caller that spawns it and before the caller waits.      *)
(***************************************************************************)
EXTENDS Integers, FiniteSets

CONSTANTS
  MaxTotal,         \* bound on total
  MaxWindow,        \* bound on concurrency
  Kinds,            \* which of the two functions is called
  MayCancelParent   \* the coroutine that called may be cancelled

ASSUME LimitedAssumption ==
  /\ MaxTotal \in Nat /\ MaxWindow \in Nat
  /\ Kinds \subseteq {"gather_limited", "for_each_limited"}
  /\ MayCancelParent \in BOOLEAN

VARIABLES
  kind,
  total,       \* the arguments
  concurrency,
  toLaunch,    \* launches the loop of the caller still has to make
  inline,      \* the index that runs inside that loop, or NoItem
  next,        \* group->next
  completed,   \* group->completed
  stop,        \* group->stop
  error,       \* first_error is set
  once,        \* wake_once
  wake,        \* the wait on group->wake: "idle", "pending" or "fired"
  item,        \* each index: "todo", "running", "value" or "error"
  parent,      \* where the calling coroutine is, or how it ended
  cancelled,   \* the calling coroutine was cancelled
  spent        \* history: the map had failed or was over when its caller
               \* came out of the loop, so wake_once was used up

args == <<kind, total, concurrency>>
vars == <<args, toLaunch, inline, next, completed, stop, error, once, wake, item,
          parent, cancelled, spent>>

Indices == 0..(MaxTotal - 1)
NoItem == -1
Ended == {"returned", "threw"}

\* concurrency == 0 becomes 1, and never more than total.
Window ==
  LET c == IF concurrency = 0 THEN 1 ELSE concurrency
  IN IF c > total THEN total ELSE c

Init ==
  /\ kind \in Kinds
  /\ total \in 0..MaxTotal /\ concurrency \in 0..MaxWindow
  /\ toLaunch = 0 /\ inline = NoItem /\ next = 0 /\ completed = 0
  /\ stop = FALSE /\ error = FALSE /\ once = FALSE
  /\ wake = "idle"
  /\ item = [i \in Indices |-> "todo"]
  /\ parent = "start"
  /\ cancelled = FALSE /\ spent = FALSE

Running == {i \in Indices : item[i] = "running"}

\* The call: total = 0 returns at once, otherwise the loop launches a window.
Call ==
  /\ parent = "start"
  /\ IF total = 0
       THEN parent' = "returned" /\ UNCHANGED toLaunch
       ELSE parent' = "launching" /\ toLaunch' = Window
  /\ UNCHANGED <<args, inline, next, completed, stop, error, once, wake, item, cancelled, spent>>

\* Mutants of Launch: stop is not looked at, and two indices are taken at once.
LaunchPastStop(it, halt, alive) ==
  /\ next' = next + 1
  /\ item' = IF next < total THEN [it EXCEPT ![next] = "running"] ELSE it
  /\ inline' = IF next < total /\ parent = "launching" THEN next ELSE NoItem
LaunchTwo(it, halt, alive) ==
  IF halt \/ ~alive THEN item' = it /\ inline' = NoItem /\ UNCHANGED next
  ELSE /\ next' = next + 2
       /\ item' = [i \in Indices |->
                     IF i \in {next, next + 1} /\ i < total THEN "running" ELSE it[i]]
       /\ inline' = IF next < total /\ parent = "launching" THEN next ELSE NoItem

\* Take the next index, unless stop is set or launch_one is gone; its coroutine
\* runs at once.  (Once the caller waits, running at once is one of the orders
\* in which the items may run anyway, and inline is not needed.)
Launch(it, halt, alive) ==
  IF halt \/ ~alive THEN item' = it /\ inline' = NoItem /\ UNCHANGED next
  ELSE /\ next' = next + 1
       /\ item' = IF next < total THEN [it EXCEPT ![next] = "running"] ELSE it
       /\ inline' = IF next < total /\ parent = "launching" THEN next ELSE NoItem

\* One turn of the loop: gather_limited calls launch_one, for_each_limited
\* spawns a worker, which takes its first index.
ParentLaunches ==
  /\ parent = "launching" /\ toLaunch > 0 /\ inline = NoItem
  /\ toLaunch' = toLaunch - 1
  /\ Launch(item, stop, TRUE)
  /\ UNCHANGED <<args, completed, stop, error, once, wake, parent, cancelled, spent>>

\* What runs inside the loop suspends, and the loop goes on.
Suspends ==
  /\ inline # NoItem
  /\ inline' = NoItem
  /\ UNCHANGED <<args, toLaunch, next, completed, stop, error, once, wake, item, parent,
                 cancelled, spent>>

\* The loop is over.  gather_limited waits without a look at what the items did;
\* for_each_limited only looks at completed, and returns without a look at
\* first_error.
ParentWaits ==
  /\ parent = "launching" /\ toLaunch = 0 /\ inline = NoItem
  /\ spent' = (error \/ completed = total)
  /\ IF kind = "for_each_limited" /\ completed = total
       THEN parent' = "returned" /\ UNCHANGED wake
       ELSE parent' = "waiting" /\ wake' = "pending"
  /\ UNCHANGED <<args, toLaunch, inline, next, completed, stop, error, once, item, cancelled>>

\* Mutant of Wake: the last item does not wake the parent.
WakeOnError(bad) ==
  /\ once' = (once \/ (bad /\ ~error))
  /\ wake' = IF bad /\ ~error /\ ~once /\ wake = "pending" THEN "fired" ELSE wake

\* The item ends: an error stops the map, and it, or the last item, wakes the
\* parent if nobody has.
Wake(bad) ==
  LET first == bad /\ ~error
      last  == completed + 1 = total
      fire  == (first \/ last) /\ ~once
  IN /\ once' = (once \/ first \/ last)
     /\ wake' = IF fire /\ wake = "pending" THEN "fired" ELSE wake

\* The coroutine of index i ends with a value, or throws.  A worker of
\* for_each_limited goes on to the next index either way.  Before the caller
\* waits only what runs inside its loop can end.  (gather_limited launches the
\* next index before it counts this one: nothing else runs in between, except
\* what that launch runs at once, which counts itself first.)
EndItem(i, bad) ==
  /\ item[i] = "running"
  /\ parent = "launching" => inline = i
  /\ error' = (error \/ bad)
  /\ stop' = (stop \/ bad)
  /\ completed' = completed + 1
  /\ Wake(bad)
  /\ Launch([item EXCEPT ![i] = IF bad THEN "error" ELSE "value"],
            stop \/ bad,
            kind = "for_each_limited" \/ parent \notin Ended)
  /\ UNCHANGED <<args, toLaunch, parent, cancelled, spent>>

\* The parent runs after its wait: rethrow, return, or sleep again, where a
\* cancelled coroutine throws.
Wakes ==
  /\ parent = "waiting" /\ wake = "fired"
  /\ IF error \/ completed >= total \/ cancelled
       THEN /\ parent' = IF ~error /\ completed >= total THEN "returned" ELSE "threw"
            /\ wake' = "idle"
            /\ UNCHANGED once
       ELSE /\ wake' = "pending"
            /\ once' = IF stop /\ kind = "gather_limited" THEN once ELSE FALSE
            /\ UNCHANGED parent
  /\ UNCHANGED <<args, toLaunch, inline, next, completed, stop, error, item, cancelled, spent>>

CancelParent ==
  /\ MayCancelParent /\ ~cancelled /\ parent = "waiting"
  /\ cancelled' = TRUE
  /\ wake' = "fired"
  /\ UNCHANGED <<args, toLaunch, inline, next, completed, stop, error, once, item, parent, spent>>

\* The call is over and so are its items, or the caller sleeps on for ever.
Quiescent ==
  /\ parent \in Ended \/ (spent /\ wake = "pending")
  /\ Running = {}
  /\ UNCHANGED vars

Next ==
  \/ Call \/ ParentLaunches \/ Suspends \/ ParentWaits \/ Wakes \/ CancelParent
  \/ \E i \in Indices, bad \in BOOLEAN : EndItem(i, bad)
  \/ Quiescent

Spec == Init /\ [][Next]_vars

\* The executor keeps running handlers, and every item ends.
FairSpec ==
  /\ Spec
  /\ WF_vars(Call) /\ WF_vars(ParentLaunches) /\ WF_vars(ParentWaits) /\ WF_vars(Wakes)
  /\ WF_vars(Suspends)
  /\ \A i \in Indices : WF_vars(\E bad \in BOOLEAN : EndItem(i, bad))

-----------------------------------------------------------------------------
(* Properties.                                                              *)

\* README: gather_limited keeps a window of concurrency, and refills it as
\* soon as an item is done.  While nothing has failed the number of running
\* items is exactly the smaller of the window (less what the loop has not
\* launched yet) and of what is left to do; a map that returns has run every
\* index to its value, except that for_each_limited does not look at first_error
\* before its first wait and swallows the error of a last index that throws
\* before the loop is over.
WindowIsKeptFull ==
  LET width == Window - toLaunch
  IN  /\ parent \in {"launching", "waiting"} /\ ~stop
           => Cardinality(Running) =
                IF total - completed < width THEN total - completed ELSE width
      /\ parent = "returned" =>
           \A i \in 0..(total - 1) :
              \/ item[i] = "value"
              \/ kind = "for_each_limited" /\ spent /\ i = total - 1

\* Once an item has failed no further index starts, in either map; nor does one once
\* gather_limited has ended, which takes launch_one along.  (The workers of
\* for_each_limited go on when their caller is cancelled.)
NothingStartsAfterTheEnd ==
  [][stop \/ (kind = "gather_limited" /\ parent \in Ended)
       => \A i \in Indices : item[i] = "todo" => item'[i] = "todo"]_vars

\* A caller whose wake-up was used up before it slept sleeps until it is cancelled.
SpentCallSleeps == spent /\ parent = "waiting" /\ ~cancelled => wake = "pending"

\* The call ends, whichever of the last item and the first error comes first,
\* unless the map failed or was over before its caller waited: wake_once is then
\* used up on a timer nobody waits on, the caller sleeps on (asyncx.hpp:1373,
\* 1491), and only a cancellation of the caller ends the call.
CallEnds ==
  /\ <>(parent \in Ended \/ spent)
  /\ cancelled ~> parent \in Ended
  /\ []SpentCallSleeps
=============================================================================
