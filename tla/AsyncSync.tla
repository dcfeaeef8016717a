----------------------------- MODULE AsyncSync ------------------------------
(***************************************************************************)
(* The synchronisation primitives of asyncx (include/asyncx/asyncx.hpp):   *)
(* Queue, Semaphore, Lock with its LockGuard, and Event.                   *)
(*                                                                         *)
(* All four wait in the same way.  A coroutine that cannot go on makes a   *)
(* timer that never expires, leaves a weak pointer to it in a list and     *)
(* waits for it; whoever changes the state cancels the first timer of the  *)
(* list that still exists (Event: all of them).  The woken coroutine looks *)
(* again, and may find that somebody else was faster.  A coroutine that is *)
(* cancelled by its Task also wakes up and looks again, and only throws    *)
(* when it would have to wait a second time, with its entry still in the   *)
(* list.                                                                   *)
(*                                                                         *)
(* An action is what a coroutine does between two suspensions.  The tasks  *)
(* share an executor that one thread runs; AsyncTask has the case of a     *)
(* timer that is cancelled by another thread before the wait has begun.    *)
(* Which primitive a behaviour is about is chosen in Init.                 *)
(***************************************************************************)
EXTENDS Integers, Sequences, FiniteSets

CONSTANTS
  Tasks,        \* coroutines, each of which makes one call
  MaxSizes,     \* values of max_size_ of a Queue, 0 for no limit
  MaxPermits,   \* bound: the permits a Semaphore starts with
  MaxOutside    \* bound: calls of release(n), set() and clear() from outside

ASSUME SyncAssumption ==
  /\ IsFiniteSet(Tasks) /\ MaxSizes \subseteq Nat
  /\ MaxPermits \in Nat /\ MaxOutside \in Nat

VARIABLES
  kind,      \* "queue", "semaphore", "lock" or "event"
  maxSize,   \* Queue: max_size_
  items,     \* Queue: items_; the value that task t puts is t
  permits,   \* Semaphore: permits_
  set,       \* Event: set_
  takers,    \* get_waiters_ of a Queue, waiters_ of the others
  givers,    \* Queue: put_waiters_
  task,      \* each coroutine: its call, where it is, whether it is cancelled
  got,       \* what get() or acquire() has returned to each task
  outside    \* the calls from outside made so far

vars == <<kind, maxSize, items, permits, set, takers, givers, task, got, outside>>

Kinds == {"queue", "semaphore", "lock", "event"}
Permit == "permit"
Nothing == "nothing"

\* at: "idle", "asleep", "woken" (its timer is over and the coroutine has not run
\* yet), "holding" (has a permit or a LockGuard), "done" or "thrown".

Init ==
  /\ kind \in Kinds
  /\ maxSize \in IF kind = "queue" THEN MaxSizes ELSE {0}
  /\ items = <<>>
  /\ permits \in CASE kind = "semaphore" -> 0..MaxPermits
                   [] kind = "lock" -> {1}
                   [] OTHER -> {0}
  /\ set = FALSE
  /\ takers = <<>> /\ givers = <<>>
  /\ task = [t \in Tasks |-> [call |-> "none", at |-> "idle", cancelled |-> FALSE]]
  /\ got = [t \in Tasks |-> Nothing]
  /\ outside = 0

-----------------------------------------------------------------------------
(* The waiters.                                                            *)

\* weak_ptr::lock: the timer lives in the frame of the loop that waits for it.
Alive(t) == task[t].at \in {"asleep", "woken"}

\* Mutant: an entry whose timer is gone uses up the wake-up.
FirstEntry(queue) == IF queue = <<>> THEN 0 ELSE 1

\* The place of the first entry whose timer exists; 0 if there is none.
FirstAlive(queue) ==
  IF \E i \in DOMAIN queue : Alive(queue[i])
  THEN CHOOSE i \in DOMAIN queue :
         Alive(queue[i]) /\ \A j \in 1..(i - 1) : ~Alive(queue[j])
  ELSE 0

\* cancel_one_waiter: what is left of the list.
AfterOne(queue) ==
  IF FirstAlive(queue) = 0 THEN <<>> ELSE SubSeq(queue, FirstAlive(queue) + 1, Len(queue))

\* cancel_one_waiter: whose timer is cancelled.
One(queue) == IF FirstAlive(queue) = 0 THEN {} ELSE {queue[FirstAlive(queue)]}

\* Cancelling the timers of s; those that are over already stay as they are.
Woken(tasks, s) ==
  [t \in Tasks |-> IF t \in s /\ tasks[t].at = "asleep"
                   THEN [tasks[t] EXCEPT !.at = "woken"] ELSE tasks[t]]

\* t registers its timer and waits; if it has been cancelled, co_await throws
\* and leaves an entry whose timer is gone.
Waits(t, call) ==
  task' = [task EXCEPT ![t].call = call,
                       ![t].at = IF task[t].cancelled THEN "thrown" ELSE "asleep"]

\* t returns from its call, and wakes the tasks of s.
Returns(t, call, at, s) ==
  task' = Woken([task EXCEPT ![t].call = call, ![t].at = at], s)

-----------------------------------------------------------------------------
(* Queue.                                                                  *)

Full == maxSize # 0 /\ Len(items) >= maxSize

\* One round of the loop of put(), from the lock to the next suspension.
Put(t) ==
  /\ kind = "queue"
  /\ \/ /\ ~Full
        /\ items' = Append(items, t)
        /\ takers' = AfterOne(takers)
        /\ Returns(t, "give", "done", One(takers))
        /\ UNCHANGED givers
     \/ /\ Full
        /\ givers' = Append(givers, t)
        /\ Waits(t, "give")
        /\ UNCHANGED <<items, takers>>
  /\ UNCHANGED <<kind, maxSize, permits, set, got, outside>>

\* Mutant: get() makes room and tells nobody.
GetTellsNobody(t) ==
  /\ kind = "queue"
  /\ \/ /\ items # <<>>
        /\ items' = Tail(items)
        /\ got' = [got EXCEPT ![t] = Head(items)]
        /\ Returns(t, "take", "done", {})
        /\ UNCHANGED <<takers, givers>>
     \/ /\ items = <<>>
        /\ takers' = Append(takers, t)
        /\ Waits(t, "take")
        /\ UNCHANGED <<items, got, givers>>
  /\ UNCHANGED <<kind, maxSize, permits, set, outside>>

\* One round of the loop of get().
Get(t) ==
  /\ kind = "queue"
  /\ \/ /\ items # <<>>
        /\ items' = Tail(items)
        /\ got' = [got EXCEPT ![t] = Head(items)]
        /\ givers' = AfterOne(givers)
        /\ Returns(t, "take", "done", One(givers))
        /\ UNCHANGED takers
     \/ /\ items = <<>>
        /\ takers' = Append(takers, t)
        /\ Waits(t, "take")
        /\ UNCHANGED <<items, got, givers>>
  /\ UNCHANGED <<kind, maxSize, permits, set, outside>>

TryPut(t) ==
  /\ kind = "queue" /\ ~Full
  /\ items' = Append(items, t)
  /\ takers' = AfterOne(takers)
  /\ Returns(t, "give", "done", One(takers))
  /\ UNCHANGED <<kind, maxSize, permits, set, givers, got, outside>>

TryGet(t) ==
  /\ kind = "queue" /\ items # <<>>
  /\ items' = Tail(items)
  /\ got' = [got EXCEPT ![t] = Head(items)]
  /\ givers' = AfterOne(givers)
  /\ Returns(t, "take", "done", One(givers))
  /\ UNCHANGED <<kind, maxSize, permits, set, takers, outside>>

-----------------------------------------------------------------------------
(* Semaphore and Lock.                                                     *)

Counts == kind \in {"semaphore", "lock"}

\* Mutant: a woken acquire() takes the permit for granted.
AcquireWithoutLooking(t) ==
  /\ Counts
  /\ \/ /\ permits > 0 \/ task[t].at = "woken"
        /\ permits' = IF permits > 0 THEN permits - 1 ELSE 0
        /\ got' = [got EXCEPT ![t] = Permit]
        /\ Returns(t, "take", "holding", {})
        /\ UNCHANGED takers
     \/ /\ permits = 0 /\ task[t].at # "woken"
        /\ takers' = Append(takers, t)
        /\ Waits(t, "take")
        /\ UNCHANGED <<permits, got>>
  /\ UNCHANGED <<kind, maxSize, items, set, givers, outside>>

\* One round of the loop of acquire(); Lock::acquire adds the LockGuard.
Acquire(t) ==
  /\ Counts
  /\ \/ /\ permits > 0
        /\ permits' = permits - 1
        /\ got' = [got EXCEPT ![t] = Permit]
        /\ Returns(t, "take", "holding", {})
        /\ UNCHANGED takers
     \/ /\ permits = 0
        /\ takers' = Append(takers, t)
        /\ Waits(t, "take")
        /\ UNCHANGED <<permits, got>>
  /\ UNCHANGED <<kind, maxSize, items, set, givers, outside>>

TryAcquire(t) ==
  /\ Counts /\ permits > 0
  /\ permits' = permits - 1
  /\ got' = [got EXCEPT ![t] = Permit]
  /\ Returns(t, "take", "holding", {})
  /\ UNCHANGED <<kind, maxSize, items, set, takers, givers, outside>>

\* release() of a holder, or the destructor of its LockGuard, which runs when
\* the task has been cancelled too.
Release(t) ==
  /\ Counts /\ task[t].at = "holding"
  /\ permits' = permits + 1
  /\ takers' = AfterOne(takers)
  /\ Returns(t, "take", "done", One(takers))
  /\ UNCHANGED <<kind, maxSize, items, set, givers, got, outside>>

\* release(n): n times cancel_one_waiter, after all permits are there.
ReleaseMany(n) ==
  /\ kind = "semaphore" /\ outside < MaxOutside
  /\ outside' = outside + 1
  /\ permits' = permits + n
  /\ takers' = IF n = 1 THEN AfterOne(takers) ELSE AfterOne(AfterOne(takers))
  /\ task' = Woken(task, One(takers) \cup IF n = 1 THEN {} ELSE One(AfterOne(takers)))
  /\ UNCHANGED <<kind, maxSize, items, set, givers, got>>

-----------------------------------------------------------------------------
(* Event.                                                                  *)

\* One round of the loop of wait().
WaitEvent(t) ==
  /\ kind = "event"
  /\ \/ /\ set
        /\ Returns(t, "take", "done", {})
        /\ UNCHANGED takers
     \/ /\ ~set
        /\ takers' = Append(takers, t)
        /\ Waits(t, "take")
  /\ UNCHANGED <<kind, maxSize, items, permits, set, givers, got, outside>>

\* Mutant: set() wakes one waiter.
SetEventForOne ==
  /\ kind = "event" /\ outside < MaxOutside
  /\ outside' = outside + 1
  /\ set' = TRUE
  /\ takers' = AfterOne(takers)
  /\ task' = Woken(task, One(takers))
  /\ UNCHANGED <<kind, maxSize, items, permits, givers, got>>

\* set(), with cancel_all_waiters.
SetEvent ==
  /\ kind = "event" /\ outside < MaxOutside
  /\ outside' = outside + 1
  /\ set' = TRUE
  /\ takers' = <<>>
  /\ task' = Woken(task, {takers[i] : i \in DOMAIN takers})
  /\ UNCHANGED <<kind, maxSize, items, permits, givers, got>>

ClearEvent ==
  /\ kind = "event" /\ outside < MaxOutside
  /\ outside' = outside + 1
  /\ set' = FALSE
  /\ UNCHANGED <<kind, maxSize, items, permits, takers, givers, task, got>>

-----------------------------------------------------------------------------
(* The tasks.                                                              *)

\* A call runs to its first suspension, or to its end.
Call(t) ==
  /\ task[t].at = "idle"
  /\ \/ Put(t) \/ Get(t) \/ TryPut(t) \/ TryGet(t)
     \/ Acquire(t) \/ TryAcquire(t) \/ WaitEvent(t)

\* The wait is over, however it ended: the loop goes round.
Resume(t) ==
  /\ task[t].at = "woken"
  /\ \/ task[t].call = "give" /\ Put(t)
     \/ task[t].call = "take" /\ (Get(t) \/ Acquire(t) \/ WaitEvent(t))

\* Task::cancel: the wait ends, and the next one will throw.
Cancel(t) ==
  /\ Alive(t) /\ ~task[t].cancelled
  /\ task' = [task EXCEPT ![t].at = "woken", ![t].cancelled = TRUE]
  /\ UNCHANGED <<kind, maxSize, items, permits, set, takers, givers, got, outside>>

\* Every task has ended or waits for something that nobody is left to do.
Quiet ==
  /\ \A t \in Tasks : task[t].at \in {"asleep", "done", "thrown"}
  /\ UNCHANGED vars

Next ==
  \/ \E t \in Tasks : Call(t) \/ Resume(t) \/ Cancel(t) \/ Release(t)
  \/ ReleaseMany(1) \/ ReleaseMany(2) \/ SetEvent \/ ClearEvent
  \/ Quiet

\* The executor runs what is ready.  Nobody is made to call, release, set or
\* cancel.
Fairness == \A t \in Tasks : WF_vars(Resume(t))

Spec == Init /\ [][Next]_vars /\ Fairness

-----------------------------------------------------------------------------
(* Properties.                                                             *)

At(call, at) == {t \in Tasks : task[t].call = call /\ task[t].at = at}

Supply == IF kind = "queue" THEN Len(items) ELSE permits

Least(m, n) == IF m <= n THEN m ELSE n

\* No wake-up is lost: for every item or permit that a sleeping task could
\* have, and for every free place that a sleeping put() could have, some task
\* has been woken and will look.  A wake-up that went to a task already woken
\* by its cancellation counts, since that task looks once more before it throws.
SleepersAreCovered ==
  /\ Least(Supply, Cardinality(At("take", "asleep"))) <= Cardinality(At("take", "woken"))
  /\ maxSize # 0 =>
       Least(maxSize - Len(items), Cardinality(At("give", "asleep")))
         <= Cardinality(At("give", "woken"))

\* A Lock has at most one holder, and a permit that nobody holds is there: a
\* cancelled acquire() neither keeps nor doubles it.
LockIsExclusive ==
  kind = "lock" => permits + Cardinality({t \in Tasks : task[t].at = "holding"}) = 1

\* If an Event stays set, everyone who waits for it returns.  A set() that is
\* followed by clear() before the waiters have run may be missed by them.
EventWaitersReturn ==
  \A t \in Tasks : <>[](kind = "event" /\ set) => []<>~Alive(t)

\* Queue and Semaphore as Handoff describes them: values leave in the order
\* they came and only once, the limit is kept, and a waiting task is served as
\* long as there is something for it, whoever is cancelled or barges in.
Shared == kind # "event"

Buffer == IF kind = "queue" THEN items ELSE [i \in 1..permits |-> Permit]
Wanting == IF Shared THEN {t \in Tasks : task[t].call = "take" /\ Alive(t)} ELSE {}
Offering == {<<t, t>> : t \in {u \in Tasks : task[u].call = "give" /\ Alive(u)}}

AsHandoff == INSTANCE Handoff WITH
  Values <- Tasks \cup {Permit},
  cap <- maxSize, buf <- Buffer, wanting <- Wanting, offering <- Offering

ImplementsHandoff == AsHandoff!Spec
=============================================================================
