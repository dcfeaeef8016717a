----------------------------- MODULE AsyncTask ------------------------------
(***************************************************************************)
(* asyncx::Task<T> (include/asyncx/asyncx.hpp): TaskState, Task::await,    *)
(* complete_task and add_completion, with coroutines on the executor of the*)
(* task and on other executors.                                            *)
(*                                                                         *)
(* state->mutex makes each critical section atomic, and nothing more: what *)
(* follows the unlock is a step of its own, and another executor's thread  *)
(* may run in between.  Handlers of one executor exclude each other until  *)
(* they suspend.                                                           *)
(*                                                                         *)
(* Event, Semaphore, Lock and Queue wait the same way: a timer is put in a *)
(* list under the mutex and waited for after the unlock.                   *)
(***************************************************************************)
EXTENDS Integers, FiniteSets

CONSTANTS
  Awaiters,      \* coroutines that call task.await()
  Callers,       \* threads that call add_completion(task, fn)
  SameExecutor,  \* the awaiters that run on the executor of the task
  MayCancel      \* the awaiters that may be cancelled while they wait

ASSUME TaskAssumption ==
  /\ IsFiniteSet(Awaiters) /\ IsFiniteSet(Callers)
  /\ SameExecutor \subseteq Awaiters /\ MayCancel \subseteq Awaiters

VARIABLES
  done,      \* state->done
  waiters,   \* state->waiters: whose timers are registered
  conts,     \* state->continuations
  body,      \* the coroutine of the task: "running", "notify", "finished"
  toCancel,  \* complete_task: the timers it still has to cancel
  toRun,     \* complete_task: the continuations it still has to run
  await,     \* where each awaiter is
  timer,     \* its timer: "unarmed", "armed" (async_wait started), "fired"
  add,       \* where each add_completion is
  ran,       \* how often each continuation was run
  missed     \* history: whose timer was cancelled before its async_wait

taskVars == <<done, waiters, conts, body, toCancel, toRun, await, timer, add, ran, missed>>

TaskInit ==
  /\ done = FALSE
  /\ waiters = {} /\ conts = {}
  /\ body = "running"
  /\ toCancel = {} /\ toRun = {}
  /\ await = [a \in Awaiters |-> "start"]
  /\ timer = [a \in Awaiters |-> "unarmed"]
  /\ add = [k \in Callers |-> "start"]
  /\ ran = [k \in Callers |-> 0]
  /\ missed = {}

\* A handler of the task's executor is between two of its suspensions.
Busy == body = "notify" \/ \E a \in SameExecutor : await[a] = "registered"

\* The thread that would run a has nothing else in hand.
MayRun(a) == a \in SameExecutor => ~Busy

-----------------------------------------------------------------------------
(* complete_task.                                                           *)

\* Mutant of CompleteLock: the registered timers are not collected.
CompleteLockForgetsTimers ==
  /\ body = "running" /\ ~Busy
  /\ done' = TRUE
  /\ waiters' = {} /\ toRun' = conts
  /\ conts' = {}
  /\ body' = "notify"
  /\ UNCHANGED <<toCancel, await, timer, add, ran, missed>>
\* The critical section: done is set, both lists are taken away.
CompleteLock ==
  /\ body = "running" /\ ~Busy
  /\ done' = TRUE
  /\ toCancel' = waiters /\ waiters' = {}
  /\ toRun' = conts /\ conts' = {}
  /\ body' = "notify"
  /\ UNCHANGED <<await, timer, add, ran, missed>>

\* waiter->cancel() completes a wait that has started, and is lost otherwise.
CancelTimer(a) ==
  /\ body = "notify" /\ a \in toCancel
  /\ toCancel' = toCancel \ {a}
  /\ timer' = [timer EXCEPT ![a] = IF timer[a] = "armed" THEN "fired" ELSE timer[a]]
  /\ missed' = IF timer[a] = "unarmed" THEN missed \cup {a} ELSE missed
  /\ UNCHANGED <<done, waiters, conts, body, toRun, await, add, ran>>

RunContinuation(k) ==
  /\ body = "notify" /\ toCancel = {} /\ k \in toRun
  /\ toRun' = toRun \ {k}
  /\ ran' = [ran EXCEPT ![k] = ran[k] + 1]
  /\ UNCHANGED <<done, waiters, conts, body, toCancel, await, timer, add, missed>>

CompleteReturns ==
  /\ body = "notify" /\ toCancel = {} /\ toRun = {}
  /\ body' = "finished"
  /\ UNCHANGED <<done, waiters, conts, toCancel, toRun, await, timer, add, ran, missed>>

-----------------------------------------------------------------------------
(* Task::await.                                                             *)

\* The critical section: ready, or the timer is registered.
AwaitLock(a) ==
  /\ await[a] = "start" /\ MayRun(a)
  /\ IF done
       THEN await' = [await EXCEPT ![a] = "returned"] /\ UNCHANGED waiters
       ELSE await' = [await EXCEPT ![a] = "registered"] /\ waiters' = waiters \cup {a}
  /\ UNCHANGED <<done, conts, body, toCancel, toRun, timer, add, ran, missed>>

\* timer->async_wait, after the unlock.
AwaitSleeps(a) ==
  /\ await[a] = "registered"
  /\ await' = [await EXCEPT ![a] = "asleep"]
  /\ timer' = [timer EXCEPT ![a] = "armed"]
  /\ UNCHANGED <<done, waiters, conts, body, toCancel, toRun, add, ran, missed>>

CancelAwaiter(a) ==
  /\ a \in MayCancel /\ await[a] = "asleep" /\ timer[a] = "armed"
  /\ timer' = [timer EXCEPT ![a] = "fired"]
  /\ UNCHANGED <<done, waiters, conts, body, toCancel, toRun, await, add, ran, missed>>

\* The wait is over: the result if there is one, CancelledError if not.  The
\* timer dies here, and a weak pointer to it expires.
AwaitResumes(a) ==
  /\ await[a] = "asleep" /\ timer[a] = "fired" /\ MayRun(a)
  /\ await' = [await EXCEPT ![a] = IF done THEN "returned" ELSE "cancelled"]
  /\ waiters' = waiters \ {a}
  /\ UNCHANGED <<done, conts, body, toCancel, toRun, timer, add, ran, missed>>

-----------------------------------------------------------------------------
(* add_completion.                                                          *)

\* Mutant of AddLock: the continuation is registered although the task is done.
AddLockBlindly(k) ==
  /\ add[k] = "start"
  /\ add' = [add EXCEPT ![k] = "finished"] /\ conts' = conts \cup {k}
  /\ UNCHANGED <<done, waiters, body, toCancel, toRun, await, timer, ran, missed>>

\* The critical section: registered, or to be run here and now.
AddLock(k) ==
  /\ add[k] = "start"
  /\ IF done
       THEN add' = [add EXCEPT ![k] = "ready"] /\ UNCHANGED conts
       ELSE add' = [add EXCEPT ![k] = "finished"] /\ conts' = conts \cup {k}
  /\ UNCHANGED <<done, waiters, body, toCancel, toRun, await, timer, ran, missed>>

AddRuns(k) ==
  /\ add[k] = "ready"
  /\ add' = [add EXCEPT ![k] = "finished"]
  /\ ran' = [ran EXCEPT ![k] = ran[k] + 1]
  /\ UNCHANGED <<done, waiters, conts, body, toCancel, toRun, await, timer, missed>>

-----------------------------------------------------------------------------
IsBack(a) == await[a] \in {"returned", "cancelled"}

\* All is over, or only those sleep on whom the completion has missed.
TaskQuiescent ==
  /\ body = "finished"
  /\ \A a \in Awaiters : IsBack(a) \/ (a \in missed /\ timer[a] = "armed")
  /\ \A k \in Callers : add[k] = "finished"
  /\ UNCHANGED taskVars

Complete == CompleteLock \/ CompleteReturns
Notify == (\E a \in Awaiters : CancelTimer(a)) \/ (\E k \in Callers : RunContinuation(k))
Await(a) == AwaitLock(a) \/ AwaitSleeps(a) \/ AwaitResumes(a)
Add(k) == AddLock(k) \/ AddRuns(k)

TaskNext ==
  \/ Complete \/ Notify
  \/ \E a \in Awaiters : Await(a) \/ CancelAwaiter(a)
  \/ \E k \in Callers : Add(k)
  \/ TaskQuiescent

TaskSpec == TaskInit /\ [][TaskNext]_taskVars

\* The threads keep running what is runnable, and the task ends.
FairTaskSpec ==
  /\ TaskSpec
  /\ WF_taskVars(Complete) /\ WF_taskVars(Notify)
  /\ \A a \in Awaiters : WF_taskVars(Await(a))
  /\ \A k \in Callers : WF_taskVars(Add(k))

-----------------------------------------------------------------------------
(* Properties.                                                              *)

\* complete_task reaches everyone it can.  A continuation given to
\* add_completion is run exactly once, by the task or by the thread that brought
\* it, wherever the critical section of complete_task falls (the vector gather
\* counts on it for its done_count).  Whoever is still asleep with an unfired
\* timer after it, or about to be, is on another executor and was registered but
\* not yet in its async_wait when its timer was cancelled (asyncx.hpp:517).  And
\* only an awaiter that was itself cancelled gave up before.
CompletionReachesEveryone ==
  /\ body = "finished" =>
       /\ \A k \in Callers : add[k] = "finished" => ran[k] = 1
       /\ \A a \in Awaiters :
            await[a] \in {"registered", "asleep"} /\ timer[a] # "fired"
              => a \in missed \ SameExecutor
  /\ \A a \in Awaiters : await[a] = "cancelled" => a \in MayCancel

\* README.md:324: a Task can be awaited across executors.  Every await on the
\* task's own executor comes back.  One on another executor comes back too,
\* unless the task ended between its unlock and its async_wait: nothing but its
\* own cancellation ends that one.
AwaitersComeBack ==
  \A a \in Awaiters :
    /\ a \in SameExecutor => <>IsBack(a)
    /\ <>(IsBack(a) \/ a \in missed)
    /\ [](a \in missed /\ a \notin MayCancel => ~IsBack(a))
=============================================================================
