----------------------------- MODULE OriginGate -----------------------------
(***************************************************************************)
(* How HttpClient (src/http_client.cpp) chooses between HTTP/1.1 and       *)
(* HTTP/2 for the requests to one origin: the OriginGate that lets one     *)
(* request find the protocol out while the others wait, the entry of       *)
(* origins_ that remembers it, the per-thread URL cache in front of it,    *)
(* and eviction of the entry.                                              *)
(*                                                                         *)
(* Every operation of a gate is one step of its strand.  A request         *)
(* suspends at each co_await, and other requests run there.  The H1 and H2 *)
(* clients are external to this module: an attempt succeeds or fails.      *)
(***************************************************************************)
EXTENDS Integers, FiniteSets

CONSTANTS
  Requests,     \* the requests; all of them go to one origin
  Policies,     \* the protocol policies a request may have
  WaiterLimit,  \* options.origin_waiter_limit
  Overflow,     \* options.detection_overflow_policy
  RetryAtOnce,  \* options.h2_failure_ttl is 0
  MaxGates,     \* bound: gates ever created for the origin
  Gap,          \* enter() returns to a coroutine on another executor
  MayCancel,    \* the requests that may be cancelled
  Again         \* a request that ended is followed by another one

AllPolicies == {"Auto", "PreferH1", "PreferH2", "ForceH1", "ForceH2"}

ASSUME GateAssumption ==
  /\ Policies \subseteq AllPolicies
  /\ WaiterLimit \in Nat /\ MaxGates \in Nat \ {0}
  /\ Overflow \in {"FallbackH1", "WaitForDetection"}
  /\ RetryAtOnce \in BOOLEAN /\ Gap \in BOOLEAN /\ Again \in BOOLEAN
  /\ MayCancel \subseteq Requests

VARIABLES
  gate,      \* the gates by number, with their strand-protected state
  created,   \* how many of them exist
  current,   \* the gate of the entry in origins_, 0 when there is no entry
  route,     \* CachedOrigin::protocol of that entry
  urlCache,  \* protocols the thread-local URL cache holds a valid line for
  req        \* where each request is

vars == <<gate, created, current, route, urlCache, req>>

FreshGate ==
  [protocol |-> "Unknown", retryDue |-> FALSE, waiters |-> {},
   sawH2 |-> FALSE, evictionBlocked |-> FALSE]

\* why: what the H2 attempt or the gate update is for ("cached", "detect",
\* "preferH2", "preferH1" or "force").
Idle == [pc |-> "idle", why |-> "none", gate |-> 0, marks |-> 0, probed |-> FALSE]

Init ==
  /\ gate = [g \in 1..MaxGates |-> FreshGate]
  /\ created = 0 /\ current = 0
  /\ route = "Unknown" /\ urlCache = {}
  /\ req = [r \in Requests |-> Idle]

-----------------------------------------------------------------------------
(* The entry of the origin in origins_, under mu_.                          *)

\* The gate get_gate answers.
TheGate == IF current # 0 THEN current ELSE created + 1

GetGate ==
  /\ current' = TheGate
  /\ created' = IF current # 0 THEN created ELSE created + 1

\* remember_route also creates the entry, with a new gate, when it is gone.
RememberRoute(p) == GetGate /\ route' = p

\* Requests to other origins, or time, push the entry out.  The generation of
\* the cache moves on, which voids the lines of the URL caches.
Evict ==
  /\ current # 0 /\ created < MaxGates
  /\ ~gate[current].evictionBlocked
  /\ current' = 0 /\ route' = "Unknown" /\ urlCache' = {}
  /\ UNCHANGED <<gate, created, req>>

-----------------------------------------------------------------------------
(* The strand of a gate.                                                    *)

\* Mutant of Notified: the wake-up stops at the first waiter of the list.
NotifiedOnlyOne(g) ==
  LET first == CHOOSE r \in gate[g].waiters : TRUE
  IN  [r \in Requests |->
         IF r \in gate[g].waiters /\ r = first /\ req[r].pc = "asleep"
           THEN [req[r] EXCEPT !.pc = "route"] ELSE req[r]]

\* notify_waiters: cancelling the timer wakes a waiter that sleeps on it, and is
\* lost on one that has not started to.
Notified(g) ==
  [r \in Requests |->
     IF r \in gate[g].waiters /\ req[r].pc = "asleep"
       THEN [req[r] EXCEPT !.pc = "route"] ELSE req[r]]

\* Mutant of Settled: eviction stays blocked and the protocol unsettled.
SettledLate(g, protocol) ==
  [gate EXCEPT ![g].waiters = {}, ![g].evictionBlocked = FALSE]

\* set_protocol(p), mark_h2_failed().
Settled(g, protocol) ==
  [gate EXCEPT ![g].protocol = protocol, ![g].retryDue = FALSE,
               ![g].waiters = {}, ![g].evictionBlocked = FALSE]

\* The next step of r is an operation of a gate.
Posted(r) ==
  req[r].pc \in {"entering", "mark", "markOwn", "setH1", "record", "setH2"}

\* h2_failure_ttl passes.  An interval of a second or more outlasts the operations
\* that are already posted to the strand.
RetryDue(g) ==
  /\ g <= created
  /\ RetryAtOnce \/ \A r \in Requests : ~Posted(r)
  /\ gate[g].protocol = "H2FailedRecently" /\ ~gate[g].retryDue
  /\ gate' = [gate EXCEPT ![g].retryDue = TRUE]
  /\ UNCHANGED <<created, current, route, urlCache, req>>

Undecided(g) ==
  \/ gate[g].protocol = "Unknown"
  \/ gate[g].protocol = "H2FailedRecently" /\ gate[g].retryDue

WaitersFull(g) ==
  /\ Cardinality(gate[g].waiters) >= WaiterLimit
  /\ Overflow = "FallbackH1"

\* Mutant of Decision: the first request to come does not claim the detection.
DecisionUnclaimed(g) ==
  CASE gate[g].protocol = "H2Available" -> "UseH2"
    [] gate[g].protocol = "Detecting" /\ WaitersFull(g) -> "Overflow"
    [] Undecided(g) \/ gate[g].protocol = "Detecting" -> "Detect"
    [] OTHER -> "UseH1"

\* The action enter() answers.
Decision(g) ==
  CASE gate[g].protocol = "H2Available" -> "UseH2"
    [] Undecided(g) -> "Detect"
    [] gate[g].protocol = "Detecting" ->
         IF WaitersFull(g) THEN "Overflow" ELSE "Wait"
    [] OTHER -> "UseH1"

\* Mutant of Entered: the detection a retry starts does not block eviction.
EnteredUnblocked(r, g) ==
  CASE Decision(g) = "Detect" ->
         [gate EXCEPT ![g].protocol = "Detecting",
                      ![g].evictionBlocked = (gate[g].protocol = "Unknown")]
    [] Decision(g) = "Wait" -> [gate EXCEPT ![g].waiters = @ \cup {r}]
    [] OTHER -> gate

\* What enter() leaves behind in the gate.
Entered(r, g) ==
  CASE Decision(g) = "Detect" ->
         [gate EXCEPT ![g].protocol = "Detecting", ![g].evictionBlocked = TRUE]
    [] Decision(g) = "Wait" -> [gate EXCEPT ![g].waiters = @ \cup {r}]
    [] OTHER -> gate

-----------------------------------------------------------------------------
(* Steps of a request.                                                      *)

At(r, pc) == req[r].pc = pc

Goto(r, pc) == req' = [req EXCEPT ![r].pc = pc]

Ended == IF Again THEN Idle ELSE [Idle EXCEPT !.pc = "over"]

End(r) == req' = [req EXCEPT ![r] = Ended]

\* raw_request.
Start(r, policy) ==
  /\ At(r, "idle")
  /\ CASE policy = "ForceH1" ->
            /\ Goto(r, "h1") /\ UNCHANGED <<created, current>>
       [] policy = "ForceH2" ->
            /\ req' = [req EXCEPT ![r].pc = "h2", ![r].why = "force"]
            /\ UNCHANGED <<created, current>>
       [] policy = "PreferH1" ->
            /\ req' = [req EXCEPT ![r].pc = "h1", ![r].why = "preferH1"]
            /\ UNCHANGED <<created, current>>
       [] policy = "PreferH2" ->
            /\ GetGate
            /\ req' = [req EXCEPT ![r].pc = "h2", ![r].why = "preferH2", ![r].gate = TheGate]
       [] policy = "Auto" ->
            /\ Goto(r, "route") /\ UNCHANGED <<created, current>>
  /\ UNCHANGED <<gate, route, urlCache>>

\* request_auto, up to gate->enter(): a line of the URL cache decides; the line may
\* have been displaced, and then the remembered route does.
RouteFromUrlCache(r, p) ==
  /\ At(r, "route") /\ p \in urlCache
  /\ req' = [req EXCEPT ![r].pc = IF p = "H1Only" THEN "h1" ELSE "h2", ![r].why = "cached"]
  /\ UNCHANGED <<gate, created, current, route, urlCache>>

RouteRemembered(r) ==
  /\ At(r, "route") /\ route # "Unknown"
  /\ urlCache' = urlCache \cup {route}
  /\ req' = [req EXCEPT ![r].pc = IF route = "H1Only" THEN "h1" ELSE "h2", ![r].why = "cached"]
  /\ UNCHANGED <<gate, created, current, route>>

RouteUnknown(r) ==
  /\ At(r, "route") /\ route = "Unknown"
  /\ GetGate
  /\ req' = [req EXCEPT ![r].pc = "entering", ![r].gate = TheGate]
  /\ UNCHANGED <<gate, route, urlCache>>

\* enter(), on the strand.
Enter(r) ==
  LET g == req[r].gate
  IN  /\ At(r, "entering")
      /\ gate' = Entered(r, g)
      /\ Goto(r, Decision(g))
      /\ UNCHANGED <<created, current, route, urlCache>>

\* request_auto resumes with the decision of the gate.
ResumeUseH2(r) ==
  /\ At(r, "UseH2")
  /\ urlCache' = urlCache \cup {"H2Available"}
  /\ req' = [req EXCEPT ![r].pc = "h2", ![r].why = "cached"]
  /\ UNCHANGED <<gate, created, current, route>>

ResumeUseH1(r) ==
  /\ At(r, "UseH1")
  /\ urlCache' = urlCache \cup {"H1Only"}
  /\ req' = [req EXCEPT ![r].pc = "h1", ![r].why = "cached"]
  /\ UNCHANGED <<gate, created, current, route>>

ResumeOverflow(r) ==
  /\ At(r, "Overflow")
  /\ req' = [req EXCEPT ![r].pc = "h1", ![r].why = "cached"]
  /\ UNCHANGED <<gate, created, current, route, urlCache>>

ResumeWait(r) ==
  /\ At(r, "Wait") /\ Goto(r, "asleep")
  /\ UNCHANGED <<gate, created, current, route, urlCache>>

ResumeDetect(r) ==
  /\ At(r, "Detect")
  /\ req' = [req EXCEPT ![r].pc = "h2", ![r].why = "detect"]
  /\ UNCHANGED <<gate, created, current, route, urlCache>>

Resume(r) ==
  ResumeUseH2(r) \/ ResumeUseH1(r) \/ ResumeOverflow(r) \/ ResumeWait(r) \/ ResumeDetect(r)

\* request_h2: the stream was answered.
H2Succeeds(r) ==
  /\ At(r, "h2")
  /\ IF req[r].why \in {"detect", "preferH2"} /\ ~req[r].probed
       THEN Goto(r, "record") ELSE End(r)
  /\ UNCHANGED <<gate, created, current, route, urlCache>>

\* request_h2: the stream failed; unless the protocol was forced, the gate the cache
\* holds now is marked.
H2Fails(r) ==
  /\ At(r, "h2")
  /\ IF req[r].why = "force"
       THEN End(r) /\ UNCHANGED <<created, current>>
       ELSE /\ GetGate
            /\ req' = [req EXCEPT ![r].pc = "mark", ![r].marks = TheGate]
  /\ UNCHANGED <<gate, route, urlCache>>

\* Who marked the gate goes on: a detector settles its own gate for H1, a request
\* that prefers H2 marks its own gate once more, the others return the error.
AfterMark(r) ==
  CASE req[r].why = "detect" /\ ~req[r].probed -> [req[r] EXCEPT !.pc = "setH1"]
    [] req[r].why = "preferH2" /\ ~req[r].probed -> [req[r] EXCEPT !.pc = "markOwn"]
    [] OTHER -> Ended

MarkFailed(r) ==
  LET g == req[r].marks
  IN  /\ At(r, "mark")
      /\ gate' = Settled(g, "H2FailedRecently")
      /\ req' = [Notified(g) EXCEPT ![r] = AfterMark(r)]
      /\ UNCHANGED <<created, current, route, urlCache>>

MarkOwnFailed(r) ==
  LET g == req[r].gate
  IN  /\ At(r, "markOwn")
      /\ gate' = Settled(g, "H2FailedRecently")
      /\ req' = [Notified(g) EXCEPT ![r].pc = "probe"]
      /\ UNCHANGED <<created, current, route, urlCache>>

\* gate->set_protocol(H1Only), of a detector before its probe and of a request
\* that prefers H1 after its answer.
SetH1(r) ==
  LET g == req[r].gate
  IN  /\ At(r, "setH1")
      /\ gate' = Settled(g, "H1Only")
      /\ req' = [Notified(g) EXCEPT ![r] =
                   IF req[r].why = "detect" THEN [req[r] EXCEPT !.pc = "probe"] ELSE Ended]
      /\ UNCHANGED <<created, current, route, urlCache>>

\* h1_.async_probe answered over HTTP/1.1, negotiated h2, or failed.
ProbeFindsH1(r) ==
  /\ At(r, "probe")
  /\ RememberRoute("H1Only")
  /\ urlCache' = IF req[r].why = "detect" THEN urlCache \cup {"H1Only"} ELSE urlCache
  /\ End(r)
  /\ UNCHANGED gate

ProbeFindsH2(r) ==
  /\ At(r, "probe")
  /\ req' = [req EXCEPT ![r].pc = "record", ![r].probed = TRUE]
  /\ UNCHANGED <<gate, created, current, route, urlCache>>

ProbeFails(r) ==
  /\ At(r, "probe") /\ Goto(r, "h1")
  /\ UNCHANGED <<gate, created, current, route, urlCache>>

\* record_h2_origin, remember_route and store_tls_route.
Record(r) ==
  /\ At(r, "record")
  /\ gate' = [gate EXCEPT ![req[r].gate].sawH2 = TRUE]
  /\ RememberRoute("H2Available")
  /\ urlCache' = IF req[r].why = "detect" THEN urlCache \cup {"H2Available"} ELSE urlCache
  /\ Goto(r, "setH2")

\* gate->set_protocol(H2Available); after a probe the request is sent again.
SetH2(r) ==
  LET g == req[r].gate
  IN  /\ At(r, "setH2")
      /\ gate' = Settled(g, "H2Available")
      /\ req' = [Notified(g) EXCEPT ![r] =
                   IF req[r].probed THEN [req[r] EXCEPT !.pc = "h2"] ELSE Ended]
      /\ UNCHANGED <<created, current, route, urlCache>>

\* h1_.async_request ended.
H1Succeeds(r) ==
  /\ At(r, "h1")
  /\ IF req[r].why = "preferH1"
       THEN /\ RememberRoute("H1Only")
            /\ urlCache' = urlCache \cup {"H1Only"}
            /\ req' = [req EXCEPT ![r].pc = "setH1", ![r].gate = TheGate]
       ELSE End(r) /\ UNCHANGED <<created, current, route, urlCache>>
  /\ UNCHANGED gate

H1Fails(r) ==
  /\ At(r, "h1")
  /\ IF req[r].why = "preferH1" THEN Goto(r, "h2") ELSE End(r)
  /\ UNCHANGED <<gate, created, current, route, urlCache>>

\* The caller cancels the request: the next co_await throws, raw_request returns an
\* error.  The gate is not told.
Cancel(r) ==
  /\ r \in MayCancel
  /\ req[r].pc \in {"h1", "h2", "asleep", "probe", "setH2"}
  /\ Goto(r, "cancelled")
  /\ UNCHANGED <<gate, created, current, route, urlCache>>

-----------------------------------------------------------------------------

Decided(r) == req[r].pc \in {"UseH1", "UseH2", "Overflow", "Wait", "Detect"}

\* The thread that ran the strand resumes the request before it does anything else,
\* unless the request runs on another executor.
ThreadFree == Gap \/ \A r \in Requests : ~Decided(r)

Progress(r) ==
  \/ \E p \in {"H1Only", "H2Available"} : RouteFromUrlCache(r, p)
  \/ RouteRemembered(r) \/ RouteUnknown(r)
  \/ Enter(r)
  \/ H2Succeeds(r) \/ H2Fails(r)
  \/ MarkFailed(r) \/ MarkOwnFailed(r) \/ SetH1(r)
  \/ ProbeFindsH1(r) \/ ProbeFindsH2(r) \/ ProbeFails(r)
  \/ Record(r) \/ SetH2(r)
  \/ H1Succeeds(r) \/ H1Fails(r)

Step(r) == Resume(r) \/ (ThreadFree /\ Progress(r))

Next ==
  \/ \E r \in Requests : Step(r)
  \/ /\ ThreadFree
     /\ \/ \E r \in Requests, policy \in Policies : Start(r, policy)
        \/ \E r \in Requests : Cancel(r)
        \/ \E g \in 1..MaxGates : RetryDue(g)
        \/ Evict

Spec == Init /\ [][Next]_vars

\* r waits for the network.
OnTheNetwork(r) == req[r].pc \in {"h1", "h2", "probe"}

\* The executors run what is posted to them.  Nobody has to evict or to cancel, and
\* an attempt on the network need not end: ensure_connected of the H2 client sets
\* no timer on resolve, connect and handshake.
Fairness == \A r \in Requests : WF_vars(Step(r) /\ ~OnTheNetwork(r))

FairSpec == Spec /\ Fairness

-----------------------------------------------------------------------------
(* Properties.                                                              *)

\* r was told to detect by gate g and has not settled it yet.
Detects(r, g) ==
  /\ req[r].gate = g
  /\ \/ req[r].pc = "Detect"
     \/ req[r].why = "detect" /\ ~req[r].probed /\ req[r].pc \in {"h2", "mark", "setH1", "record", "setH2"}

\* Nobody waits for nobody.  A request that sleeps in wait_for_detection, which
\* has no timeout, is in the waiter list of a gate that is still detecting, so
\* whoever settles the gate will find it; and such a gate has a request that is
\* going to settle it, on every path, unless its detector was cancelled.
WaitersAreOwedAWake ==
  /\ \A r \in Requests : req[r].pc = "asleep" =>
       /\ r \in gate[req[r].gate].waiters
       /\ gate[req[r].gate].protocol = "Detecting"
  /\ \A g \in 1..created : gate[g].protocol = "Detecting" =>
       \E r \in Requests :
         \/ Detects(r, g)
         \/ req[r].pc = "cancelled" /\ req[r].why = "detect" /\ req[r].gate = g

\* While every request is routed automatically and the entry stays in the cache, one
\* request at a time finds the protocol of the origin out.
OneDetector ==
  \A g \in 1..created : \A r, q \in Requests :
    Detects(r, g) /\ Detects(q, g) => r = q

\* The cache entry of an origin that is being detected is never evicted, so its
\* waiters and its newcomers share one gate.
NeverEvictedWhileDetecting ==
  [][current # 0 /\ gate[current].protocol = "Detecting" => current' = current]_vars

\* What may hold up a request for ever: an attempt of its own on the network that
\* does not end, or that of the detector of the gate at which it sleeps.
HeldUp(r) ==
  \/ OnTheNetwork(r)
  \/ /\ req[r].pc = "asleep"
     /\ \E q \in Requests : Detects(q, req[r].gate) /\ OnTheNetwork(q)

\* Every request (each is made once) is answered, with a response or an error,
\* unless the network holds it up: the gate itself leaves nobody asleep.
EveryRequestAnswered ==
  \A r \in Requests : <>[](req[r].pc \in {"idle", "over", "cancelled"} \/ HeldUp(r))
=============================================================================
