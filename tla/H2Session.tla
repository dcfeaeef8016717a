----------------------------- MODULE H2Session ------------------------------
(***************************************************************************)
(* One HTTP/2 session of H2Client (src/h2_client.cpp, struct Impl): the    *)
(* connect that one request makes for all, the stream slots, the streams,  *)
(* deadlines, SETTINGS and GOAWAY, the read loop and its generation,       *)
(* shutdown and reset.                                                     *)
(*                                                                         *)
(* All of it runs on the session's strand, so an action is what one        *)
(* coroutine or handler does between two suspensions.  nghttp2 and the     *)
(* bytes are outside: a stream is open or over.  The write loop ends as    *)
(* the read loop does, and a write that fails is an end of the read loop   *)
(* here.                                                                   *)
(***************************************************************************)
EXTENDS Integers, Sequences, FiniteSets

CONSTANTS
  Requests,      \* coroutines of request_on_strand
  Callbacks,     \* requests of async_request_callback
  MaxStreams,    \* options_.max_concurrent_streams
  PeerDefault,   \* peer_max_concurrent_streams_ before SETTINGS (100)
  PeerLimits,    \* the values that SETTINGS may carry
  Timed,         \* the requests whose pool_ms is not 0
  Cancellable,   \* the requests whose caller may cancel them
  MayGoaway,     \* the peer may send GOAWAY
  MayFail,       \* a read or a write may fail
  MayShutdown,   \* shutdown(), or eviction of the group
  MayReset,      \* run_maintenance may reset the session when it is idle
  MaxGen         \* bound: values of io_generation_

Users == Requests \cup Callbacks

ASSUME SessionAssumption ==
  /\ IsFiniteSet(Users)
  /\ Requests \cap Callbacks = {}
  /\ MaxStreams \in Nat /\ PeerDefault \in Nat /\ PeerLimits \subseteq Nat
  /\ Timed \subseteq Users /\ Cancellable \subseteq Requests
  /\ MayGoaway \in BOOLEAN /\ MayFail \in BOOLEAN
  /\ MayShutdown \in BOOLEAN /\ MayReset \in BOOLEAN
  /\ MaxGen \in Nat /\ Cardinality(Users) <= MaxGen

VARIABLES
  link,      \* connected_ and connecting_: "down", "connecting" or "up"
  stopping,  \* stopping_
  asked,     \* request_shutdown has been called and not been run
  goaway,    \* goaway_received_
  socket,    \* has_active_stream()
  session,   \* session_ is not null
  gen,       \* io_generation_
  closes,    \* the errors that close_connection has been called with
  active,    \* active_streams_
  peer,      \* peer_max_concurrent_streams_
  slotQ,     \* stream_waiters_: who owns each Waiter, front first
  connQ,     \* connect_waiters_
  req,       \* each request: where it is, its Waiter, slot and stream
  reader     \* the read loop of each generation and its pending read

vars == <<link, stopping, asked, goaway, socket, session, gen, closes, active, peer,
          slotQ, connQ, req, reader>>

\* "orphan": ended, but its stream and its entry of state_waiters_ were left.
\* "abandoned": threw with its Waiter in the queue.  "undefined": the null
\* session, or a stream_ that another connect has replaced, was used.
Ended == {"ok", "failed", "timeout", "abandoned", "orphan", "undefined"}
Suspended == {"start", "resolve", "dial", "cutDial", "waitConnect", "waitSlot", "stream"}

\* wait: the async_wait on the Waiter, "none", "pending", "woken", "fired" or
\* "aborted".  holds: a StreamSlot, of the request or of its stream.
Init ==
  /\ link = "down" /\ stopping = FALSE /\ asked = FALSE /\ goaway = FALSE
  /\ socket = FALSE /\ session = FALSE
  /\ gen = 0 /\ closes = {}
  /\ active = 0 /\ peer = PeerDefault
  /\ slotQ = <<>> /\ connQ = <<>>
  /\ req = [r \in Users |-> [pc |-> "start", wait |-> "none", holds |-> FALSE,
                             stream |-> "none", cancelled |-> FALSE]]
  /\ reader = [g \in 1..MaxGen |-> "none"]

AtLeastOne(n) == IF n < 1 THEN 1 ELSE n
Least(m, n) == IF m < n THEN m ELSE n

\* stream_limit() with the peer's value p.
StreamLimit(p) == Least(AtLeastOne(MaxStreams), AtLeastOne(p))

-----------------------------------------------------------------------------
(* Waking.  q is the function of all requests.                              *)

\* wake_waiter: a wait that a deadline has completed is not undone.
Woken(u) == [u EXCEPT !.wait = IF u.wait \in {"pending", "aborted"} THEN "woken" ELSE u.wait]

Wake(q, r, where) == IF q[r].pc = where THEN [q EXCEPT ![r] = Woken(q[r])] ELSE q

\* wake_stream_waiters pops one Waiter, even one whose owner timed out.
WakesSlot(act, p) == slotQ # <<>> /\ act < StreamLimit(p)
SlotQueueAfter(act, p) == IF WakesSlot(act, p) THEN Tail(slotQ) ELSE slotQ
WakeSlot(q, act, p) == IF WakesSlot(act, p) THEN Wake(q, Head(slotQ), "waitSlot") ELSE q

WakeConnect(q) ==
  [r \in Users |-> IF q[r].pc = "waitConnect" THEN Woken(q[r]) ELSE q[r]]

End(q, r, how) == [q EXCEPT ![r].pc = how, ![r].wait = "none", ![r].holds = FALSE]

\* if (n > 0) --n
Dec(n) == IF n > 0 THEN n - 1 ELSE n

\* Mutant of ReleaseSlot: the waiters are not woken.
ReleaseSlotSilently(q) ==
  /\ active' = Dec(active) /\ slotQ' = slotQ /\ req' = q

\* release_stream_slot, q being the requests after the one who releases.
ReleaseSlot(q) ==
  /\ active' = Dec(active)
  /\ slotQ' = SlotQueueAfter(Dec(active), peer)
  /\ req' = WakeSlot(q, Dec(active), peer)

-----------------------------------------------------------------------------
(* Losing the connection.                                                   *)

\* What wake_all_stream_waiters and fail_all_streams make of a request, and
\* close_active_stream of a connect that has a socket.
Dropped(u, isCallback) ==
  IF u.stream = "open"
    THEN IF isCallback
           THEN [u EXCEPT !.pc = "failed", !.stream = "none", !.holds = FALSE]
           ELSE [Woken(u) EXCEPT !.stream = "done"]
  ELSE IF u.pc = "waitSlot" THEN Woken(u)
  ELSE IF u.pc = "dial" THEN [u EXCEPT !.pc = "cutDial"]
  ELSE u
Drop(q) == [r \in Users |-> Dropped(q[r], r \in Callbacks)]

\* A pending read of the socket that is closed completes with
\* operation_aborted; one that has failed already keeps its error.
Cut(rd) == [g \in 1..MaxGen |-> IF rd[g] = "reading" THEN "cut" ELSE rd[g]]

\* Mutant of LoseConnection: the count of slots survives the connection.
LoseConnectionKeepsSlots(q, rd) ==
  /\ socket' = FALSE /\ link' = "down" /\ goaway' = FALSE
  /\ slotQ' = <<>> /\ req' = Drop(q) /\ reader' = Cut(rd)
  /\ UNCHANGED active

\* What close_connection and shutdown_now have in common; rd is the read
\* loops without the one that is calling.
LoseConnection(q, rd) ==
  /\ socket' = FALSE /\ link' = "down" /\ goaway' = FALSE
  /\ active' = 0 /\ slotQ' = <<>>
  /\ req' = Drop(q)
  /\ reader' = Cut(rd)

CloseConnection(q, error) ==
  /\ LoseConnection(q, reader)
  /\ session' = FALSE /\ peer' = PeerDefault
  /\ closes' = closes \cup {error}

\* shutdown_now returns at once when there is nothing left to close.
ShutdownNow(rd) ==
  /\ stopping' = TRUE
  /\ IF stopping /\ ~socket
       THEN reader' = rd /\ UNCHANGED <<link, goaway, socket, active, slotQ, req>>
       ELSE LoseConnection(req, rd)
  /\ UNCHANGED <<session, peer, closes, gen, connQ>>

-----------------------------------------------------------------------------
(* acquire_stream_slot and submit_stream.  q is the requests, l the link and *)
(* rd the read loops as the caller leaves them.                             *)

Keep(l, rd) ==
  /\ link' = l /\ reader' = rd
  /\ UNCHANGED <<goaway, socket, session, peer, closes>>

\* No slot: a Waiter is queued.  A coroutine that was cancelled while it was
\* being woken throws at the co_await and leaves the Waiter behind.
Enqueue(r, q) ==
  /\ slotQ' = Append(slotQ, r)
  /\ req' = IF q[r].cancelled THEN End(q, r, "abandoned")
            ELSE [q EXCEPT ![r].pc = "waitSlot", ![r].wait = "pending"]
  /\ UNCHANGED active

\* The stream is open and its request waits for it.  A coroutine that was
\* cancelled throws at the co_await: the slot goes back, the stream stays.
Submit(r, q) ==
  LET opened == [q EXCEPT ![r].pc = "stream", ![r].stream = "open", ![r].holds = TRUE,
                          ![r].wait = IF r \in Callbacks THEN "none" ELSE "pending"]
  IN IF q[r].cancelled
       THEN /\ active' = active /\ slotQ' = SlotQueueAfter(active, peer)
            /\ req' = WakeSlot(End(opened, r, "orphan"), active, peer)
       ELSE active' = active + 1 /\ slotQ' = slotQ /\ req' = opened

\* nghttp2_submit_request refuses: the slot is given back.
SubmitRefused(r, q) ==
  /\ active' = active /\ slotQ' = SlotQueueAfter(active, peer)
  /\ req' = WakeSlot(End(q, r, "failed"), active, peer)

\* Mutant of Admitted: one slot too many.
AdmittedOneMore == active <= StreamLimit(peer)
Admitted == active < StreamLimit(peer)

Admit(r, q, l, rd) ==
  \/ /\ stopping
     /\ req' = End(q, r, "failed") /\ Keep(l, rd) /\ UNCHANGED <<active, slotQ>>
  \/ /\ ~stopping /\ ~Admitted
     /\ Enqueue(r, q) /\ Keep(l, rd)
  \/ /\ ~stopping /\ Admitted /\ goaway
     /\ CloseConnection(End(q, r, "failed"), "goaway")
  \/ /\ ~stopping /\ Admitted /\ ~goaway /\ session
     /\ Submit(r, q) \/ SubmitRefused(r, q)
     /\ Keep(l, rd)
  \/ /\ ~stopping /\ Admitted /\ ~goaway /\ ~session
     /\ req' = End(q, r, "undefined") /\ Keep(l, rd) /\ UNCHANGED <<active, slotQ>>

\* ensure_connected has come back.  A cancelled coroutine throws at the next
\* co_await, before it asks for a slot.
Proceed(r, q, l, rd) ==
  IF q[r].cancelled
    THEN /\ req' = End(q, r, "failed")
         /\ Keep(l, rd) /\ UNCHANGED <<active, slotQ>>
    ELSE Admit(r, q, l, rd)

-----------------------------------------------------------------------------
(* ensure_connected.                                                        *)

StartConnected(r) ==
  /\ req[r].pc = "start" /\ link = "up"
  /\ Proceed(r, req, link, reader)
  /\ UNCHANGED <<stopping, asked, gen, connQ>>

StartWaits(r) ==
  /\ req[r].pc = "start" /\ link = "connecting"
  /\ connQ' = Append(connQ, r)
  /\ req' = [req EXCEPT ![r].pc = "waitConnect", ![r].wait = "pending"]
  /\ UNCHANGED <<link, stopping, asked, goaway, socket, session, gen, closes, active,
                 peer, slotQ, reader>>

\* Mutant of StartConnects: the session is not made anew.
StartConnectsBare(r) ==
  /\ req[r].pc = "start" /\ link = "down"
  /\ gen' = gen + 1 /\ link' = "connecting"
  /\ req' = [req EXCEPT ![r].pc = "resolve"]
  /\ UNCHANGED <<stopping, asked, goaway, socket, session, closes, active, peer, slotQ,
                 connQ, reader>>

\* goaway_received_ is false whenever the session is not connected, so the
\* close_connection before a connect has nothing to do.
StartConnects(r) ==
  /\ req[r].pc = "start" /\ link = "down"
  /\ gen' = gen + 1 /\ link' = "connecting" /\ session' = TRUE
  /\ req' = [req EXCEPT ![r].pc = "resolve"]
  /\ UNCHANGED <<stopping, asked, goaway, socket, closes, active, peer, slotQ, connQ,
                 reader>>

\* The host is resolved and stream_ made.  If another connect has a stream_
\* there, it is destroyed under that one.
Resolved(r) ==
  /\ req[r].pc = "resolve"
  /\ socket' = TRUE
  /\ req' = [req EXCEPT ![r].pc = IF socket THEN "undefined" ELSE "dial"]
  /\ UNCHANGED <<link, stopping, asked, goaway, session, gen, closes, active, peer, slotQ,
                 connQ, reader>>

\* A connect takes round trips: what could run when it began has run.
Drained ==
  /\ \A g \in 1..MaxGen : reader[g] # "cut"
  /\ \A r \in Users : req[r].wait # "woken"

\* The handshake is done and ALPN chose h2.  The read loop starts with the
\* generation of now.
ConnectOk(r) ==
  /\ req[r].pc = "dial" /\ Drained
  /\ connQ' = <<>>
  /\ IF session
       THEN Proceed(r, WakeConnect(req), "up",
                    IF stopping THEN reader ELSE [reader EXCEPT ![gen] = "reading"])
       ELSE /\ req' = End(req, r, "undefined")
            /\ Keep("up", reader) /\ UNCHANGED <<active, slotQ>>
  /\ UNCHANGED <<stopping, asked, gen>>

\* Any step of it throws, also because the connect was cancelled or its socket
\* closed: close_connection, then everyone who waits for it is told.
ConnectFails(r) ==
  /\ req[r].pc \in {"resolve", "dial", "cutDial"}
  /\ CloseConnection(WakeConnect(End(req, r, "failed")), "failure")
  /\ connQ' = <<>>
  /\ UNCHANGED <<stopping, asked, gen>>

\* A request that waited for another's connect.
ConnectWaiterResumes(r) ==
  /\ req[r].pc = "waitConnect" /\ req[r].wait = "woken"
  /\ IF link = "up" THEN Proceed(r, req, link, reader)
     ELSE /\ req' = End(req, r, "failed")
          /\ Keep(link, reader) /\ UNCHANGED <<active, slotQ>>
  /\ UNCHANGED <<stopping, asked, gen, connQ>>

-----------------------------------------------------------------------------
(* Waiting for a slot and for the stream.                                   *)

Without(q, r) == SelectSeq(q, LAMBDA x : x # r)

SlotWaiterResumes(r) ==
  /\ req[r].pc = "waitSlot" /\ req[r].wait = "woken"
  /\ Admit(r, req, link, reader)
  /\ UNCHANGED <<stopping, asked, gen, connQ>>

PoolTimerFires(r) ==
  /\ r \in Timed /\ req[r].pc = "waitSlot" /\ req[r].wait = "pending"
  /\ req' = [req EXCEPT ![r].wait = "fired"]
  /\ UNCHANGED <<link, stopping, asked, goaway, socket, session, gen, closes, active,
                 peer, slotQ, connQ, reader>>

\* h2 stream slot timeout: the Waiter stays in stream_waiters_.
SlotTimeout(r) ==
  /\ req[r].pc = "waitSlot" /\ req[r].wait = "fired"
  /\ req' = End(req, r, "timeout")
  /\ UNCHANGED <<link, stopping, asked, goaway, socket, session, gen, closes, active,
                 peer, slotQ, connQ, reader>>

\* The caller cancels.  A wait that is pending completes with
\* operation_aborted; everything else notices at its next co_await.
Cancel(r) ==
  /\ r \in Cancellable /\ ~req[r].cancelled
  /\ req[r].pc \in Suspended \ {"start"}
  /\ req' = [req EXCEPT ![r].cancelled = TRUE,
                        ![r].wait = IF req[r].wait = "pending" THEN "aborted" ELSE req[r].wait]
  /\ UNCHANGED <<link, stopping, asked, goaway, socket, session, gen, closes, active,
                 peer, slotQ, connQ, reader>>

\* A cancelled wait for a connect or for a slot takes its Waiter along.
WaitCancelled(r) ==
  /\ req[r].pc \in {"waitConnect", "waitSlot"} /\ req[r].wait = "aborted"
  /\ slotQ' = Without(slotQ, r) /\ connQ' = Without(connQ, r)
  /\ req' = End(req, r, "failed")
  /\ UNCHANGED <<link, stopping, asked, goaway, socket, session, gen, closes, active,
                 peer, reader>>

\* The request takes its response, or resets its stream if it was cancelled.
StreamWaiterResumes(r) ==
  /\ req[r].pc = "stream" /\ req[r].wait \in {"woken", "aborted"}
  /\ ReleaseSlot([End(req, r, IF req[r].wait = "woken" THEN "ok" ELSE "failed")
                    EXCEPT ![r].stream = "none"])
  /\ UNCHANGED <<link, stopping, asked, goaway, socket, session, gen, closes, peer, connQ,
                 reader>>

-----------------------------------------------------------------------------
(* The peer, the deadlines and the read loop.                               *)

\* complete_stream, and what expire_streams does for one stream.
CompleteStream(r) ==
  /\ IF r \in Callbacks
       THEN ReleaseSlot([End(req, r, "ok") EXCEPT ![r].stream = "none"])
       ELSE /\ req' = [req EXCEPT ![r] = [Woken(req[r]) EXCEPT !.stream = "done"]]
            /\ UNCHANGED <<active, slotQ>>
  /\ UNCHANGED <<link, stopping, asked, goaway, socket, session, gen, closes, peer, connQ,
                 reader>>

Reading == link = "up" /\ gen > 0 /\ reader[gen] = "reading"

StreamEnds(r) == Reading /\ req[r].stream = "open" /\ CompleteStream(r)

\* Every stream has a total deadline.
StreamExpires(r) == req[r].stream = "open" /\ CompleteStream(r)

Settings(v) ==
  /\ Reading
  /\ peer' = AtLeastOne(v)
  /\ slotQ' = SlotQueueAfter(active, peer')
  /\ req' = WakeSlot(req, active, peer')
  /\ UNCHANGED <<link, stopping, asked, goaway, socket, session, gen, closes, active,
                 connQ, reader>>

Goaway ==
  /\ MayGoaway /\ Reading
  /\ goaway' = TRUE
  /\ UNCHANGED <<link, stopping, asked, socket, session, gen, closes, active, peer, slotQ,
                 connQ, req, reader>>

\* The read completes with an error, or nghttp2 rejects what was read; in the
\* second case the loop ends and the connection stays as it is.
ReadEnds(how) ==
  /\ MayFail /\ Reading
  /\ reader' = [reader EXCEPT ![gen] = how]
  /\ UNCHANGED <<link, stopping, asked, goaway, socket, session, gen, closes, active, peer,
                 slotQ, connQ, req>>

\* The read loop of generation g runs after its read ended.  An aborted read
\* of an older generation is ignored; everything else stops the session.
ReaderResumes(g) ==
  /\ reader[g] \in {"cut", "eof"}
  /\ LET rest == [reader EXCEPT ![g] = "none"]
     IN IF reader[g] = "cut" /\ g # gen
          THEN /\ reader' = rest
               /\ UNCHANGED <<link, stopping, goaway, socket, session, gen, closes, active,
                              peer, slotQ, connQ, req>>
          ELSE ShutdownNow(rest)
  /\ UNCHANGED asked

-----------------------------------------------------------------------------
(* Shutdown and reset.                                                      *)

RequestShutdown ==
  /\ MayShutdown /\ ~asked /\ ~stopping
  /\ asked' = TRUE
  /\ UNCHANGED <<link, stopping, goaway, socket, session, gen, closes, active, peer, slotQ,
                 connQ, req, reader>>

Shutdown ==
  /\ asked
  /\ asked' = FALSE
  /\ ShutdownNow(reader)

\* state_waiters_ is empty.
NoStateWaiters == \A r \in Requests : req[r].pc \notin {"stream", "orphan"}

SessionIdle == link # "connecting" /\ active = 0 /\ slotQ = <<>> /\ NoStateWaiters

\* Mutant of ResetIfIdle: the read loop is not told.
ResetIfIdleSameGeneration ==
  /\ MayReset /\ SessionIdle /\ ~stopping
  /\ CloseConnection(req, "reset")
  /\ UNCHANGED <<stopping, asked, connQ, gen>>

\* request_reset_if_idle; the bound leaves a generation for each connect.
ResetIfIdle ==
  /\ MayReset /\ SessionIdle /\ ~stopping
  /\ gen + Cardinality({r \in Users : req[r].pc = "start"}) < MaxGen
  /\ gen' = gen + 1
  /\ CloseConnection(req, "reset")
  /\ UNCHANGED <<stopping, asked, connQ>>

-----------------------------------------------------------------------------
Start(r) == StartConnected(r) \/ StartWaits(r) \/ StartConnects(r)
Connect(r) == Resolved(r) \/ ConnectOk(r) \/ ConnectFails(r)
Resumes(r) ==
  \/ ConnectWaiterResumes(r) \/ SlotWaiterResumes(r) \/ SlotTimeout(r)
  \/ WaitCancelled(r) \/ StreamWaiterResumes(r)

Next ==
  \/ \E r \in Users : \/ Start(r) \/ Connect(r) \/ Resumes(r)
                      \/ PoolTimerFires(r) \/ Cancel(r)
                      \/ StreamEnds(r) \/ StreamExpires(r)
  \/ \E v \in PeerLimits : Settings(v)
  \/ Goaway
  \/ \E how \in {"eof", "none"} : ReadEnds(how)
  \/ \E g \in 1..MaxGen : ReaderResumes(g)
  \/ RequestShutdown \/ Shutdown
  \/ ResetIfIdle

Spec == Init /\ [][Next]_vars

\* A connect whose socket was closed, or that was cancelled on its way, comes back.
CutConnectFails(r) ==
  ConnectFails(r) /\ (req[r].pc = "cutDial" \/ (req[r].pc = "dial" /\ req[r].cancelled))

\* Handlers that can run do, and streams end at their deadline.  Nothing else
\* makes a connect go on or come back: ensure_connected puts no timer on resolve,
\* connect and handshake.
FairSpec ==
  /\ Spec
  /\ \A r \in Users : /\ WF_vars(Start(r) \/ CutConnectFails(r) \/ Resumes(r))
                      /\ WF_vars(StreamExpires(r))
  /\ \A g \in 1..MaxGen : WF_vars(ReaderResumes(g))
  /\ WF_vars(Shutdown)

-----------------------------------------------------------------------------
(* Properties.                                                              *)

Holders == {r \in Users : req[r].holds}
Open == {r \in Users : req[r].stream = "open"}

\* active_streams_ never counts a slot that nobody will give back, though
\* shutdown_now and close_connection set it to zero under the holders and each
\* of them releases its slot afterwards: a leak would shut the session for good.
NoSlotLeak == active <= Cardinality(Holders)

\* docs/configuration.md: the streams admitted at a time are at most the smaller of
\* max_concurrent_streams and the peer's limit.  True until GOAWAY or a reset closes
\* the connection under slots, or under woken waiters that take one, which are given
\* back to the next; and while no cancelled request has left its stream behind.
AdmissionWithinLimit ==
  [][(\E r \in Users : req[r].stream # "open" /\ req'[r].stream = "open")
       => \/ Cardinality(Open') <= StreamLimit(peer')
          \/ closes \cap {"goaway", "reset"} # {} \/ \E r \in Users : req'[r].pc = "orphan"]_vars

\* The null session_ is used, or a stream_ replaced, only when a connection was
\* closed by GOAWAY, reset or shutdown under a request that was on its way.
SessionThereWhenUsed ==
  (\E r \in Users : req[r].pc = "undefined") => stopping \/ closes \cap {"goaway", "reset"} # {}

\* A session stops for good only when it is asked to, when a read or a write
\* has failed, or when it closed its connection after GOAWAY: a reset of an
\* idle session, or a failed connect, leaves it usable.
StopsForAReason ==
  [][~stopping /\ stopping'
       => asked \/ "goaway" \in closes \/ \E g \in 1..MaxGen : reader[g] = "eof"]_vars

\* What may hold up a request for ever: a connect that never comes back, its own
\* or the one it waits for; or, while it waits for a slot, a Waiter whose owner
\* timed out or left it, and that took the wake-up (h2_client.cpp:1007-1042).
HeldUp(r) ==
  \/ req[r].pc \in {"resolve", "dial"}
  \/ req[r].pc = "waitConnect" /\ \E x \in Users : req[x].pc \in {"resolve", "dial"}
  \/ /\ req[r].pc = "waitSlot" /\ req[r].wait = "pending"
     /\ \E x \in Users : req[x].pc \in {"timeout", "abandoned"}

\* A request ends, or stays held up in one of these ways: nothing else that the
\* peer, the network, a shutdown, a reset or the other requests do keeps it, as
\* long as the behaviour is defined.  In particular a request that has its
\* connection waits for a slot only as long as slots are taken, unless somebody
\* has timed out there, and one whose stream is open always ends.
EveryRequestEnds ==
  \A r \in Users :
    \/ <>(req[r].pc \in Ended \/ \E x \in Users : req[x].pc = "undefined")
    \/ <>[]HeldUp(r)
=============================================================================
