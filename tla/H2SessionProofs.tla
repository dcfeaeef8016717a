-------------------------- MODULE H2SessionProofs ---------------------------
(***************************************************************************)
(* Proofs about H2Session, for any number of requests and callbacks, any   *)
(* limits, and everything that may happen to the connection.               *)
(*                                                                         *)
(* The parts of Inv hold for as long as nothing has happened that breaks   *)
(* them in the code.  Until GOAWAY closes the connection or the session    *)
(* stops (Steady), one request at a time connects, and the read loop of    *)
(* the present generation has not been cut off (Loops).  Until a reset as  *)
(* well (Clean), there is a session wherever one is used (Ready) and       *)
(* active_streams_ is exactly the number of slots held (Counted).          *)
(***************************************************************************)
EXTENDS H2Session, FiniteSetTheorems, TLAPS

-----------------------------------------------------------------------------
(* The inductive invariant.                                                 *)

UserRecord ==
  [pc : Suspended \cup Ended, wait : {"none", "pending", "woken", "fired", "aborted"},
   holds : BOOLEAN, stream : {"none", "open", "done"}, cancelled : BOOLEAN]

Loop == {"none", "reading", "cut", "eof"}

Types ==
  /\ link \in {"down", "connecting", "up"}
  /\ stopping \in BOOLEAN /\ goaway \in BOOLEAN /\ socket \in BOOLEAN /\ session \in BOOLEAN
  /\ gen \in Nat /\ active \in Nat /\ peer \in Nat
  /\ req \in [Users -> UserRecord]
  /\ reader \in [1..MaxGen -> Loop]

\* Who waits for its stream, and nobody else, holds a slot; an open stream has an
\* owner or was left behind by a request that was cancelled.
Good(r, u) ==
  /\ u.holds <=> u.pc = "stream"
  /\ u.stream # "none" => u.pc \in {"stream", "orphan"}
  /\ u.cancelled \/ u.pc = "orphan" => r \in Requests

UsersGood == \A r \in Users : Good(r, req[r])

Steady == ~stopping /\ "goaway" \notin closes
Clean == ~stopping /\ closes \cap {"goaway", "reset"} = {}

Dials(u) == u.pc \in {"resolve", "dial", "cutDial"}

\* One request connects at a time.
OneDials == \A r, s \in Users : Dials(req[r]) /\ Dials(req[s]) => r = s
ThenConnecting == \A r \in Users : Dials(req[r]) => link = "connecting"

\* The read loops of generation n and of later ones.
LoopsOf(l, rd, n) ==
  \A g \in 1..MaxGen :
    /\ g > n => rd[g] = "none"
    /\ g = n => rd[g] # "cut" /\ (l = "connecting" => rd[g] = "none")

Loops == Steady => OneDials /\ ThenConnecting /\ LoopsOf(link, reader, gen)

\* Where a request can be, with a link l and a socket or not.
Placed(u, l, s) ==
  /\ u.pc # "undefined"
  /\ u.pc = "resolve" => ~s
  /\ u.pc \in {"waitSlot", "stream", "orphan"} => l = "up"

Ready ==
  Clean =>
    /\ link # "down" => session
    /\ link = "down" => ~socket
    /\ \A r \in Users : Placed(req[r], link, socket)

NoOrphan == \A r \in Users : req[r].pc # "orphan"

Counted == Clean /\ NoOrphan => active = Cardinality(Holders)

Inv == Types /\ UsersGood /\ NoSlotLeak /\ Loops /\ Ready /\ Counted

-----------------------------------------------------------------------------
(* What the operators do to a request.                                      *)

\* v differs from u at most in its wait.
Same(u, v) ==
  v.pc = u.pc /\ v.holds = u.holds /\ v.stream = u.stream /\ v.cancelled = u.cancelled

LEMMA WokenSame ==
  ASSUME NEW u \in UserRecord
  PROVE  Woken(u) \in UserRecord /\ Same(u, Woken(u))
BY DEF Woken, UserRecord, Same

LEMMA WakeSame ==
  ASSUME NEW q \in [Users -> UserRecord], NEW x, NEW where
  PROVE  /\ Wake(q, x, where) \in [Users -> UserRecord]
         /\ \A s \in Users : Same(q[s], Wake(q, x, where)[s])
<1> DEFINE w == Wake(q, x, where)
<1>1. w = q \/ w = [q EXCEPT ![x] = Woken(q[x])]
  BY DEF Wake
<1> HIDE DEF w
<1>2. ASSUME NEW s \in Users PROVE w[s] \in UserRecord /\ Same(q[s], w[s])
  <2>1. w[s] = q[s] \/ w[s] = Woken(q[s])
    BY <1>1
  <2> QED
    BY <2>1, WokenSame DEF Same
<1>3. w = [s \in Users |-> w[s]]
  BY <1>1
<1> QED
  BY <1>2, <1>3 DEF w

LEMMA WakeSlotSame ==
  ASSUME NEW q \in [Users -> UserRecord], NEW act, NEW p
  PROVE  /\ WakeSlot(q, act, p) \in [Users -> UserRecord]
         /\ \A s \in Users : Same(q[s], WakeSlot(q, act, p)[s])
BY WakeSame DEF WakeSlot, Same

LEMMA WakeConnectSame ==
  ASSUME NEW q \in [Users -> UserRecord]
  PROVE  /\ WakeConnect(q) \in [Users -> UserRecord]
         /\ \A s \in Users : Same(q[s], WakeConnect(q)[s])
<1>1. ASSUME NEW s \in Users
      PROVE  WakeConnect(q)[s] \in UserRecord /\ Same(q[s], WakeConnect(q)[s])
  <2>1. WakeConnect(q)[s] = q[s] \/ WakeConnect(q)[s] = Woken(q[s])
    BY DEF WakeConnect
  <2> QED
    BY <2>1, WokenSame DEF Same
<1>2. WakeConnect(q) = [s \in Users |-> WakeConnect(q)[s]]
  BY DEF WakeConnect
<1> QED
  BY <1>1, <1>2

\* e is q with r ended.
EndsIn(q, r, how, e) ==
  /\ e \in [Users -> UserRecord] /\ e[r].pc = how /\ e[r].holds = FALSE
  /\ e[r].stream = q[r].stream /\ e[r].cancelled = q[r].cancelled
  /\ \A s \in Users \ {r} : e[s] = q[s]

LEMMA EndOne ==
  ASSUME NEW q \in [Users -> UserRecord], NEW r \in Users, NEW how \in Ended
  PROVE  EndsIn(q, r, how, End(q, r, how))
<1> DEFINE u == q[r]
           v == [u EXCEPT !.pc = how, !.wait = "none", !.holds = FALSE]
<1>1. End(q, r, how) = [q EXCEPT ![r] = v]
  BY DEF End
<1>2. u \in UserRecord
  OBVIOUS
<1> HIDE DEF u
<1>3. /\ v \in UserRecord /\ v.pc = how /\ v.holds = FALSE
      /\ v.stream = u.stream /\ v.cancelled = u.cancelled
  BY <1>2 DEF UserRecord
<1> HIDE DEF v
<1> QED
  BY <1>1, <1>3 DEF u, EndsIn

\* A lost connection: the stream of a callback ends with it, that of a request is over,
\* and a connect has no socket any more.
LEMMA DroppedEffect ==
  ASSUME NEW r \in Users, NEW u \in UserRecord, Good(r, u)
  PROVE  LET v == Dropped(u, r \in Callbacks)
         IN  /\ v \in UserRecord /\ Good(r, v) /\ v.stream # "open"
             /\ \/ v.pc = u.pc
                \/ u.pc = "dial" /\ v.pc = "cutDial"
                \/ u.pc = "stream" /\ v.pc = "failed"
<1> DEFINE v == Dropped(u, r \in Callbacks)
           w == Woken(u)
<1>0. w \in UserRecord /\ Same(u, w)
  BY WokenSame
<1>1. CASE u.stream = "open" /\ r \in Callbacks
  <2> DEFINE x == [u EXCEPT !.pc = "failed", !.stream = "none", !.holds = FALSE]
  <2>1. v = x
    BY <1>1 DEF Dropped
  <2>2. x \in UserRecord /\ x.pc = "failed" /\ x.stream = "none" /\ x.holds = FALSE
        /\ x.cancelled = u.cancelled
    BY DEF UserRecord, Ended
  <2>3. u.pc = "stream"
    BY <1>1, SessionAssumption DEF Good
  <2> HIDE DEF x, v
  <2> QED
    BY <2>1, <2>2, <2>3 DEF Good, v
<1>2. CASE u.stream = "open" /\ r \notin Callbacks
  <2> DEFINE x == [w EXCEPT !.stream = "done"]
  <2>1. v = x
    BY <1>2 DEF Dropped
  <2> HIDE DEF w
  <2>2. x \in UserRecord /\ x.pc = w.pc /\ x.stream = "done" /\ x.holds = w.holds
        /\ x.cancelled = w.cancelled
    BY <1>0 DEF UserRecord
  <2> HIDE DEF x, v
  <2>3. Good(r, x) /\ x.pc = u.pc
    BY <1>0, <1>2, <2>2 DEF Good, Same
  <2> QED
    BY <2>1, <2>2, <2>3 DEF v
<1>3. CASE u.stream # "open" /\ u.pc = "waitSlot"
  <2>1. v = w
    BY <1>3 DEF Dropped
  <2> HIDE DEF w, v
  <2> QED
    BY <1>0, <1>3, <2>1 DEF Good, Same, v
<1>4. CASE u.stream # "open" /\ u.pc = "dial"
  <2> DEFINE x == [u EXCEPT !.pc = "cutDial"]
  <2>1. v = x
    BY <1>4 DEF Dropped
  <2>2. x \in UserRecord /\ x.pc = "cutDial" /\ x.stream = u.stream /\ x.holds = u.holds
        /\ x.cancelled = u.cancelled
    BY DEF UserRecord, Suspended
  <2> HIDE DEF x, v
  <2> QED
    BY <1>4, <2>1, <2>2 DEF Good, v
<1>5. CASE u.stream # "open" /\ u.pc \notin {"waitSlot", "dial"}
  <2>1. v = u
    BY <1>5 DEF Dropped
  <2> QED
    BY <1>5, <2>1
<1> QED
  BY <1>1, <1>2, <1>3, <1>4, <1>5

LEMMA DropEffect ==
  ASSUME NEW q \in [Users -> UserRecord], \A r \in Users : Good(r, q[r])
  PROVE  /\ Drop(q) \in [Users -> UserRecord]
         /\ \A r \in Users :
              /\ Good(r, Drop(q)[r]) /\ Drop(q)[r].stream # "open"
              /\ \/ Drop(q)[r].pc = q[r].pc
                 \/ q[r].pc = "dial" /\ Drop(q)[r].pc = "cutDial"
                 \/ q[r].pc = "stream" /\ Drop(q)[r].pc = "failed"
<1>1. ASSUME NEW r \in Users
      PROVE  /\ Drop(q)[r] \in UserRecord
             /\ Good(r, Drop(q)[r]) /\ Drop(q)[r].stream # "open"
             /\ \/ Drop(q)[r].pc = q[r].pc
                \/ q[r].pc = "dial" /\ Drop(q)[r].pc = "cutDial"
                \/ q[r].pc = "stream" /\ Drop(q)[r].pc = "failed"
  <2>1. Drop(q)[r] = Dropped(q[r], r \in Callbacks)
    BY DEF Drop
  <2> QED
    BY <2>1, DroppedEffect
<1>2. Drop(q) = [r \in Users |-> Drop(q)[r]]
  BY DEF Drop
<1> QED
  BY <1>1, <1>2

LEMMA CutType ==
  ASSUME NEW rd \in [1..MaxGen -> Loop]
  PROVE  /\ Cut(rd) \in [1..MaxGen -> Loop]
         /\ \A g \in 1..MaxGen : rd[g] = "none" => Cut(rd)[g] = "none"
BY DEF Cut, Loop

LEMMA HoldersFinite == IsFiniteSet(Holders) /\ Cardinality(Holders) \in Nat
BY SessionAssumption, FS_Subset, FS_CardinalityType DEF Holders

LEMMA HoldersFinitePrime == IsFiniteSet(Holders') /\ Cardinality(Holders') \in Nat
BY SessionAssumption, FS_Subset, FS_CardinalityType DEF Holders

LEMMA LimitType ==
  ASSUME NEW p \in Nat
  PROVE  StreamLimit(p) \in Nat \ {0}
BY SessionAssumption DEF StreamLimit, Least, AtLeastOne

-----------------------------------------------------------------------------
(* Counting the slots.  A request holds one exactly while it waits for its  *)
(* stream, so only its pc matters.                                          *)

LEMMA SameHolders ==
  ASSUME UsersGood, UsersGood',
         \A s \in Users : req'[s].pc = "stream" <=> req[s].pc = "stream"
  PROVE  Holders' = Holders
BY DEF UsersGood, Good, Holders

LEMMA OneMoreHolder ==
  ASSUME UsersGood, UsersGood', NEW r \in Users,
         \A s \in Users \ {r} : req'[s].pc = req[s].pc,
         req[r].pc # "stream", req'[r].pc = "stream"
  PROVE  Cardinality(Holders') = Cardinality(Holders) + 1
<1>1. Holders' = Holders \cup {r} /\ r \notin Holders
  BY DEF UsersGood, Good, Holders
<1> QED
  BY <1>1, HoldersFinite, FS_AddElement

LEMMA OneHolderLess ==
  ASSUME UsersGood, UsersGood', NEW r \in Users,
         \A s \in Users \ {r} : req'[s].pc = req[s].pc,
         req[r].pc = "stream", req'[r].pc # "stream"
  PROVE  Cardinality(Holders') = Cardinality(Holders) - 1
<1>1. Holders' = Holders \ {r} /\ r \in Holders
  BY DEF UsersGood, Good, Holders
<1> QED
  BY <1>1, HoldersFinite, FS_RemoveElement

\* A step of r that takes a slot, gives one back, or does neither.
Accounted(r) ==
  \/ active' = active /\ (req'[r].pc = "stream" <=> req[r].pc = "stream")
  \/ active' = active + 1 /\ req[r].pc # "stream" /\ req'[r].pc = "stream"
  \/ active' = Dec(active) /\ req[r].pc = "stream" /\ req'[r].pc # "stream"

\* No step makes an orphan of another request, or ends being one.
LEMMA CountKept ==
  ASSUME Types, UsersGood, UsersGood', NoSlotLeak, Counted, NEW r \in Users,
         \A s \in Users \ {r} : req'[s].pc = req[s].pc,
         req[r].pc = "orphan" => req'[r].pc = "orphan",
         Clean' => Clean, Accounted(r)
  PROVE  NoSlotLeak' /\ Counted'
<1>1. Clean' /\ NoOrphan' => Clean /\ NoOrphan
  BY DEF NoOrphan
<1>2. Cardinality(Holders) \in Nat /\ active \in Nat /\ active <= Cardinality(Holders)
      /\ (Clean /\ NoOrphan => active = Cardinality(Holders))
  BY HoldersFinite DEF Types, NoSlotLeak, Counted
<1>3. CASE active' = active /\ (req'[r].pc = "stream" <=> req[r].pc = "stream")
  <2>1. Holders' = Holders
    BY <1>3, SameHolders
  <2> QED
    BY <1>1, <1>2, <1>3, <2>1 DEF NoSlotLeak, Counted
<1>4. CASE active' = active + 1 /\ req[r].pc # "stream" /\ req'[r].pc = "stream"
  <2>1. Cardinality(Holders') = Cardinality(Holders) + 1
    BY <1>4, OneMoreHolder
  <2> QED
    BY <1>1, <1>2, <1>4, <2>1 DEF NoSlotLeak, Counted
<1>5. CASE active' = Dec(active) /\ req[r].pc = "stream" /\ req'[r].pc # "stream"
  <2>1. Cardinality(Holders') = Cardinality(Holders) - 1
    BY <1>5, OneHolderLess
  <2>2. Cardinality(Holders') \in Nat
    BY HoldersFinitePrime
  <2>3. active' <= Cardinality(Holders')
    BY <1>2, <1>5, <2>1, <2>2 DEF Dec
  <2>4. active = Cardinality(Holders) => active' = Cardinality(Holders')
    BY <1>2, <1>5, <2>1, <2>2 DEF Dec
  <2> QED
    BY <1>1, <1>2, <2>3, <2>4 DEF NoSlotLeak, Counted
<1> QED
  BY <1>3, <1>4, <1>5 DEF Accounted

-----------------------------------------------------------------------------
(* Three kinds of steps.                                                    *)

\* One request moves, and the connection is not closed.
LEMMA MoveInv ==
  ASSUME Inv, NEW r \in Users, Types', UsersGood', UNCHANGED <<stopping, closes>>,
         \A s \in Users \ {r} : req'[s].pc = req[s].pc,
         req[r].pc = "orphan" => req'[r].pc = "orphan",
         Accounted(r),
         Steady =>
           /\ LoopsOf(link', reader', gen')
           /\ Dials(req'[r]) => link' = "connecting" /\ \A s \in Users \ {r} : ~Dials(req[s])
           /\ \A s \in Users \ {r} : Dials(req[s]) => link' = "connecting",
         Clean =>
           /\ link' # "down" => session'
           /\ link' = "down" => ~socket'
           /\ Placed(req'[r], link', socket')
           /\ \A s \in Users \ {r} : Placed(req[s], link', socket')
  PROVE  Inv'
<1>1. Steady' = Steady /\ Clean' = Clean
  BY DEF Steady, Clean
<1>2. NoSlotLeak' /\ Counted'
  BY <1>1, CountKept DEF Inv
<1>3. Loops'
  <2>1. SUFFICES ASSUME Steady PROVE OneDials' /\ ThenConnecting' /\ LoopsOf(link, reader, gen)'
    BY <1>1 DEF Loops
  <2>2. OneDials
    BY <2>1 DEF Inv, Loops
  <2>3. OneDials'
    BY <2>1, <2>2 DEF OneDials, Dials
  <2>4. ThenConnecting'
    BY <2>1 DEF ThenConnecting, Dials
  <2>5. LoopsOf(link, reader, gen)'
    BY <2>1 DEF LoopsOf
  <2> QED
    BY <2>3, <2>4, <2>5
<1>4. Ready'
  BY <1>1 DEF Ready, Placed
<1> QED
  BY <1>2, <1>3, <1>4 DEF Inv

\* Nobody moves: the peer, a timer, a read that ends, or who only learns something.
LEMMA QuietInv ==
  ASSUME Inv, Types', UsersGood',
         UNCHANGED <<stopping, closes, active, link, socket, session, gen>>,
         \A s \in Users : req'[s].pc = req[s].pc,
         Steady => LoopsOf(link, reader', gen)
  PROVE  Inv'
<1>1. Steady' = Steady /\ Clean' = Clean
  BY DEF Steady, Clean
<1>2. Holders' = Holders
  BY SameHolders DEF Inv
<1>3. NoSlotLeak' /\ Counted'
  BY <1>1, <1>2 DEF Inv, NoSlotLeak, Counted, NoOrphan
<1>4. Loops'
  BY <1>1 DEF Inv, Loops, OneDials, ThenConnecting, Dials, LoopsOf
<1>5. Ready'
  BY <1>1 DEF Inv, Ready, Placed
<1> QED
  BY <1>3, <1>4, <1>5 DEF Inv

\* The connection is lost.  q is the requests as the caller leaves them.
LEMMA LostEffect ==
  ASSUME NEW q \in [Users -> UserRecord], \A s \in Users : Good(s, q[s]),
         NEW rd \in [1..MaxGen -> Loop], LoseConnection(q, rd)
  PROVE  /\ link' = "down" /\ socket' = FALSE /\ goaway' = FALSE /\ active' = 0
         /\ req' \in [Users -> UserRecord] /\ reader' \in [1..MaxGen -> Loop]
         /\ UsersGood' /\ NoSlotLeak'
         /\ \A s \in Users : \/ req'[s].pc = q[s].pc
                             \/ q[s].pc = "dial" /\ req'[s].pc = "cutDial"
                             \/ q[s].pc = "stream" /\ req'[s].pc = "failed"
         /\ \A g \in 1..MaxGen : rd[g] = "none" => reader'[g] = "none"
<1>1. /\ link' = "down" /\ socket' = FALSE /\ goaway' = FALSE /\ active' = 0
      /\ req' = Drop(q) /\ reader' = Cut(rd)
  BY DEF LoseConnection
<1>2. NoSlotLeak'
  BY <1>1, HoldersFinitePrime DEF NoSlotLeak
<1>3. /\ req' \in [Users -> UserRecord]
      /\ \A s \in Users : Good(s, req'[s])
      /\ \A s \in Users : \/ req'[s].pc = q[s].pc
                          \/ q[s].pc = "dial" /\ req'[s].pc = "cutDial"
                          \/ q[s].pc = "stream" /\ req'[s].pc = "failed"
  BY <1>1, DropEffect
<1>4. UsersGood'
  BY <1>3 DEF UsersGood
<1>5. /\ reader' \in [1..MaxGen -> Loop]
      /\ \A g \in 1..MaxGen : rd[g] = "none" => reader'[g] = "none"
  BY <1>1, CutType
<1> QED
  BY <1>1, <1>2, <1>3, <1>4, <1>5

\* It is lost for good, or by GOAWAY: what is promised then is that no slot leaks.
LEMMA LostInv ==
  ASSUME Inv, NEW q \in [Users -> UserRecord], \A s \in Users : Good(s, q[s]),
         NEW rd \in [1..MaxGen -> Loop], LoseConnection(q, rd),
         stopping' \in BOOLEAN, session' \in BOOLEAN, peer' \in Nat, gen' \in Nat,
         ~Steady'
  PROVE  Inv'
<1>1. /\ link' = "down" /\ socket' = FALSE /\ goaway' = FALSE /\ active' = 0
      /\ req' \in [Users -> UserRecord] /\ reader' \in [1..MaxGen -> Loop]
      /\ UsersGood' /\ NoSlotLeak'
  BY LostEffect
<1>2. Types'
  BY <1>1 DEF Types
<1>3. ~Clean'
  BY DEF Clean, Steady
<1> QED
  BY <1>1, <1>2, <1>3 DEF Inv, Loops, Ready, Counted

-----------------------------------------------------------------------------
(* acquire_stream_slot and submit_stream.                                   *)

\* What the callers of Admit and Proceed have seen to: q is the requests up to their
\* waits, and r is one who may ask for a slot.
Asks(r, q, l, rd) ==
  /\ q \in [Users -> UserRecord] /\ \A s \in Users : Same(req[s], q[s])
  /\ req[r].pc \in {"start", "dial", "waitConnect", "waitSlot"}
  /\ l \in {"down", "connecting", "up"} /\ rd \in [1..MaxGen -> Loop]
  /\ Steady => /\ LoopsOf(l, rd, gen)
               /\ \A s \in Users \ {r} : Dials(req[s]) => l = "connecting"
  /\ Clean => l = "up" /\ session

\* r moves to pc, with a link l that is up unless GOAWAY or a reset has been there.
LEMMA AskedInv ==
  ASSUME Inv, NEW r \in Users, NEW q, NEW l, NEW rd, Asks(r, q, l, rd), Keep(l, rd),
         UNCHANGED <<stopping, gen>>,
         active' \in Nat, req' \in [Users -> UserRecord],
         \A s \in Users \ {r} : Same(q[s], req'[s]),
         Good(r, req'[r]), Accounted(r),
         ~Dials(req'[r]), Clean => req'[r].pc \notin {"resolve", "undefined"}
  PROVE  Inv'
<1>1. /\ link' = l /\ reader' = rd /\ socket' = socket /\ session' = session
      /\ goaway' = goaway /\ peer' = peer /\ closes' = closes
  BY DEF Keep
<1>2. Types'
  BY <1>1 DEF Types, Inv, Asks
<1>3. \A s \in Users \ {r} : Same(req[s], req'[s])
  BY DEF Asks, Same
<1>4. UsersGood'
  BY <1>3 DEF UsersGood, Good, Same, Inv
<1>5. Steady =>
        /\ LoopsOf(link', reader', gen')
        /\ \A s \in Users \ {r} : Dials(req[s]) => link' = "connecting"
  BY <1>1 DEF Asks
<1>6. Clean =>
        /\ link' # "down" => session'
        /\ link' = "down" => ~socket'
        /\ Placed(req'[r], link', socket')
        /\ \A s \in Users \ {r} : Placed(req[s], link', socket')
  BY <1>1 DEF Asks, Inv, Ready, Placed
<1>7. req[r].pc # "orphan"
  BY DEF Asks
<1>8. \A s \in Users \ {r} : req'[s].pc = req[s].pc
  BY <1>3 DEF Same
<1> QED
  BY <1>1, <1>2, <1>4, <1>5, <1>6, <1>7, <1>8, MoveInv

\* r ends without a slot, and a waiter may be woken.
LEMMA AskedEnds ==
  ASSUME Inv, NEW r \in Users, NEW q, NEW l, NEW rd, Asks(r, q, l, rd), Keep(l, rd),
         UNCHANGED <<stopping, gen, active>>,
         NEW how \in {"failed", "abandoned", "undefined"}, Clean => how # "undefined",
         \/ req' = End(q, r, how)
         \/ req' = WakeSlot(End(q, r, how), active, peer)
  PROVE  Inv'
<1>0. q \in [Users -> UserRecord] /\ how \in Ended
  BY DEF Asks, Ended
<1> DEFINE e == End(q, r, how)
<1>1. /\ e \in [Users -> UserRecord] /\ e[r].pc = how /\ e[r].holds = FALSE
      /\ e[r].stream = q[r].stream /\ e[r].cancelled = q[r].cancelled
      /\ \A s \in Users \ {r} : e[s] = q[s]
  <2>1. EndsIn(q, r, how, e)
    BY <1>0, EndOne
  <2> HIDE DEF e
  <2> QED
    BY <2>1 DEF EndsIn
<1> HIDE DEF e
<1>2. req' \in [Users -> UserRecord] /\ \A s \in Users : Same(e[s], req'[s])
  BY <1>1, WakeSlotSame DEF e, Same
<1>3. \A s \in Users \ {r} : Same(q[s], req'[s])
  BY <1>1, <1>2
<1>4. Good(r, req[r]) /\ Same(req[r], q[r])
      /\ req[r].pc \in {"start", "dial", "waitConnect", "waitSlot"}
  BY DEF Inv, UsersGood, Asks
<1>5. Good(r, req'[r]) /\ req'[r].pc = how
  BY <1>1, <1>2, <1>4 DEF Good, Same
<1>6. Accounted(r)
  BY <1>4, <1>5 DEF Accounted
<1>7. active' \in Nat /\ ~Dials(req'[r])
  BY <1>5 DEF Inv, Types, Dials
<1> QED
  BY <1>2, <1>3, <1>5, <1>6, <1>7, AskedInv

LEMMA EnqueueInv ==
  ASSUME Inv, NEW r \in Users, NEW q, NEW l, NEW rd, Asks(r, q, l, rd), Keep(l, rd),
         UNCHANGED <<stopping, gen>>, Enqueue(r, q)
  PROVE  Inv'
<1>1. CASE q[r].cancelled
  BY <1>1, AskedEnds DEF Enqueue
<1>2. CASE ~q[r].cancelled
  <2> DEFINE u == q[r]
             v == [u EXCEPT !.pc = "waitSlot", !.wait = "pending"]
  <2>1. req' = [q EXCEPT ![r] = v] /\ active' = active
    BY <1>2 DEF Enqueue
  <2>2. q \in [Users -> UserRecord] /\ u \in UserRecord /\ Same(req[r], u) /\ Good(r, req[r])
        /\ req[r].pc \in {"start", "dial", "waitConnect", "waitSlot"}
    BY DEF Asks, Inv, UsersGood
  <2> HIDE DEF u
  <2>3. v \in UserRecord /\ v.pc = "waitSlot" /\ v.holds = u.holds /\ v.stream = u.stream
        /\ v.cancelled = u.cancelled
    BY <2>2 DEF UserRecord, Suspended
  <2> HIDE DEF v
  <2>4. req' \in [Users -> UserRecord] /\ req'[r] = v
        /\ \A s \in Users \ {r} : Same(q[s], req'[s])
    BY <2>1, <2>2, <2>3 DEF Same
  <2>5. Good(r, v)
    BY <2>2, <2>3 DEF Good, Same
  <2>6. Accounted(r) /\ active' \in Nat /\ ~Dials(req'[r])
    BY <2>1, <2>2, <2>3, <2>4 DEF Accounted, Inv, Types, Dials
  <2> QED
    BY <2>3, <2>4, <2>5, <2>6, AskedInv
<1> QED
  BY <1>1, <1>2

LEMMA SubmitInv ==
  ASSUME Inv, NEW r \in Users, NEW q, NEW l, NEW rd, Asks(r, q, l, rd), Keep(l, rd),
         UNCHANGED <<stopping, gen>>, Submit(r, q)
  PROVE  Inv'
<1> DEFINE u == q[r]
           w == IF r \in Callbacks THEN "none" ELSE "pending"
           v == [u EXCEPT !.pc = "stream", !.stream = "open", !.holds = TRUE, !.wait = w]
           o == [q EXCEPT ![r] = v]
<1>0. q \in [Users -> UserRecord] /\ u \in UserRecord /\ Same(req[r], u) /\ Good(r, req[r])
      /\ req[r].pc \in {"start", "dial", "waitConnect", "waitSlot"}
  BY DEF Asks, Inv, UsersGood
<1>1. \/ /\ u.cancelled /\ active' = active
         /\ req' = WakeSlot(End(o, r, "orphan"), active, peer)
      \/ ~u.cancelled /\ active' = active + 1 /\ req' = o
  BY DEF Submit
<1>2. w \in {"none", "pending"}
  OBVIOUS
<1> HIDE DEF u, w
<1>3. v \in UserRecord /\ v.pc = "stream" /\ v.holds = TRUE /\ v.stream = "open"
      /\ v.cancelled = u.cancelled
  BY <1>0, <1>2 DEF UserRecord, Suspended
<1> HIDE DEF v
<1>4. o \in [Users -> UserRecord] /\ o[r] = v /\ \A s \in Users \ {r} : o[s] = q[s]
  BY <1>0, <1>3
<1> HIDE DEF o
<1>5. u.cancelled => r \in Requests
  BY <1>0 DEF Good, Same
<1>6. active \in Nat
  BY DEF Inv, Types
<1>7. CASE u.cancelled /\ active' = active /\ req' = WakeSlot(End(o, r, "orphan"), active, peer)
  <2> DEFINE e == End(o, r, "orphan")
  <2>0. "orphan" \in Ended
    BY DEF Ended
  <2>1. /\ e \in [Users -> UserRecord] /\ e[r].pc = "orphan" /\ e[r].holds = FALSE
        /\ \A s \in Users \ {r} : e[s] = o[s]
    <3>1. EndsIn(o, r, "orphan", e)
      BY <1>4, <2>0, EndOne
    <3> HIDE DEF e
    <3> QED
      BY <3>1 DEF EndsIn
  <2> HIDE DEF e
  <2>2. req' \in [Users -> UserRecord] /\ \A s \in Users : Same(e[s], req'[s])
    BY <1>7, <2>1, WakeSlotSame DEF e
  <2>3. \A s \in Users \ {r} : Same(q[s], req'[s])
    BY <1>4, <2>1, <2>2
  <2>4. req'[r].pc = "orphan" /\ ~req'[r].holds
    BY <2>1, <2>2 DEF Same
  <2>5. Good(r, req'[r])
    BY <1>5, <1>7, <2>4 DEF Good
  <2>6. Accounted(r) /\ active' \in Nat /\ ~Dials(req'[r])
    BY <1>0, <1>6, <1>7, <2>4 DEF Accounted, Dials
  <2> QED
    BY <2>2, <2>3, <2>4, <2>5, <2>6, AskedInv
<1>8. CASE ~u.cancelled /\ active' = active + 1 /\ req' = o
  <2>1. req' \in [Users -> UserRecord] /\ req'[r] = v
        /\ \A s \in Users \ {r} : Same(q[s], req'[s])
    BY <1>4, <1>8 DEF Same
  <2>2. Good(r, v)
    BY <1>3, <1>8 DEF Good
  <2>3. Accounted(r) /\ active' \in Nat /\ ~Dials(req'[r])
    BY <1>0, <1>3, <1>6, <1>8, <2>1 DEF Accounted, Dials
  <2> QED
    BY <1>3, <2>1, <2>2, <2>3, AskedInv
<1> QED
  BY <1>1, <1>7, <1>8

LEMMA AdmitInv ==
  ASSUME Inv, NEW r \in Users, NEW q, NEW l, NEW rd, Asks(r, q, l, rd),
         UNCHANGED <<stopping, gen>>, Admit(r, q, l, rd)
  PROVE  Inv'
<1>1. CASE stopping /\ req' = End(q, r, "failed") /\ Keep(l, rd) /\ UNCHANGED <<active, slotQ>>
  BY <1>1, AskedEnds
<1>2. CASE Enqueue(r, q) /\ Keep(l, rd)
  BY <1>2, EnqueueInv
<1>3. CASE CloseConnection(End(q, r, "failed"), "goaway")
  <2> DEFINE e == End(q, r, "failed")
  <2>1. q \in [Users -> UserRecord] /\ "failed" \in Ended /\ Same(req[r], q[r])
        /\ \A s \in Users : Good(s, req[s]) /\ Same(req[s], q[s])
    BY DEF Asks, Ended, Inv, UsersGood
  <2>1a. req[r].pc \in {"start", "dial", "waitConnect", "waitSlot"}
    BY DEF Asks
  <2>2. /\ e \in [Users -> UserRecord] /\ e[r].pc = "failed" /\ e[r].holds = FALSE
        /\ e[r].stream = q[r].stream /\ e[r].cancelled = q[r].cancelled
        /\ \A s \in Users \ {r} : e[s] = q[s]
    <3>1. EndsIn(q, r, "failed", e)
      BY <2>1, EndOne
    <3> HIDE DEF e
    <3> QED
      BY <3>1 DEF EndsIn
  <2> HIDE DEF e
  <2>3. \A s \in Users : Good(s, e[s])
    <3> SUFFICES ASSUME NEW s \in Users PROVE Good(s, e[s])
      OBVIOUS
    <3>1. CASE s = r
      BY <2>1, <2>1a, <2>2, <3>1 DEF Good, Same
    <3>2. CASE s # r
      BY <2>1, <2>2, <3>2 DEF Good, Same
    <3> QED
      BY <3>1, <3>2
  <2>4. LoseConnection(e, reader) /\ session' = FALSE /\ peer' = PeerDefault
        /\ closes' = closes \cup {"goaway"}
    BY <1>3 DEF CloseConnection, e
  <2>5. ~Steady'
    BY <2>4 DEF Steady
  <2>6. stopping' \in BOOLEAN /\ gen' \in Nat /\ peer' \in Nat /\ reader \in [1..MaxGen -> Loop]
    BY <2>4, SessionAssumption DEF Inv, Types
  <2> QED
    BY <2>2, <2>3, <2>4, <2>5, <2>6, LostInv
<1>4. CASE Submit(r, q) /\ Keep(l, rd)
  BY <1>4, SubmitInv
<1>5. CASE SubmitRefused(r, q) /\ Keep(l, rd)
  BY <1>5, AskedEnds DEF SubmitRefused
<1>6. CASE /\ ~session /\ req' = End(q, r, "undefined") /\ Keep(l, rd)
           /\ UNCHANGED <<active, slotQ>>
  <2>1. ~Clean
    BY <1>6 DEF Asks
  <2> QED
    BY <1>6, <2>1, AskedEnds
<1> QED
  BY <1>1, <1>2, <1>3, <1>4, <1>5, <1>6 DEF Admit

LEMMA ProceedInv ==
  ASSUME Inv, NEW r \in Users, NEW q, NEW l, NEW rd, Asks(r, q, l, rd),
         UNCHANGED <<stopping, gen>>, Proceed(r, q, l, rd)
  PROVE  Inv'
BY AdmitInv, AskedEnds DEF Proceed

-----------------------------------------------------------------------------
(* The actions.                                                             *)

LEMMA InitInv == Init => Inv
<1> SUFFICES ASSUME Init PROVE Inv
  OBVIOUS
<1> DEFINE u == [pc |-> "start", wait |-> "none", holds |-> FALSE, stream |-> "none",
                 cancelled |-> FALSE]
<1>1. u \in UserRecord /\ \A r \in Users : Good(r, u)
  BY DEF UserRecord, Suspended, Good
<1>2. req = [r \in Users |-> u] /\ link = "down" /\ active = 0 /\ gen = 0
      /\ socket = FALSE /\ reader = [g \in 1..MaxGen |-> "none"]
      /\ stopping = FALSE /\ goaway = FALSE /\ session = FALSE /\ peer = PeerDefault
  BY DEF Init
<1>3. \A r \in Users : req[r].pc = "start" /\ req[r].holds = FALSE
  BY <1>2
<1> HIDE DEF u
<1>4. Types
  BY <1>1, <1>2, SessionAssumption DEF Types, Loop
<1>5. UsersGood
  BY <1>1, <1>2 DEF UsersGood
<1>6. Holders = {}
  BY <1>3 DEF Holders
<1>7. Cardinality(Holders) = 0
  BY <1>6, FS_EmptySet
<1>8. Loops
  BY <1>2, <1>3 DEF Loops, OneDials, ThenConnecting, Dials, LoopsOf
<1>9. Ready
  BY <1>2, <1>3 DEF Ready, Placed
<1> QED
  BY <1>2, <1>4, <1>5, <1>7, <1>8, <1>9 DEF Inv, NoSlotLeak, Counted

LEMMA SameSelf == ASSUME NEW u PROVE Same(u, u)
BY DEF Same

LEMMA StartConnectedInv ==
  ASSUME Inv, NEW r \in Users, StartConnected(r)
  PROVE  Inv'
<1>1. req[r].pc = "start" /\ link = "up" /\ Proceed(r, req, link, reader)
      /\ UNCHANGED <<stopping, gen>>
  BY DEF StartConnected
<1>2. Asks(r, req, link, reader)
  BY <1>1, SameSelf DEF Asks, Inv, Types, Loops, ThenConnecting, Ready
<1> QED
  BY <1>1, <1>2, ProceedInv

LEMMA StartWaitsInv ==
  ASSUME Inv, NEW r \in Users, StartWaits(r)
  PROVE  Inv'
<1> DEFINE u == req[r]
           v == [u EXCEPT !.pc = "waitConnect", !.wait = "pending"]
<1>1. req' = [req EXCEPT ![r] = v] /\ u.pc = "start"
      /\ UNCHANGED <<link, stopping, goaway, socket, session, gen, closes, active, peer, reader>>
  BY DEF StartWaits
<1>2. u \in UserRecord /\ Good(r, u) /\ req \in [Users -> UserRecord]
  BY DEF Inv, Types, UsersGood
<1> HIDE DEF u
<1>3. v \in UserRecord /\ v.pc = "waitConnect" /\ v.holds = u.holds /\ v.stream = u.stream
      /\ v.cancelled = u.cancelled
  BY <1>2 DEF UserRecord, Suspended
<1> HIDE DEF v
<1>4. req' \in [Users -> UserRecord] /\ req'[r] = v /\ \A s \in Users \ {r} : req'[s] = req[s]
  BY <1>1, <1>2, <1>3
<1>5. Types'
  BY <1>1, <1>4 DEF Inv, Types
<1>6. Good(r, v)
  BY <1>1, <1>2, <1>3 DEF Good
<1>7. UsersGood'
  BY <1>4, <1>6 DEF Inv, UsersGood
<1>8. Accounted(r) /\ ~Dials(req'[r]) /\ req[r].pc # "orphan"
  BY <1>1, <1>3, <1>4 DEF Accounted, Dials, u
<1>9. Steady => LoopsOf(link', reader', gen')
                /\ \A s \in Users \ {r} : Dials(req[s]) => link' = "connecting"
  BY <1>1 DEF Inv, Loops, ThenConnecting
<1>10. Clean =>
         /\ link' # "down" => session'
         /\ link' = "down" => ~socket'
         /\ Placed(req'[r], link', socket')
         /\ \A s \in Users \ {r} : Placed(req[s], link', socket')
  BY <1>1, <1>3, <1>4 DEF Inv, Ready, Placed
<1> QED
  BY <1>1, <1>4, <1>5, <1>7, <1>8, <1>9, <1>10, MoveInv

LEMMA StartConnectsInv ==
  ASSUME Inv, NEW r \in Users, StartConnects(r)
  PROVE  Inv'
<1> DEFINE u == req[r]
           v == [u EXCEPT !.pc = "resolve"]
<1>1. req' = [req EXCEPT ![r] = v] /\ u.pc = "start" /\ link = "down" /\ gen' = gen + 1
      /\ link' = "connecting" /\ session' = TRUE
      /\ UNCHANGED <<stopping, goaway, socket, closes, active, peer, reader>>
  BY DEF StartConnects
<1>2. u \in UserRecord /\ Good(r, u) /\ req \in [Users -> UserRecord] /\ gen \in Nat
  BY DEF Inv, Types, UsersGood
<1> HIDE DEF u
<1>3. v \in UserRecord /\ v.pc = "resolve" /\ v.holds = u.holds /\ v.stream = u.stream
      /\ v.cancelled = u.cancelled
  BY <1>2 DEF UserRecord, Suspended
<1> HIDE DEF v
<1>4. req' \in [Users -> UserRecord] /\ req'[r] = v /\ \A s \in Users \ {r} : req'[s] = req[s]
  BY <1>1, <1>2, <1>3
<1>5. Types'
  BY <1>1, <1>2, <1>4 DEF Inv, Types
<1>6. Good(r, v)
  BY <1>1, <1>2, <1>3 DEF Good
<1>7. UsersGood'
  BY <1>4, <1>6 DEF Inv, UsersGood
<1>8. Accounted(r) /\ req[r].pc # "orphan"
  BY <1>1, <1>3, <1>4 DEF Accounted, u
<1>9. Steady => \A s \in Users : ~Dials(req[s])
  BY <1>1 DEF Inv, Loops, ThenConnecting
<1>10. Steady => LoopsOf(link', reader', gen')
  BY <1>1, <1>2 DEF Inv, Loops, LoopsOf
<1>11. Clean =>
         /\ link' # "down" => session'
         /\ link' = "down" => ~socket'
         /\ Placed(req'[r], link', socket')
         /\ \A s \in Users \ {r} : Placed(req[s], link', socket')
  BY <1>1, <1>3, <1>4 DEF Inv, Ready, Placed
<1> QED
  BY <1>1, <1>4, <1>5, <1>7, <1>8, <1>9, <1>10, <1>11, MoveInv

LEMMA ResolvedInv ==
  ASSUME Inv, NEW r \in Users, Resolved(r)
  PROVE  Inv'
<1> DEFINE u == req[r]
           to == IF socket THEN "undefined" ELSE "dial"
           v == [u EXCEPT !.pc = to]
<1>1. req' = [req EXCEPT ![r] = v] /\ u.pc = "resolve" /\ socket' = TRUE
      /\ UNCHANGED <<link, stopping, goaway, session, gen, closes, active, peer, reader>>
  BY DEF Resolved
<1>2. u \in UserRecord /\ Good(r, u) /\ req \in [Users -> UserRecord]
  BY DEF Inv, Types, UsersGood
<1>2a. to \in {"undefined", "dial"} /\ (to = "undefined" => socket)
  OBVIOUS
<1> HIDE DEF u, to
<1>3. v \in UserRecord /\ v.pc = to /\ v.holds = u.holds /\ v.stream = u.stream
      /\ v.cancelled = u.cancelled
  BY <1>2, <1>2a DEF UserRecord, Suspended, Ended
<1> HIDE DEF v
<1>4. req' \in [Users -> UserRecord] /\ req'[r] = v /\ \A s \in Users \ {r} : req'[s] = req[s]
  BY <1>1, <1>2, <1>3
<1>5. Types'
  BY <1>1, <1>4 DEF Inv, Types
<1>6. Good(r, v)
  BY <1>1, <1>2, <1>2a, <1>3 DEF Good
<1>7. UsersGood'
  BY <1>4, <1>6 DEF Inv, UsersGood
<1>8. Accounted(r) /\ req[r].pc # "orphan" /\ Dials(req[r])
  BY <1>1, <1>2a, <1>3, <1>4 DEF Accounted, u, Dials
<1>9. Steady => link = "connecting" /\ \A s \in Users \ {r} : ~Dials(req[s])
  BY <1>8 DEF Inv, Loops, ThenConnecting, OneDials
<1>10. Steady => LoopsOf(link', reader', gen')
  BY <1>1 DEF Inv, Loops
<1>11. Clean =>
         /\ link' # "down" => session'
         /\ link' = "down" => ~socket'
         /\ Placed(req'[r], link', socket')
         /\ \A s \in Users \ {r} : Placed(req[s], link', socket')
  <2> SUFFICES ASSUME Clean
               PROVE  /\ link' # "down" => session'
                      /\ link' = "down" => ~socket'
                      /\ Placed(req'[r], link', socket')
                      /\ \A s \in Users \ {r} : Placed(req[s], link', socket')
    OBVIOUS
  <2>1. Steady
    BY DEF Clean, Steady
  <2>2. ~socket /\ to = "dial"
    BY <1>1, <1>2a DEF Inv, Ready, Placed, u
  <2>3. \A s \in Users \ {r} : req[s].pc # "resolve"
    BY <1>9, <2>1 DEF Dials
  <2> QED
    BY <1>1, <1>3, <1>4, <1>9, <2>1, <2>2, <2>3 DEF Inv, Ready, Placed
<1> QED
  BY <1>1, <1>4, <1>5, <1>7, <1>8, <1>9, <1>10, <1>11, MoveInv

LEMMA ConnectOkInv ==
  ASSUME Inv, NEW r \in Users, ConnectOk(r)
  PROVE  Inv'
<1>1. req[r].pc = "dial" /\ UNCHANGED <<stopping, gen>>
  BY DEF ConnectOk
<1>2. req \in [Users -> UserRecord] /\ reader \in [1..MaxGen -> Loop] /\ Dials(req[r])
  BY <1>1 DEF Inv, Types, Dials
<1>3. Steady => /\ link = "connecting" /\ LoopsOf(link, reader, gen)
                /\ \A s \in Users \ {r} : ~Dials(req[s])
  BY <1>2 DEF Inv, Loops, ThenConnecting, OneDials
<1>4. Clean => session
  BY <1>3 DEF Inv, Ready, Clean, Steady
<1>5. CASE session
  <2> DEFINE rd == IF stopping THEN reader ELSE [reader EXCEPT ![gen] = "reading"]
  <2>1. Proceed(r, WakeConnect(req), "up", rd)
    BY <1>5 DEF ConnectOk
  <2>2. rd \in [1..MaxGen -> Loop]
    BY <1>2 DEF Loop
  <2>3. Steady => LoopsOf("up", rd, gen)
    BY <1>2, <1>3 DEF LoopsOf
  <2> HIDE DEF rd
  <2>4. Asks(r, WakeConnect(req), "up", rd)
    BY <1>1, <1>2, <1>3, <1>5, <2>2, <2>3, WakeConnectSame DEF Asks
  <2> QED
    BY <1>1, <2>1, <2>4, ProceedInv
<1>6. CASE ~session
  <2>1. req' = End(req, r, "undefined") /\ Keep("up", reader) /\ UNCHANGED active
    BY <1>6 DEF ConnectOk
  <2>2. Steady => LoopsOf("up", reader, gen)
    BY <1>3 DEF LoopsOf
  <2>3. Asks(r, req, "up", reader)
    BY <1>1, <1>2, <1>3, <1>4, <2>2, SameSelf DEF Asks
  <2> QED
    BY <1>1, <1>4, <1>6, <2>1, <2>3, AskedEnds
<1> QED
  BY <1>5, <1>6

LEMMA ConnectFailsInv ==
  ASSUME Inv, NEW r \in Users, ConnectFails(r)
  PROVE  Inv'
<1> DEFINE e == End(req, r, "failed")
           q == WakeConnect(e)
<1>1. /\ Dials(req[r]) /\ UNCHANGED <<stopping, gen>> /\ LoseConnection(q, reader)
      /\ session' = FALSE /\ peer' = PeerDefault /\ closes' = closes \cup {"failure"}
  BY DEF ConnectFails, CloseConnection, Dials
<1>2. req \in [Users -> UserRecord] /\ reader \in [1..MaxGen -> Loop] /\ "failed" \in Ended
      /\ \A s \in Users : Good(s, req[s])
  BY DEF Inv, Types, Ended, UsersGood
<1>3. EndsIn(req, r, "failed", e)
  BY <1>2, EndOne
<1> HIDE DEF e
<1>4. e \in [Users -> UserRecord]
  BY <1>3 DEF EndsIn
<1>5. q \in [Users -> UserRecord] /\ \A s \in Users : Same(e[s], q[s])
  BY <1>4, WakeConnectSame
<1> HIDE DEF q
<1>7. \A s \in Users : Good(s, q[s]) /\ (s # r => q[s].pc = req[s].pc)
                       /\ (s = r => q[s].pc = "failed")
  <2> SUFFICES ASSUME NEW s \in Users
               PROVE Good(s, q[s]) /\ (s # r => q[s].pc = req[s].pc) /\ (s = r => q[s].pc = "failed")
    OBVIOUS
  <2>1. CASE s = r
    BY <1>1, <1>2, <1>3, <1>5, <2>1 DEF EndsIn, Good, Same, Dials
  <2>2. CASE s # r
    BY <1>2, <1>3, <1>5, <2>2 DEF EndsIn, Good, Same
  <2> QED
    BY <2>1, <2>2
<1>8. /\ link' = "down" /\ socket' = FALSE /\ goaway' = FALSE /\ active' = 0
      /\ req' \in [Users -> UserRecord] /\ reader' \in [1..MaxGen -> Loop]
      /\ UsersGood' /\ NoSlotLeak'
      /\ \A s \in Users : \/ req'[s].pc = q[s].pc
                          \/ q[s].pc = "dial" /\ req'[s].pc = "cutDial"
                          \/ q[s].pc = "stream" /\ req'[s].pc = "failed"
      /\ \A g \in 1..MaxGen : reader[g] = "none" => reader'[g] = "none"
  BY <1>1, <1>2, <1>5, <1>7, LostEffect
<1>9. Types'
  BY <1>1, <1>8, SessionAssumption DEF Inv, Types
<1>10. Steady' = Steady /\ Clean' = Clean
  BY <1>1 DEF Steady, Clean
<1>11. Steady => /\ link = "connecting" /\ LoopsOf(link, reader, gen)
                 /\ \A s \in Users \ {r} : ~Dials(req[s])
  BY <1>1 DEF Inv, Loops, ThenConnecting, OneDials
<1>12. Steady => \A s \in Users : ~Dials(req'[s])
  BY <1>7, <1>8, <1>11 DEF Dials
<1>13. Loops'
  <2>1. Steady => LoopsOf(link, reader, gen)'
    BY <1>1, <1>8, <1>11 DEF LoopsOf
  <2> QED
    BY <1>10, <1>12, <2>1 DEF Loops, OneDials, ThenConnecting
<1>14. Clean => \A s \in Users : req'[s].pc \notin {"undefined", "waitSlot", "stream", "orphan"}
  <2>1. Clean => link = "connecting"
    BY <1>11 DEF Clean, Steady
  <2>2. Clean => \A s \in Users : req[s].pc \notin {"undefined", "waitSlot", "stream", "orphan"}
    BY <2>1 DEF Inv, Ready, Placed
  <2> QED
    BY <1>7, <1>8, <2>2
<1>15. Ready'
  BY <1>8, <1>10, <1>14 DEF Ready, Placed
<1>16. Counted'
  <2>1. Clean => Holders' = {}
    BY <1>8, <1>14 DEF Holders, UsersGood, Good
  <2> QED
    BY <1>8, <1>10, <2>1, FS_EmptySet DEF Counted
<1> QED
  BY <1>8, <1>9, <1>13, <1>15, <1>16 DEF Inv

\* r stops waiting and ends.
LEMMA LeavesInv ==
  ASSUME Inv, NEW r \in Users, req[r].pc \in {"waitConnect", "waitSlot"},
         NEW how \in {"failed", "timeout"}, req' = End(req, r, how),
         UNCHANGED <<link, stopping, goaway, socket, session, gen, closes, active, peer, reader>>
  PROVE  Inv'
<1>1. req \in [Users -> UserRecord] /\ how \in Ended /\ Good(r, req[r])
  BY DEF Inv, Types, Ended, UsersGood
<1>2. EndsIn(req, r, how, req')
  BY <1>1, EndOne
<1>3. /\ req' \in [Users -> UserRecord] /\ req'[r].pc = how /\ req'[r].holds = FALSE
      /\ req'[r].stream = req[r].stream /\ req'[r].cancelled = req[r].cancelled
      /\ \A s \in Users \ {r} : req'[s] = req[s]
  BY <1>2 DEF EndsIn
<1>4. Types'
  BY <1>3 DEF Inv, Types
<1>5. Good(r, req'[r])
  BY <1>1, <1>3 DEF Good
<1>6. UsersGood'
  BY <1>3, <1>5 DEF Inv, UsersGood
<1>7. Accounted(r) /\ req[r].pc # "orphan" /\ ~Dials(req'[r])
  BY <1>3 DEF Accounted, Dials
<1>8. Steady => /\ LoopsOf(link', reader', gen')
                /\ \A s \in Users \ {r} : Dials(req[s]) => link' = "connecting"
  BY DEF Inv, Loops, ThenConnecting
<1>9. Clean =>
        /\ link' # "down" => session'
        /\ link' = "down" => ~socket'
        /\ Placed(req'[r], link', socket')
        /\ \A s \in Users \ {r} : Placed(req[s], link', socket')
  BY <1>3 DEF Inv, Ready, Placed
<1> QED
  BY <1>3, <1>4, <1>6, <1>7, <1>8, <1>9, MoveInv

LEMMA ConnectWaiterInv ==
  ASSUME Inv, NEW r \in Users, ConnectWaiterResumes(r)
  PROVE  Inv'
<1>1. req[r].pc = "waitConnect" /\ UNCHANGED <<stopping, gen>>
  BY DEF ConnectWaiterResumes
<1>2. CASE link = "up"
  <2>1. Proceed(r, req, link, reader)
    BY <1>2 DEF ConnectWaiterResumes
  <2>2. Asks(r, req, link, reader)
    BY <1>1, <1>2, SameSelf DEF Asks, Inv, Types, Loops, ThenConnecting, Ready
  <2> QED
    BY <1>1, <2>1, <2>2, ProceedInv
<1>3. CASE link # "up"
  <2>1. req' = End(req, r, "failed")
        /\ UNCHANGED <<link, goaway, socket, session, closes, active, peer, reader>>
    BY <1>3 DEF ConnectWaiterResumes, Keep
  <2> QED
    BY <1>1, <2>1, LeavesInv
<1> QED
  BY <1>2, <1>3

LEMMA SlotWaiterInv ==
  ASSUME Inv, NEW r \in Users, SlotWaiterResumes(r)
  PROVE  Inv'
<1>1. req[r].pc = "waitSlot" /\ Admit(r, req, link, reader) /\ UNCHANGED <<stopping, gen>>
  BY DEF SlotWaiterResumes
<1>2. Clean => link = "up" /\ session
  BY <1>1 DEF Inv, Ready, Placed
<1>3. Asks(r, req, link, reader)
  BY <1>1, <1>2, SameSelf DEF Asks, Inv, Types, Loops, ThenConnecting
<1> QED
  BY <1>1, <1>3, AdmitInv

\* A slot comes back with the end of its stream.
LEMMA ReleaseInv ==
  ASSUME Inv, NEW r \in Users, req[r].pc = "stream", NEW how \in {"ok", "failed"},
         ReleaseSlot([End(req, r, how) EXCEPT ![r].stream = "none"]),
         UNCHANGED <<link, stopping, goaway, socket, session, gen, closes, peer, reader>>
  PROVE  Inv'
<1> DEFINE e == End(req, r, how)
           u == e[r]
           v == [u EXCEPT !.stream = "none"]
           f == [e EXCEPT ![r] = v]
<1>1. req \in [Users -> UserRecord] /\ how \in Ended /\ Good(r, req[r]) /\ active \in Nat
  BY DEF Inv, Types, Ended, UsersGood
<1>2. EndsIn(req, r, how, e)
  BY <1>1, EndOne
<1>3. active' = Dec(active) /\ req' = WakeSlot(f, Dec(active), peer)
  BY DEF ReleaseSlot
<1> HIDE DEF e
<1>4. e \in [Users -> UserRecord] /\ u \in UserRecord /\ u.pc = how /\ u.holds = FALSE
      /\ u.cancelled = req[r].cancelled /\ \A s \in Users \ {r} : e[s] = req[s]
  BY <1>2 DEF EndsIn
<1> HIDE DEF u
<1>5. v \in UserRecord /\ v.pc = u.pc /\ v.holds = u.holds /\ v.stream = "none"
      /\ v.cancelled = u.cancelled
  BY <1>4 DEF UserRecord
<1> HIDE DEF v
<1>6. f \in [Users -> UserRecord] /\ f[r] = v /\ \A s \in Users \ {r} : f[s] = req[s]
  BY <1>4, <1>5
<1> HIDE DEF f
<1>7. req' \in [Users -> UserRecord] /\ \A s \in Users : Same(f[s], req'[s])
  BY <1>3, <1>6, WakeSlotSame
<1>8. Good(r, v)
  BY <1>1, <1>4, <1>5 DEF Good
<1>9. UsersGood'
  <2> SUFFICES ASSUME NEW s \in Users PROVE Good(s, req'[s])
    BY DEF UsersGood
  <2>1. Good(s, f[s])
    BY <1>6, <1>8 DEF Inv, UsersGood
  <2> QED
    BY <1>7, <2>1 DEF Good, Same
<1>10. req'[r].pc = how /\ \A s \in Users \ {r} : req'[s].pc = req[s].pc
  BY <1>4, <1>5, <1>6, <1>7 DEF Same
<1>11. Types'
  BY <1>1, <1>3, <1>7 DEF Inv, Types, Dec
<1>12. Accounted(r) /\ ~Dials(req'[r])
  BY <1>3, <1>10 DEF Accounted, Dials
<1>13. Steady => /\ LoopsOf(link', reader', gen')
                 /\ \A s \in Users \ {r} : Dials(req[s]) => link' = "connecting"
  BY DEF Inv, Loops, ThenConnecting
<1>14. Clean =>
         /\ link' # "down" => session'
         /\ link' = "down" => ~socket'
         /\ Placed(req'[r], link', socket')
         /\ \A s \in Users \ {r} : Placed(req[s], link', socket')
  BY <1>10 DEF Inv, Ready, Placed
<1> QED
  BY <1>9, <1>10, <1>11, <1>12, <1>13, <1>14, MoveInv

LEMMA StreamWaiterInv ==
  ASSUME Inv, NEW r \in Users, StreamWaiterResumes(r)
  PROVE  Inv'
<1> DEFINE how == IF req[r].wait = "woken" THEN "ok" ELSE "failed"
<1>1. how \in {"ok", "failed"}
  OBVIOUS
<1>2. req[r].pc = "stream" /\ ReleaseSlot([End(req, r, how) EXCEPT ![r].stream = "none"])
      /\ UNCHANGED <<link, stopping, goaway, socket, session, gen, closes, peer, reader>>
  BY DEF StreamWaiterResumes
<1> HIDE DEF how
<1> QED
  BY <1>1, <1>2, ReleaseInv

\* r learns something, and stays where it is.
LEMMA LearnsInv ==
  ASSUME Inv, NEW r \in Users, NEW v \in UserRecord, v.pc = req[r].pc, Good(r, v),
         req' = [req EXCEPT ![r] = v],
         UNCHANGED <<link, stopping, goaway, socket, session, gen, closes, active, peer, reader>>
  PROVE  Inv'
<1>1. req \in [Users -> UserRecord]
  BY DEF Inv, Types
<1>2. req' \in [Users -> UserRecord] /\ req'[r] = v /\ \A s \in Users \ {r} : req'[s] = req[s]
  BY <1>1
<1>3. Types'
  BY <1>2 DEF Inv, Types
<1>4. UsersGood'
  BY <1>2 DEF Inv, UsersGood
<1>5. \A s \in Users : req'[s].pc = req[s].pc
  BY <1>2
<1>6. Steady => LoopsOf(link, reader', gen)
  BY DEF Inv, Loops
<1> QED
  BY <1>3, <1>4, <1>5, <1>6, QuietInv

LEMMA PoolTimerInv ==
  ASSUME Inv, NEW r \in Users, PoolTimerFires(r)
  PROVE  Inv'
<1> DEFINE u == req[r]
           v == [u EXCEPT !.wait = "fired"]
<1>1. req' = [req EXCEPT ![r] = v]
      /\ UNCHANGED <<link, stopping, goaway, socket, session, gen, closes, active, peer, reader>>
  BY DEF PoolTimerFires
<1>2. u \in UserRecord /\ Good(r, u)
  BY DEF Inv, Types, UsersGood
<1> HIDE DEF u
<1>3. v \in UserRecord /\ v.pc = u.pc /\ Good(r, v)
  BY <1>2 DEF UserRecord, Good
<1> HIDE DEF v
<1> QED
  BY <1>1, <1>3, LearnsInv DEF u

LEMMA CancelInv ==
  ASSUME Inv, NEW r \in Users, Cancel(r)
  PROVE  Inv'
<1> DEFINE u == req[r]
           w == IF u.wait = "pending" THEN "aborted" ELSE u.wait
           v == [u EXCEPT !.cancelled = TRUE, !.wait = w]
<1>1. req' = [req EXCEPT ![r] = v] /\ r \in Requests
      /\ UNCHANGED <<link, stopping, goaway, socket, session, gen, closes, active, peer, reader>>
  BY SessionAssumption DEF Cancel
<1>2. u \in UserRecord /\ Good(r, u)
  BY DEF Inv, Types, UsersGood
<1> HIDE DEF u
<1>3. w \in {"none", "pending", "woken", "fired", "aborted"}
  BY <1>2 DEF UserRecord
<1> HIDE DEF w
<1>4. v \in UserRecord /\ v.pc = u.pc /\ v.holds = u.holds /\ v.stream = u.stream
  BY <1>2, <1>3 DEF UserRecord
<1> HIDE DEF v
<1>5. Good(r, v)
  BY <1>1, <1>2, <1>4 DEF Good
<1> QED
  BY <1>1, <1>4, <1>5, LearnsInv DEF u

LEMMA CompleteStreamInv ==
  ASSUME Inv, NEW r \in Users, req[r].stream = "open", CompleteStream(r)
  PROVE  Inv'
<1>0. Good(r, req[r]) /\ req[r] \in UserRecord
      /\ UNCHANGED <<link, stopping, goaway, socket, session, gen, closes, peer, reader>>
  BY DEF Inv, Types, UsersGood, CompleteStream
<1>1. CASE r \in Callbacks
  <2>1. req[r].pc = "stream"
    BY <1>0, <1>1, SessionAssumption DEF Good
  <2>2. ReleaseSlot([End(req, r, "ok") EXCEPT ![r].stream = "none"])
    BY <1>1 DEF CompleteStream
  <2> QED
    BY <1>0, <2>1, <2>2, ReleaseInv
<1>2. CASE r \notin Callbacks
  <2> DEFINE u == Woken(req[r])
             v == [u EXCEPT !.stream = "done"]
  <2>1. req' = [req EXCEPT ![r] = v] /\ UNCHANGED active
    BY <1>2 DEF CompleteStream
  <2>2. u \in UserRecord /\ Same(req[r], u)
    BY <1>0, WokenSame
  <2> HIDE DEF u
  <2>3. v \in UserRecord /\ v.pc = u.pc /\ v.holds = u.holds /\ v.stream = "done"
        /\ v.cancelled = u.cancelled
    BY <2>2 DEF UserRecord
  <2> HIDE DEF v
  <2>4. Good(r, v) /\ v.pc = req[r].pc
    BY <1>0, <2>2, <2>3 DEF Good, Same
  <2> QED
    BY <1>0, <2>1, <2>3, <2>4, LearnsInv
<1> QED
  BY <1>1, <1>2

LEMMA SettingsInv ==
  ASSUME Inv, NEW p \in PeerLimits, Settings(p)
  PROVE  Inv'
<1>1. req \in [Users -> UserRecord] /\ req' = WakeSlot(req, active, peer')
      /\ peer' = AtLeastOne(p)
      /\ UNCHANGED <<link, stopping, goaway, socket, session, gen, closes, active, reader>>
  BY DEF Inv, Types, Settings
<1>2. req' \in [Users -> UserRecord] /\ \A s \in Users : Same(req[s], req'[s])
  BY <1>1, WakeSlotSame
<1>3. peer' \in Nat
  BY <1>1, SessionAssumption DEF AtLeastOne
<1>4. Types'
  BY <1>1, <1>2, <1>3 DEF Inv, Types
<1>5. UsersGood'
  BY <1>2 DEF Inv, UsersGood, Good, Same
<1>6. Steady => LoopsOf(link, reader', gen)
  BY <1>1 DEF Inv, Loops
<1> QED
  BY <1>1, <1>2, <1>4, <1>5, <1>6, QuietInv DEF Same

LEMMA GoawayInv ==
  ASSUME Inv, Goaway
  PROVE  Inv'
<1>1. goaway' = TRUE /\ req' = req
      /\ UNCHANGED <<link, stopping, socket, session, gen, closes, active, peer, reader>>
  BY DEF Goaway
<1>2. Types' /\ UsersGood'
  BY <1>1 DEF Inv, Types, UsersGood
<1>3. Steady => LoopsOf(link, reader', gen)
  BY <1>1 DEF Inv, Loops
<1> QED
  BY <1>1, <1>2, <1>3, QuietInv

LEMMA ReadEndsInv ==
  ASSUME Inv, NEW how \in {"eof", "none"}, ReadEnds(how)
  PROVE  Inv'
<1>1. reader' = [reader EXCEPT ![gen] = how] /\ req' = req /\ link = "up"
      /\ UNCHANGED <<link, stopping, goaway, socket, session, gen, closes, active, peer>>
  BY DEF ReadEnds, Reading
<1>2. reader \in [1..MaxGen -> Loop]
  BY DEF Inv, Types
<1>3. reader' \in [1..MaxGen -> Loop]
  BY <1>1, <1>2 DEF Loop
<1>4. Types' /\ UsersGood'
  BY <1>1, <1>3 DEF Inv, Types, UsersGood
<1>5. Steady => LoopsOf(link, reader', gen)
  BY <1>1, <1>2 DEF Inv, Loops, LoopsOf
<1> QED
  BY <1>1, <1>4, <1>5, QuietInv

LEMMA ShutdownNowInv ==
  ASSUME Inv, NEW rd \in [1..MaxGen -> Loop], ShutdownNow(rd)
  PROVE  Inv'
<1>1. stopping' = TRUE /\ UNCHANGED <<session, peer, closes, gen>>
  BY DEF ShutdownNow
<1>2. CASE stopping /\ ~socket
  <2>1. reader' = rd /\ UNCHANGED <<link, goaway, socket, active, req>>
    BY <1>2 DEF ShutdownNow
  <2>2. Types' /\ UsersGood'
    BY <1>1, <2>1 DEF Inv, Types, UsersGood
  <2>3. ~Steady /\ stopping' = stopping
    BY <1>1, <1>2 DEF Steady, Inv, Types
  <2> QED
    BY <1>1, <2>1, <2>2, <2>3, QuietInv
<1>3. CASE ~(stopping /\ ~socket)
  <2>1. LoseConnection(req, rd)
    BY <1>3 DEF ShutdownNow
  <2>2. req \in [Users -> UserRecord] /\ \A s \in Users : Good(s, req[s])
    BY DEF Inv, Types, UsersGood
  <2>3. ~Steady' /\ stopping' \in BOOLEAN /\ session' \in BOOLEAN /\ peer' \in Nat /\ gen' \in Nat
    BY <1>1 DEF Steady, Inv, Types
  <2> QED
    BY <2>1, <2>2, <2>3, LostInv
<1> QED
  BY <1>2, <1>3

LEMMA ReaderResumesInv ==
  ASSUME Inv, NEW g \in 1..MaxGen, ReaderResumes(g)
  PROVE  Inv'
<1> DEFINE rest == [reader EXCEPT ![g] = "none"]
<1>1. reader \in [1..MaxGen -> Loop]
  BY DEF Inv, Types
<1>2. rest \in [1..MaxGen -> Loop]
  BY <1>1 DEF Loop
<1>3. CASE reader[g] = "cut" /\ g # gen
  <2>1. reader' = rest /\ req' = req
        /\ UNCHANGED <<link, stopping, goaway, socket, session, gen, closes, active, peer>>
    BY <1>3 DEF ReaderResumes
  <2>2. Types' /\ UsersGood'
    BY <1>2, <2>1 DEF Inv, Types, UsersGood
  <2>3. Steady => LoopsOf(link, reader', gen)
    BY <1>1, <2>1 DEF Inv, Loops, LoopsOf
  <2> QED
    BY <2>1, <2>2, <2>3, QuietInv
<1>4. CASE ~(reader[g] = "cut" /\ g # gen)
  <2>1. ShutdownNow(rest)
    BY <1>4 DEF ReaderResumes
  <2> HIDE DEF rest
  <2> QED
    BY <1>2, <2>1, ShutdownNowInv
<1> QED
  BY <1>3, <1>4

LEMMA ShutdownInv ==
  ASSUME Inv, Shutdown
  PROVE  Inv'
BY ShutdownNowInv DEF Shutdown, Inv, Types

LEMMA RequestShutdownInv ==
  ASSUME Inv, RequestShutdown
  PROVE  Inv'
<1>1. req' = req
      /\ UNCHANGED <<link, stopping, goaway, socket, session, gen, closes, active, peer, reader>>
  BY DEF RequestShutdown
<1>2. Types' /\ UsersGood'
  BY <1>1 DEF Inv, Types, UsersGood
<1>3. Steady => LoopsOf(link, reader', gen)
  BY <1>1 DEF Inv, Loops
<1> QED
  BY <1>1, <1>2, <1>3, QuietInv

\* The session is idle, so nobody connects, and the read loop is of an older generation
\* from now on.
LEMMA ResetInv ==
  ASSUME Inv, ResetIfIdle
  PROVE  Inv'
<1>1. /\ link # "connecting" /\ gen' = gen + 1 /\ LoseConnection(req, reader)
      /\ session' = FALSE /\ peer' = PeerDefault /\ closes' = closes \cup {"reset"}
      /\ UNCHANGED stopping
  BY DEF ResetIfIdle, SessionIdle, CloseConnection
<1>2. req \in [Users -> UserRecord] /\ reader \in [1..MaxGen -> Loop] /\ gen \in Nat
      /\ \A s \in Users : Good(s, req[s])
  BY DEF Inv, Types, UsersGood
<1>3. /\ link' = "down" /\ socket' = FALSE /\ goaway' = FALSE /\ active' = 0
      /\ req' \in [Users -> UserRecord] /\ reader' \in [1..MaxGen -> Loop]
      /\ UsersGood' /\ NoSlotLeak'
      /\ \A s \in Users : \/ req'[s].pc = req[s].pc
                          \/ req[s].pc = "dial" /\ req'[s].pc = "cutDial"
                          \/ req[s].pc = "stream" /\ req'[s].pc = "failed"
      /\ \A g \in 1..MaxGen : reader[g] = "none" => reader'[g] = "none"
  BY <1>1, <1>2, LostEffect
<1>4. Types'
  <2>1. stopping' \in BOOLEAN /\ gen' \in Nat /\ peer' \in Nat
    BY <1>1, <1>2, SessionAssumption DEF Inv, Types
  <2> QED
    BY <1>1, <1>3, <2>1 DEF Types
<1>5. Steady' = Steady /\ ~Clean'
  BY <1>1 DEF Steady, Clean
<1>6. Steady => \A s \in Users : ~Dials(req[s])
  BY <1>1 DEF Inv, Loops, ThenConnecting
<1>7. Steady => \A s \in Users : ~Dials(req'[s])
  BY <1>3, <1>6 DEF Dials
<1>8. Steady => LoopsOf(link, reader, gen)'
  BY <1>1, <1>2, <1>3 DEF Inv, Loops, LoopsOf
<1>9. Loops'
  BY <1>5, <1>7, <1>8 DEF Loops, OneDials, ThenConnecting
<1> QED
  BY <1>3, <1>4, <1>5, <1>9 DEF Inv, Ready, Counted

-----------------------------------------------------------------------------
LEMMA NextInv ==
  ASSUME Inv, [Next]_vars
  PROVE  Inv'
<1>1. ASSUME NEW r \in Users, Start(r) PROVE Inv'
  BY <1>1, StartConnectedInv, StartWaitsInv, StartConnectsInv DEF Start
<1>2. ASSUME NEW r \in Users, Connect(r) PROVE Inv'
  BY <1>2, ResolvedInv, ConnectOkInv, ConnectFailsInv DEF Connect
<1>3. ASSUME NEW r \in Users, Resumes(r) PROVE Inv'
  <2>1. CASE SlotTimeout(r)
    BY <2>1, LeavesInv DEF SlotTimeout
  <2>2. CASE WaitCancelled(r)
    BY <2>2, LeavesInv DEF WaitCancelled
  <2> QED
    BY <1>3, <2>1, <2>2, ConnectWaiterInv, SlotWaiterInv, StreamWaiterInv DEF Resumes
<1>4. ASSUME NEW r \in Users, StreamEnds(r) \/ StreamExpires(r) PROVE Inv'
  BY <1>4, CompleteStreamInv DEF StreamEnds, StreamExpires
<1>5. CASE UNCHANGED vars
  <2>1. req' = req
        /\ UNCHANGED <<link, stopping, goaway, socket, session, gen, closes, active, peer, reader>>
    BY <1>5 DEF vars
  <2>2. Types' /\ UsersGood'
    BY <2>1 DEF Inv, Types, UsersGood
  <2>3. Steady => LoopsOf(link, reader', gen)
    BY <2>1 DEF Inv, Loops
  <2> QED
    BY <2>1, <2>2, <2>3, QuietInv
<1> QED
  BY <1>1, <1>2, <1>3, <1>4, <1>5, PoolTimerInv, CancelInv, SettingsInv, GoawayInv, ReadEndsInv,
     ReaderResumesInv, RequestShutdownInv, ShutdownInv, ResetInv DEF Next

\* The invariant of a session, for any number of requests and any limits.
THEOREM SessionInvariant == Spec => []Inv
<1>1. Init => Inv
  BY InitInv
<1>2. Inv /\ [Next]_vars => Inv'
  BY NextInv
<1> QED
  BY <1>1, <1>2, PTL DEF Spec

\* No slot is leaked: active_streams_ never counts more than the slots that are held and
\* so given back, though the losses of a connection set it to zero under their holders.
THEOREM SlotsAreGivenBack == Spec => []NoSlotLeak
<1>1. Inv => NoSlotLeak
  BY DEF Inv
<1> QED
  BY <1>1, SessionInvariant, PTL

\* A null session_, or a stream_ that another connect replaced, is used only after GOAWAY
\* or a reset has closed the connection, or when the session stops.
THEOREM SessionIsThere == Spec => []SessionThereWhenUsed
<1>1. Inv => SessionThereWhenUsed
  BY DEF Inv, SessionThereWhenUsed, Ready, Clean, Placed
<1> QED
  BY <1>1, SessionInvariant, PTL

-----------------------------------------------------------------------------
(* How streams open.                                                        *)

\* No stream opens between q and f.
OpensNone(q, f) == \A s \in Users : f[s].stream = "open" => q[s].stream = "open"

\* A stream opens by submit_stream, within the limit; its slot is counted, unless
\* its request was cancelled and leaves the stream behind.
OpensOne ==
  /\ ~stopping /\ active < StreamLimit(peer) /\ peer' = peer /\ closes' = closes
  /\ active' = active + 1 \/ ~NoOrphan'

LEMMA EndOpensNone ==
  ASSUME NEW q \in [Users -> UserRecord], NEW r \in Users, NEW how \in Ended
  PROVE  OpensNone(q, End(q, r, how))
<1>1. EndsIn(q, r, how, End(q, r, how))
  BY EndOne
<1> QED
  BY <1>1 DEF EndsIn, OpensNone

LEMMA SameOpensNone ==
  ASSUME NEW q, NEW f, \A s \in Users : Same(q[s], f[s])
  PROVE  OpensNone(q, f)
BY DEF OpensNone, Same

LEMMA LostOpensNone ==
  ASSUME NEW q \in [Users -> UserRecord], \A s \in Users : Good(s, q[s]), NEW rd,
         LoseConnection(q, rd)
  PROVE  OpensNone(req, req')
<1>1. req' = Drop(q)
  BY DEF LoseConnection
<1> QED
  BY <1>1, DropEffect DEF OpensNone

LEMMA OpensNoneTransitive ==
  ASSUME NEW q, NEW f, NEW h, OpensNone(q, f), OpensNone(f, h)
  PROVE  OpensNone(q, h)
BY DEF OpensNone

LEMMA AdmitOpens ==
  ASSUME Inv, NEW r \in Users, NEW q, NEW l, NEW rd, Asks(r, q, l, rd), Admit(r, q, l, rd),
         ~OpensNone(req, req')
  PROVE  OpensOne
<1>1. q \in [Users -> UserRecord] /\ \A s \in Users : Same(req[s], q[s])
  BY DEF Asks
<1>2. OpensNone(req, q)
  BY <1>1, SameOpensNone
<1>3. ~OpensNone(q, req')
  BY <1>2, OpensNoneTransitive
<1>4. ASSUME NEW how \in {"failed", "abandoned", "undefined"}
      PROVE  req' # End(q, r, how) /\ req' # WakeSlot(End(q, r, how), active, peer)
  <2>1. how \in Ended
    BY DEF Ended
  <2>2. EndsIn(q, r, how, End(q, r, how)) /\ OpensNone(q, End(q, r, how))
    BY <1>1, <2>1, EndOne, EndOpensNone
  <2>3. End(q, r, how) \in [Users -> UserRecord]
    BY <2>2 DEF EndsIn
  <2>4. OpensNone(End(q, r, how), WakeSlot(End(q, r, how), active, peer))
    BY <2>3, WakeSlotSame, SameOpensNone
  <2> QED
    BY <1>3, <2>2, <2>4, OpensNoneTransitive
<1>5. ~Enqueue(r, q)
  <2> SUFFICES ASSUME Enqueue(r, q) PROVE FALSE
    OBVIOUS
  <2> DEFINE u == q[r]
             v == [u EXCEPT !.pc = "waitSlot", !.wait = "pending"]
  <2>1. req' = [q EXCEPT ![r] = v]
    BY <1>4 DEF Enqueue
  <2>2. v.stream = u.stream
    BY <1>1 DEF UserRecord
  <2> HIDE DEF v
  <2> QED
    BY <1>1, <1>3, <2>1, <2>2 DEF OpensNone
<1>6. ~CloseConnection(End(q, r, "failed"), "goaway")
  <2> SUFFICES ASSUME CloseConnection(End(q, r, "failed"), "goaway") PROVE FALSE
    OBVIOUS
  <2> DEFINE e == End(q, r, "failed")
  <2>0. "failed" \in Ended
    BY DEF Ended
  <2>1. EndsIn(q, r, "failed", e)
    BY <1>1, <2>0, EndOne
  <2>2. LoseConnection(e, reader)
    BY DEF CloseConnection
  <2> HIDE DEF e
  <2>3. e \in [Users -> UserRecord] /\ \A s \in Users : Good(s, e[s])
    <3>0. e \in [Users -> UserRecord] /\ req[r].pc \in {"start", "dial", "waitConnect", "waitSlot"}
      BY <2>1 DEF EndsIn, Asks
    <3> SUFFICES ASSUME NEW s \in Users PROVE Good(s, e[s])
      BY <3>0
    <3>1. Good(s, req[s]) /\ Same(req[s], q[s])
      BY <1>1 DEF Inv, UsersGood
    <3>2. CASE s = r
      BY <2>1, <3>0, <3>1, <3>2 DEF EndsIn, Good, Same
    <3>3. CASE s # r
      BY <2>1, <3>1, <3>3 DEF EndsIn, Good, Same
    <3> QED
      BY <3>2, <3>3
  <2> QED
    BY <2>2, <2>3, LostOpensNone
<1>7. ASSUME Submit(r, q), ~stopping, Admitted, Keep(l, rd) PROVE OpensOne
  <2> DEFINE u == q[r]
             w == IF r \in Callbacks THEN "none" ELSE "pending"
             v == [u EXCEPT !.pc = "stream", !.stream = "open", !.holds = TRUE, !.wait = w]
             o == [q EXCEPT ![r] = v]
             e == End(o, r, "orphan")
  <2>0. u \in UserRecord /\ w \in {"none", "pending"} /\ "orphan" \in Ended
    BY <1>1 DEF Ended
  <2>1. \/ u.cancelled /\ active' = active /\ req' = WakeSlot(e, active, peer)
        \/ ~u.cancelled /\ active' = active + 1
    BY <1>7 DEF Submit
  <2> HIDE DEF u, w
  <2>2. v \in UserRecord
    BY <2>0 DEF UserRecord, Suspended
  <2> HIDE DEF v
  <2>3. o \in [Users -> UserRecord]
    BY <1>1, <2>2
  <2> HIDE DEF o
  <2>4. EndsIn(o, r, "orphan", e)
    BY <2>0, <2>3, EndOne
  <2> HIDE DEF e
  <2>5. e \in [Users -> UserRecord] /\ e[r].pc = "orphan"
    BY <2>4 DEF EndsIn
  <2>6. req' = WakeSlot(e, active, peer) => req'[r].pc = "orphan"
    BY <2>5, WakeSlotSame DEF Same
  <2>7. active' = active + 1 \/ ~NoOrphan'
    BY <2>1, <2>6 DEF NoOrphan
  <2> QED
    BY <1>7, <2>7 DEF OpensOne, Admitted, Keep
<1> QED
  BY <1>4, <1>5, <1>6, <1>7 DEF Admit, SubmitRefused

LEMMA ProceedOpens ==
  ASSUME Inv, NEW r \in Users, NEW q, NEW l, NEW rd, Asks(r, q, l, rd), Proceed(r, q, l, rd),
         ~OpensNone(req, req')
  PROVE  OpensOne
<1>1. CASE q[r].cancelled
  <2>1. req' = End(q, r, "failed") /\ q \in [Users -> UserRecord] /\ "failed" \in Ended
        /\ \A s \in Users : Same(req[s], q[s])
    BY <1>1 DEF Proceed, Asks, Ended
  <2>2. OpensNone(q, req') /\ OpensNone(req, q)
    BY <2>1, EndOpensNone, SameOpensNone
  <2> QED
    BY <2>2, OpensNoneTransitive
<1>2. CASE ~q[r].cancelled
  BY <1>2, AdmitOpens DEF Proceed
<1> QED
  BY <1>1, <1>2

\* r gets v, whose stream is not open unless r's was.
LEMMA OneOpensNone ==
  ASSUME Inv, NEW r \in Users, NEW v, v.stream = "open" => req[r].stream = "open",
         req' = [req EXCEPT ![r] = v]
  PROVE  OpensNone(req, req')
<1>1. req \in [Users -> UserRecord]
  BY DEF Inv, Types
<1> QED
  BY <1>1 DEF OpensNone

LEMMA ReleaseOpensNone ==
  ASSUME Inv, NEW r \in Users, NEW how \in Ended,
         ReleaseSlot([End(req, r, how) EXCEPT ![r].stream = "none"])
  PROVE  OpensNone(req, req')
<1> DEFINE e == End(req, r, how)
           u == e[r]
           v == [u EXCEPT !.stream = "none"]
           f == [e EXCEPT ![r] = v]
<1>1. req \in [Users -> UserRecord]
  BY DEF Inv, Types
<1>2. EndsIn(req, r, how, e)
  BY <1>1, EndOne
<1>3. req' = WakeSlot(f, Dec(active), peer)
  BY DEF ReleaseSlot
<1> HIDE DEF e
<1>4. e \in [Users -> UserRecord] /\ u \in UserRecord /\ \A s \in Users \ {r} : e[s] = req[s]
  BY <1>2 DEF EndsIn
<1> HIDE DEF u
<1>5. v \in UserRecord /\ v.stream = "none"
  BY <1>4 DEF UserRecord
<1> HIDE DEF v
<1>6. f \in [Users -> UserRecord] /\ OpensNone(req, f)
  BY <1>4, <1>5 DEF OpensNone
<1> HIDE DEF f
<1>7. OpensNone(f, req')
  BY <1>3, <1>6, WakeSlotSame, SameOpensNone
<1> QED
  BY <1>6, <1>7, OpensNoneTransitive

LEMMA StartOpens ==
  ASSUME Inv, NEW r \in Users, Start(r), ~OpensNone(req, req')
  PROVE  OpensOne
<1>0. req \in [Users -> UserRecord] /\ req[r] \in UserRecord
  BY DEF Inv, Types
<1>1. CASE StartConnected(r)
  <2>1. req[r].pc = "start" /\ link = "up" /\ Proceed(r, req, link, reader)
    BY <1>1 DEF StartConnected
  <2>2. Asks(r, req, link, reader)
    BY <2>1, SameSelf DEF Asks, Inv, Types, Loops, ThenConnecting, Ready
  <2> QED
    BY <2>1, <2>2, ProceedOpens
<1>2. CASE StartWaits(r)
  <2> DEFINE u == req[r]
             v == [u EXCEPT !.pc = "waitConnect", !.wait = "pending"]
  <2>1. req' = [req EXCEPT ![r] = v] /\ v.stream = u.stream
    BY <1>0, <1>2 DEF StartWaits, UserRecord
  <2> HIDE DEF v
  <2> QED
    BY <2>1, OneOpensNone
<1>3. CASE StartConnects(r)
  <2> DEFINE u == req[r]
             v == [u EXCEPT !.pc = "resolve"]
  <2>1. req' = [req EXCEPT ![r] = v] /\ v.stream = u.stream
    BY <1>0, <1>3 DEF StartConnects, UserRecord
  <2> HIDE DEF v
  <2> QED
    BY <2>1, OneOpensNone
<1> QED
  BY <1>1, <1>2, <1>3 DEF Start

LEMMA ConnectOpens ==
  ASSUME Inv, NEW r \in Users, Connect(r), ~OpensNone(req, req')
  PROVE  OpensOne
<1>0. req \in [Users -> UserRecord] /\ req[r] \in UserRecord /\ reader \in [1..MaxGen -> Loop]
      /\ "failed" \in Ended /\ "undefined" \in Ended
  BY DEF Inv, Types, Ended
<1>1. CASE Resolved(r)
  <2> DEFINE u == req[r]
             v == [u EXCEPT !.pc = IF socket THEN "undefined" ELSE "dial"]
  <2>1. req' = [req EXCEPT ![r] = v] /\ v.stream = u.stream
    BY <1>0, <1>1 DEF Resolved, UserRecord
  <2> HIDE DEF v
  <2> QED
    BY <2>1, OneOpensNone
<1>2. CASE ConnectOk(r)
  <2> DEFINE rd == IF stopping THEN reader ELSE [reader EXCEPT ![gen] = "reading"]
  <2>1. session
    BY <1>0, <1>2, EndOpensNone DEF ConnectOk
  <2>2. req[r].pc = "dial" /\ Proceed(r, WakeConnect(req), "up", rd) /\ Dials(req[r])
    BY <1>2, <2>1 DEF ConnectOk, Dials
  <2>3. Steady => LoopsOf(link, reader, gen) /\ \A s \in Users \ {r} : ~Dials(req[s])
    BY <2>2 DEF Inv, Loops, OneDials
  <2>4. rd \in [1..MaxGen -> Loop]
    BY <1>0 DEF Loop
  <2>5. Steady => LoopsOf("up", rd, gen)
    BY <1>0, <2>3 DEF LoopsOf
  <2> HIDE DEF rd
  <2>6. Asks(r, WakeConnect(req), "up", rd)
    BY <1>0, <2>1, <2>2, <2>3, <2>4, <2>5, WakeConnectSame DEF Asks
  <2> QED
    BY <2>2, <2>6, ProceedOpens
<1>3. CASE ConnectFails(r)
  <2> DEFINE e == End(req, r, "failed")
             q == WakeConnect(e)
  <2>1. LoseConnection(q, reader) /\ Dials(req[r])
    BY <1>3 DEF ConnectFails, CloseConnection, Dials
  <2>2. EndsIn(req, r, "failed", e)
    BY <1>0, EndOne
  <2> HIDE DEF e
  <2>3. e \in [Users -> UserRecord]
    BY <2>2 DEF EndsIn
  <2>4. q \in [Users -> UserRecord] /\ \A s \in Users : Same(e[s], q[s])
    BY <2>3, WakeConnectSame
  <2> HIDE DEF q
  <2>5. \A s \in Users : Good(s, q[s])
    <3> SUFFICES ASSUME NEW s \in Users PROVE Good(s, q[s])
      OBVIOUS
    <3>0. Good(s, req[s])
      BY DEF Inv, UsersGood
    <3>1. CASE s = r
      BY <2>1, <2>2, <2>4, <3>0, <3>1 DEF EndsIn, Good, Same, Dials
    <3>2. CASE s # r
      BY <2>2, <2>4, <3>0, <3>2 DEF EndsIn, Good, Same
    <3> QED
      BY <3>1, <3>2
  <2> QED
    BY <2>1, <2>4, <2>5, LostOpensNone
<1> QED
  BY <1>1, <1>2, <1>3 DEF Connect

LEMMA ResumesOpens ==
  ASSUME Inv, NEW r \in Users, Resumes(r), ~OpensNone(req, req')
  PROVE  OpensOne
<1>0. req \in [Users -> UserRecord] /\ {"failed", "timeout", "ok"} \subseteq Ended
  BY DEF Inv, Types, Ended
<1>1. CASE ConnectWaiterResumes(r)
  <2>1. link = "up" /\ req[r].pc = "waitConnect"
    BY <1>0, <1>1, EndOpensNone DEF ConnectWaiterResumes
  <2>2. Proceed(r, req, link, reader)
    BY <1>1, <2>1 DEF ConnectWaiterResumes
  <2>3. Asks(r, req, link, reader)
    BY <2>1, SameSelf DEF Asks, Inv, Types, Loops, ThenConnecting, Ready
  <2> QED
    BY <2>2, <2>3, ProceedOpens
<1>2. CASE SlotWaiterResumes(r)
  <2>1. req[r].pc = "waitSlot" /\ Admit(r, req, link, reader)
    BY <1>2 DEF SlotWaiterResumes
  <2>2. Clean => link = "up" /\ session
    BY <2>1 DEF Inv, Ready, Placed
  <2>3. Asks(r, req, link, reader)
    BY <2>1, <2>2, SameSelf DEF Asks, Inv, Types, Loops, ThenConnecting
  <2> QED
    BY <2>1, <2>3, AdmitOpens
<1>3. CASE SlotTimeout(r)
  BY <1>0, <1>3, EndOpensNone DEF SlotTimeout
<1>4. CASE WaitCancelled(r)
  BY <1>0, <1>4, EndOpensNone DEF WaitCancelled
<1>5. CASE StreamWaiterResumes(r)
  <2> DEFINE how == IF req[r].wait = "woken" THEN "ok" ELSE "failed"
  <2>1. how \in Ended /\ ReleaseSlot([End(req, r, how) EXCEPT ![r].stream = "none"])
    BY <1>0, <1>5 DEF StreamWaiterResumes
  <2> HIDE DEF how
  <2> QED
    BY <2>1, ReleaseOpensNone
<1> QED
  BY <1>1, <1>2, <1>3, <1>4, <1>5 DEF Resumes

LEMMA RequestOpensNone ==
  ASSUME Inv, NEW r \in Users,
         PoolTimerFires(r) \/ Cancel(r) \/ StreamEnds(r) \/ StreamExpires(r)
  PROVE  OpensNone(req, req')
<1>0. req \in [Users -> UserRecord] /\ req[r] \in UserRecord /\ "ok" \in Ended
  BY DEF Inv, Types, Ended
<1>1. CASE PoolTimerFires(r)
  <2> DEFINE u == req[r]
             v == [u EXCEPT !.wait = "fired"]
  <2>1. req' = [req EXCEPT ![r] = v] /\ v.stream = u.stream
    BY <1>0, <1>1 DEF PoolTimerFires, UserRecord
  <2> HIDE DEF v
  <2> QED
    BY <2>1, OneOpensNone
<1>2. CASE Cancel(r)
  <2> DEFINE u == req[r]
             v == [u EXCEPT !.cancelled = TRUE,
                            !.wait = IF u.wait = "pending" THEN "aborted" ELSE u.wait]
  <2>1. req' = [req EXCEPT ![r] = v] /\ v.stream = u.stream
    BY <1>0, <1>2 DEF Cancel, UserRecord
  <2> HIDE DEF v
  <2> QED
    BY <2>1, OneOpensNone
<1>3. CASE CompleteStream(r)
  <2>1. CASE r \in Callbacks
    BY <1>0, <1>3, <2>1, ReleaseOpensNone DEF CompleteStream
  <2>2. CASE r \notin Callbacks
    <3> DEFINE u == Woken(req[r])
               v == [u EXCEPT !.stream = "done"]
    <3>1. req' = [req EXCEPT ![r] = v]
      BY <1>3, <2>2 DEF CompleteStream
    <3>2. u \in UserRecord
      BY <1>0, WokenSame
    <3> HIDE DEF u
    <3>3. v.stream = "done"
      BY <3>2 DEF UserRecord
    <3> HIDE DEF v
    <3> QED
      BY <3>1, <3>3, OneOpensNone
  <2> QED
    BY <2>1, <2>2
<1> QED
  BY <1>1, <1>2, <1>3 DEF StreamEnds, StreamExpires

LEMMA ShutdownNowOpensNone ==
  ASSUME Inv, NEW rd, ShutdownNow(rd)
  PROVE  OpensNone(req, req')
<1>1. req \in [Users -> UserRecord] /\ \A s \in Users : Good(s, req[s])
  BY DEF Inv, Types, UsersGood
<1>2. req' = req \/ LoseConnection(req, rd)
  BY DEF ShutdownNow
<1>3. OpensNone(req, req)
  BY DEF OpensNone
<1> QED
  BY <1>1, <1>2, <1>3, LostOpensNone

\* Only what asks for a slot opens a stream.
LEMMA NextOpens ==
  ASSUME Inv, [Next]_vars, ~OpensNone(req, req')
  PROVE  OpensOne
<1>1. req \in [Users -> UserRecord] /\ \A s \in Users : Good(s, req[s])
  BY DEF Inv, Types, UsersGood
<1>2. req' # req
  BY DEF OpensNone
<1>3. ASSUME NEW p \in PeerLimits, Settings(p) PROVE FALSE
  <2>1. req' = WakeSlot(req, active, peer')
    BY <1>3 DEF Settings
  <2> QED
    BY <1>1, <2>1, WakeSlotSame, SameOpensNone
<1>4. ASSUME NEW g \in 1..MaxGen, ReaderResumes(g) PROVE FALSE
  BY <1>2, <1>4, ShutdownNowOpensNone DEF ReaderResumes
<1>5. CASE Shutdown
  BY <1>5, ShutdownNowOpensNone DEF Shutdown
<1>6. CASE ResetIfIdle
  BY <1>1, <1>6, LostOpensNone DEF ResetIfIdle, CloseConnection
<1>7. ~Goaway /\ ~RequestShutdown /\ ~UNCHANGED vars
      /\ \A how \in {"eof", "none"} : ~ReadEnds(how)
  BY <1>2 DEF Goaway, RequestShutdown, ReadEnds, vars
<1> QED
  BY <1>3, <1>4, <1>5, <1>6, <1>7, StartOpens, ConnectOpens, ResumesOpens, RequestOpensNone
  DEF Next

\* The streams that are open have slots that are counted, so that the limit seen by who
\* asks for a slot is kept by the streams.
LEMMA StepAdmitsWithinLimit ==
  ASSUME Inv, [Next]_vars, Inv',
         NEW r \in Users, req[r].stream # "open", req'[r].stream = "open",
         closes \cap {"goaway", "reset"} = {}, NoOrphan'
  PROVE  Cardinality(Open') <= StreamLimit(peer')
<1>1. OpensOne
  BY NextOpens DEF OpensNone
<1>3. \A g : ~Shutdown /\ ~ReaderResumes(g)
  <2>1. ASSUME NEW g, ReaderResumes(g) PROVE req' = req \/ \E rd : ShutdownNow(rd)
    BY <2>1 DEF ReaderResumes
  <2>2. req' # req
    OBVIOUS
  <2> QED
    BY <2>1, <2>2, ShutdownNowOpensNone DEF Shutdown, OpensNone
<1>4. stopping' = stopping
  <2>1. ASSUME NEW s \in Users, Start(s) PROVE stopping' = stopping
    BY <2>1 DEF Start, StartConnected, StartWaits, StartConnects
  <2>2. ASSUME NEW s \in Users, Connect(s) PROVE stopping' = stopping
    BY <2>2 DEF Connect, Resolved, ConnectOk, ConnectFails
  <2>3. ASSUME NEW s \in Users, Resumes(s) PROVE stopping' = stopping
    BY <2>3 DEF Resumes, ConnectWaiterResumes, SlotWaiterResumes, SlotTimeout, WaitCancelled,
                StreamWaiterResumes
  <2>4. ASSUME NEW s \in Users,
               PoolTimerFires(s) \/ Cancel(s) \/ StreamEnds(s) \/ StreamExpires(s)
        PROVE  stopping' = stopping
    BY <2>4 DEF PoolTimerFires, Cancel, StreamEnds, StreamExpires, CompleteStream
  <2> QED
    BY <1>3, <2>1, <2>2, <2>3, <2>4
    DEF Next, vars, Settings, Goaway, ReadEnds, RequestShutdown, ResetIfIdle
<1>5. Clean'
  BY <1>1, <1>4 DEF Clean, OpensOne
<1>6. active' = active + 1 /\ peer' = peer /\ active < StreamLimit(peer)
  BY <1>1 DEF OpensOne
<1>7. active' = Cardinality(Holders')
  BY <1>5 DEF Inv, Counted
<1>8. Open' \subseteq Holders'
  BY DEF Inv, UsersGood, Good, Open, Holders, NoOrphan
<1>9. Cardinality(Open') <= Cardinality(Holders') /\ Cardinality(Open') \in Nat
  BY <1>8, HoldersFinitePrime, FS_Subset, FS_CardinalityType
<1>10. StreamLimit(peer) \in Nat /\ active \in Nat
  BY LimitType DEF Inv, Types
<1> QED
  BY <1>6, <1>7, <1>9, <1>10

\* The streams admitted at a time are within max_concurrent_streams and the peer's limit,
\* until GOAWAY or a reset has closed the connection, or a cancelled request has left its
\* stream behind.
THEOREM AdmissionIsWithinTheLimit == Spec => AdmissionWithinLimit
<1> DEFINE A == (\E r \in Users : req[r].stream # "open" /\ req'[r].stream = "open")
                  => \/ Cardinality(Open') <= StreamLimit(peer')
                     \/ closes \cap {"goaway", "reset"} # {}
                     \/ \E r \in Users : req'[r].pc = "orphan"
<1>1. Inv /\ Inv' /\ [Next]_vars => [A]_vars
  BY StepAdmitsWithinLimit DEF NoOrphan
<1> QED
  BY <1>1, SessionInvariant, PTL DEF Spec, AdmissionWithinLimit

LEMMA StepStopsForAReason ==
  ASSUME Inv, [Next]_vars, ~stopping, stopping', ~asked, "goaway" \notin closes
  PROVE  \E g \in 1..MaxGen : reader[g] = "eof"
<1>0. Steady
  BY DEF Steady
<1>1. ~Shutdown
  BY DEF Shutdown
<1>2. \A s \in Users : ~Start(s) /\ ~Connect(s) /\ ~Resumes(s)
  BY DEF Start, StartConnected, StartWaits, StartConnects, Connect, Resolved, ConnectOk,
         ConnectFails, Resumes, ConnectWaiterResumes, SlotWaiterResumes, SlotTimeout,
         WaitCancelled, StreamWaiterResumes
<1>3. \A s \in Users : ~PoolTimerFires(s) /\ ~Cancel(s) /\ ~StreamEnds(s) /\ ~StreamExpires(s)
  BY DEF PoolTimerFires, Cancel, StreamEnds, StreamExpires, CompleteStream
<1>4. PICK g \in 1..MaxGen : ReaderResumes(g)
  BY <1>1, <1>2, <1>3
  DEF Next, vars, Settings, Goaway, ReadEnds, RequestShutdown, ResetIfIdle
<1>5. reader[g] \in {"cut", "eof"} /\ (reader[g] = "cut" => g = gen)
  BY <1>4 DEF ReaderResumes
<1>6. g = gen => reader[g] # "cut"
  BY <1>0 DEF Inv, Loops, LoopsOf
<1> QED
  BY <1>5, <1>6

\* A session stops for good only when asked to, after a read or write has failed, or after
\* it closed its connection for GOAWAY: the read loop that a reset or a failed connect cuts
\* off is never of the present generation.
THEOREM SessionStopsForAReason == Spec => StopsForAReason
<1> DEFINE A == ~stopping /\ stopping'
                  => asked \/ "goaway" \in closes \/ \E g \in 1..MaxGen : reader[g] = "eof"
<1>1. Inv /\ [Next]_vars => [A]_vars
  BY StepStopsForAReason
<1> QED
  BY <1>1, SessionInvariant, PTL DEF Spec, StopsForAReason
=============================================================================
