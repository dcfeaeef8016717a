------------------------ MODULE RequestPolicyProofs -------------------------
(***************************************************************************)
(* Proofs about RequestPolicy: how often a call goes out, and that the     *)
(* cookie jar keeps its limits, for any number of calls, whatever they     *)
(* wish, for every limit, and whatever the transport and the servers do.   *)
(*                                                                         *)
(* The bounds are not inductive: Inv counts the calls of raw_request of    *)
(* the attempts that are over, of the hops of this one, and of the place   *)
(* the call is at (Budgeted), says which calls wait for another attempt    *)
(* (Allowed), what shows that a call was tried (SentOnce), and how often   *)
(* it can have been sent by the leg raw_request is at (Legged).            *)
(*                                                                         *)
(* Of the jar, JarInv says what its limits say and that there are finitely *)
(* many cookies with comparable times: without that there is no oldest one *)
(* to drop.  What Chosen and WithLines compute step by step is shown by    *)
(* looking at the first step that goes wrong.                              *)
(***************************************************************************)
EXTENDS RequestPolicy, FiniteSetTheorems, SequenceTheorems, NaturalsInduction,
        WellFoundedInduction, TLAPS

Places == {"idle", "ready", "sent", "raw", "backoff", "answered", "threw", "lost"}

CallRecord ==
  [wish : Wishes, at : Places, url : Urls \cup {Bad}, attempt : Nat, hops : 0..MaxRedirects,
   cookie : BOOLEAN, tries : Nat, sends : Nat, leg : {"h2", "h1", "probe", "last"}]

\* How often one attempt may call raw_request.
Hops == MaxRedirects + 1

\* How often n attempts may.
Total(n) == n * Hops

\* How often a call can have called it.
Budget(k) ==
  Total(k.attempt) + k.hops + (IF k.at \in {"idle", "ready"} THEN 0 ELSE 1)

Budgeted(k) == k.tries <= Budget(k)

\* A second attempt is made of a request that may be replayed, and one more only
\* while there are retries left.
Allowed(k) ==
  /\ k.attempt > 0 => k.wish.replayable /\ k.attempt <= k.wish.retries
  /\ k.at = "backoff" => k.wish.replayable /\ k.attempt < k.wish.retries

\* Who got an answer, a redirect or another attempt was sent before.
SentOnce(k) ==
  /\ k.at \in {"sent", "raw", "backoff"} \/ k.hops > 0 \/ k.attempt > 0 => k.tries > 0
  /\ k.hops = 0 => k.url = k.wish.url
  /\ k.at = "answered" /\ k.wish.url # Bad /\ k.wish.retries >= 0 => k.tries > 0
  /\ k.at = "idle" => k.attempt = 0 /\ k.hops = 0 /\ k.tries = 0

\* The legs of a policy, and how often the request was sent when one is reached.
LegBound(leg, policy) ==
  CASE leg \in {"h2", "h1"} -> 1 [] leg = "probe" -> 2 [] leg = "last" -> MaxLegs(policy)
Leg(leg, sends, policy) ==
  /\ leg \in {"h2", "probe"} => policy \in {"auto", "preferH2"}
  /\ leg = "h1" => policy = "preferH1"
  /\ sends <= LegBound(leg, policy)
Legged(k) == Leg(k.leg, k.sends, k.wish.policy)

Good(k) == k \in CallRecord /\ Budgeted(k) /\ Allowed(k) /\ SentOnce(k) /\ Legged(k)

Inv ==
  /\ call \in [Calls -> CallRecord]
  /\ \A c \in Calls : Good(call[c])

-----------------------------------------------------------------------------

\* One call goes on to the record k.
LEMMA OneCall ==
  ASSUME Inv, NEW c \in Calls, NEW k, call' = [call EXCEPT ![c] = k], Good(k)
  PROVE  Inv'
BY DEF Inv, Good

LEMMA WishTypes ==
  ASSUME NEW k \in CallRecord
  PROVE  /\ k.wish \in Wishes /\ k.wish.retries \in Int /\ k.wish.url \in Urls \cup {Bad}
         /\ k.wish.replayable \in BOOLEAN /\ (k.wish.cookies = "own") \in BOOLEAN
         /\ k.wish.policy \in Policies
<1>1. k.wish \in Wishes BY DEF CallRecord
<1>2. k.wish \in AllWishes BY <1>1, PolicyAssumption
<1>. QED BY <1>1, <1>2 DEF AllWishes

\* A policy allows one send at least.
LEMMA Bounds ==
  ASSUME NEW policy \in Policies
  PROVE  /\ MaxLegs(policy) \in 1..3 /\ LegBound("last", policy) = MaxLegs(policy)
         /\ policy \in {"auto", "preferH2"} => MaxLegs(policy) = 3
         /\ policy = "preferH1" => MaxLegs(policy) = 2
         /\ LegBound("h2", policy) = 1 /\ LegBound("h1", policy) = 1
         /\ LegBound("probe", policy) = 2
BY DEF MaxLegs, LegBound, Policies

\* A record with another place.
LEMMA Moved ==
  ASSUME NEW k \in CallRecord, NEW at \in Places, NEW m, m = [k EXCEPT !.at = at]
  PROVE  /\ m \in CallRecord /\ m.at = at /\ m.wish = k.wish /\ m.url = k.url
         /\ m.attempt = k.attempt /\ m.hops = k.hops /\ m.tries = k.tries
         /\ (Legged(k) => Legged(m))
BY DEF CallRecord, Legged

\* The products are natural numbers, and an attempt more is Hops more.
LEMMA Products ==
  ASSUME NEW a \in Nat, NEW b, b = a + 1
  PROVE  Hops \in Nat /\ Total(a) \in Nat /\ Total(b) = Total(a) + Hops
<1>1. Hops \in Nat BY PolicyAssumption DEF Hops
<1>2. \A x, y \in Nat : x * y \in Nat /\ (x + 1) * y = x * y + y OBVIOUS
<1>. QED BY <1>1, <1>2 DEF Total

\* The parts of a budget.
LEMMA Numbers ==
  ASSUME NEW k \in CallRecord
  PROVE  /\ k.attempt \in Nat /\ k.tries \in Nat /\ k.hops \in 0..MaxRedirects /\ k.hops \in Nat
         /\ Total(k.attempt) \in Nat /\ k.hops + 1 <= Hops /\ Hops \in Nat
<1>1. k.attempt \in Nat /\ k.tries \in Nat /\ k.hops \in 0..MaxRedirects BY DEF CallRecord
<1>2. k.hops \in Nat /\ k.hops + 1 <= Hops /\ Hops \in Nat BY <1>1, PolicyAssumption DEF Hops
<1>. QED BY <1>1, <1>2, Products

\* A step to a place at the end of the road.
LEMMA Ends ==
  ASSUME NEW k, Good(k), NEW at \in {"answered", "threw", "lost"}, NEW m, m = [k EXCEPT !.at = at],
         at = "answered" => k.tries > 0 \/ k.wish.url = Bad \/ k.wish.retries < 0
  PROVE  Good(m)
<1>1. /\ m \in CallRecord /\ m.at = at /\ m.wish = k.wish /\ m.url = k.url
      /\ m.attempt = k.attempt /\ m.hops = k.hops /\ m.tries = k.tries /\ Legged(m)
  BY Moved DEF Good, Places
<1>2. Total(k.attempt) \in Nat /\ k.hops \in Nat /\ k.tries \in Nat BY Numbers DEF Good
<1>3. Budgeted(m) BY <1>1, <1>2 DEF Good, Budgeted, Budget
<1>4. Allowed(m) BY <1>1 DEF Good, Allowed
<1>5. SentOnce(m) BY <1>1, WishTypes DEF Good, SentOnce
<1>. QED BY <1>1, <1>3, <1>4, <1>5 DEF Good

LEMMA InitInv == Init => Inv
<1>. SUFFICES ASSUME Init PROVE Inv OBVIOUS
<1>1. PICK wish \in [Calls -> Wishes] : call = [c \in Calls |-> [Fresh(wish[c]) EXCEPT !.at = "idle"]]
  BY DEF Init
<1>2. ASSUME NEW c \in Calls PROVE Good(call[c])
  <2>. DEFINE k == call[c]
  <2>1. wish[c] \in Wishes /\ wish[c] \in AllWishes BY PolicyAssumption
  <2>2. k = [wish |-> wish[c], at |-> "idle", url |-> wish[c].url, attempt |-> 0, hops |-> 0,
             cookie |-> wish[c].cookies = "own", tries |-> 0, sends |-> 0, leg |-> "last"]
    BY <1>1 DEF Fresh
  <2>3. k \in CallRecord BY <2>1, <2>2, PolicyAssumption DEF CallRecord, AllWishes, Places
  <2>4. Budgeted(k) BY <2>2, <2>3, Numbers DEF Budgeted, Budget
  <2>5. Allowed(k) /\ SentOnce(k) BY <2>2 DEF Allowed, SentOnce
  <2>6. Legged(k)
    <3>1. k.leg = "last" /\ k.sends = 0 BY <2>2
    <3>. QED BY <2>3, <3>1, WishTypes, Bounds DEF Legged, Leg
  <2>. QED BY <2>3, <2>4, <2>5, <2>6 DEF Good
<1>3. call \in [Calls -> CallRecord] BY <1>1, <1>2 DEF Good
<1>. QED BY <1>2, <1>3 DEF Inv

LEMMA GoodOf == ASSUME Inv, NEW c \in Calls PROVE Good(call[c]) BY DEF Inv

LEMMA ThrowInv ==
  ASSUME Inv, NEW c \in Calls, Throw(c)
  PROVE  Inv'
<1>. DEFINE at == IF call[c].wish.via = "submit" THEN "lost" ELSE "threw"
            m == [call[c] EXCEPT !.at = at]
<1>1. call' = [call EXCEPT ![c] = m] BY DEF Throw
<1>2. Good(m) BY GoodOf, Ends
<1>. QED BY <1>1, <1>2, OneCall

LEMMA AnsweredInv ==
  ASSUME Inv, NEW c \in Calls, call' = [call EXCEPT ![c] = [call[c] EXCEPT !.at = "answered"]],
         call[c].tries > 0 \/ call[c].wish.url = Bad \/ call[c].wish.retries < 0
  PROVE  Inv'
<1>1. Good([call[c] EXCEPT !.at = "answered"]) BY GoodOf, Ends
<1>. QED BY <1>1, OneCall

LEMMA StartPolicyInv ==
  ASSUME Inv, NEW c \in Calls, StartPolicy(c)
  PROVE  Inv'
<1>1. CASE Throw(c) BY <1>1, ThrowInv
<1>2. CASE call[c].wish.retries < 0 /\ ~Throw(c)
  <2>1. call' = [call EXCEPT ![c] = [call[c] EXCEPT !.at = "answered"]] BY <1>2 DEF StartPolicy
  <2>. QED BY <1>2, <2>1, AnsweredInv
<1>3. CASE ~(call[c].wish.retries < 0) /\ ~Throw(c)
  <2>. DEFINE k == call[c]
              m == [k EXCEPT !.at = "ready"]
  <2>1. call' = [call EXCEPT ![c] = m] /\ k.at = "idle" BY <1>3 DEF StartPolicy
  <2>2. Good(k) BY GoodOf
  <2>3. /\ m \in CallRecord /\ m.at = "ready" /\ m.wish = k.wish /\ m.url = k.url
        /\ m.attempt = k.attempt /\ m.hops = k.hops /\ m.tries = k.tries /\ Legged(m)
    BY <2>2, Moved DEF Good, Places
  <2>. HIDE DEF m, k
  <2>4. Budgeted(m) BY <2>1, <2>2, <2>3 DEF Good, Budgeted, Budget
  <2>5. Allowed(m) /\ SentOnce(m) BY <2>1, <2>2, <2>3 DEF Good, Allowed, SentOnce
  <2>6. Good(m) BY <2>3, <2>4, <2>5 DEF Good
  <2>. QED BY <2>1, <2>6, OneCall DEF k
<1>. QED BY <1>1, <1>2, <1>3

LEMMA SubmitDirectInv ==
  ASSUME Inv, NEW c \in Calls, SubmitDirect(c)
  PROVE  Inv'
<1>1. CASE call[c].wish.url = Bad
  <2>1. call' = [call EXCEPT ![c] = [call[c] EXCEPT !.at = "answered"]] BY <1>1 DEF SubmitDirect
  <2>. QED BY <1>1, <2>1, AnsweredInv
<1>2. CASE call[c].wish.url # Bad
  <2>. DEFINE k == call[c]
              m == [k EXCEPT !.at = "raw", !.tries = 1, !.sends = 1]
  <2>1. call' = [call EXCEPT ![c] = m] /\ k.at = "idle" BY <1>2 DEF SubmitDirect
  <2>2. Good(k) BY GoodOf
  <2>3. /\ m \in CallRecord /\ m.at = "raw" /\ m.wish = k.wish /\ m.url = k.url
        /\ m.attempt = k.attempt /\ m.hops = k.hops /\ m.tries = 1 /\ m.sends = 1 /\ m.leg = k.leg
    BY <2>2 DEF Good, Places, CallRecord
  <2>. HIDE DEF m, k
  <2>4. Budgeted(m)
    <3>1. m.attempt = 0 /\ m.hops = 0 BY <2>1, <2>2, <2>3 DEF Good, SentOnce
    <3>. QED BY <2>3, <3>1, Numbers DEF Budgeted, Budget
  <2>5. Allowed(m) /\ SentOnce(m) BY <2>1, <2>2, <2>3 DEF Good, Allowed, SentOnce
  <2>6. Legged(m)
    <3>1. k \in CallRecord /\ k.leg \in {"h2", "h1", "probe", "last"} BY <2>2 DEF Good, CallRecord
    <3>2. k.wish.policy \in Policies BY <3>1, WishTypes
    <3>. QED BY <2>2, <2>3, <3>1, <3>2, Bounds DEF Good, Legged, Leg
  <2>7. Good(m) BY <2>3, <2>4, <2>5, <2>6 DEF Good
  <2>. QED BY <2>1, <2>7, OneCall DEF k
<1>. QED BY <1>1, <1>2

LEMMA SendInv ==
  ASSUME Inv, NEW c \in Calls, Send(c)
  PROVE  Inv'
<1>. DEFINE k == call[c]
            n == k.tries + 1
            cookie == k.cookie \/ ((UsesJar(c) /\ ~k.cookie) /\ FindsCookies(jar, k.url))
            m(leg) == [k EXCEPT !.at = "sent", !.tries = n, !.sends = 1, !.leg = leg,
                                !.cookie = cookie]
<1>0. PICK leg \in FirstLegs(k.wish.policy) : call' = [call EXCEPT ![c] = m(leg)]
  <2>1. PICK leg \in FirstLegs(k.wish.policy) :
          call' = [call EXCEPT ![c].at = "sent", ![c].tries = @ + 1, ![c].sends = 1,
                     ![c].leg = leg, ![c].cookie = @ \/ ((UsesJar(c) /\ ~k.cookie) /\ FindsCookies(jar, k.url))]
    BY Zenon DEF Send
  <2>. QED BY <2>1
<1>. DEFINE next == m(leg)
<1>1. call' = [call EXCEPT ![c] = next] /\ k.at = "ready" BY <1>0 DEF Send
<1>2. Good(k) BY GoodOf
<1>3. cookie \in BOOLEAN BY <1>2 DEF Good, CallRecord, UsesJar, FindsCookies
<1>. HIDE DEF cookie, k
<1>4. k \in CallRecord /\ k.url \in Urls \cup {Bad} BY <1>2 DEF Good, CallRecord
<1>5. Total(k.attempt) \in Nat /\ k.hops \in Nat /\ k.tries \in Nat /\ n \in Nat
      /\ k.attempt \in Nat /\ k.hops \in 0..MaxRedirects
  BY <1>4, Numbers
<1>. HIDE DEF n
<1>11. /\ leg \in {"h2", "h1", "probe", "last"} /\ k.wish.policy \in Policies
       /\ Leg(leg, 1, k.wish.policy)
  <2>1. k.wish.policy \in Policies BY <1>4, WishTypes
  <2>. QED BY <1>0, <2>1, Bounds DEF FirstLegs, Policies, Leg
<1>6. /\ next \in CallRecord /\ next.at = "sent" /\ next.wish = k.wish /\ next.url = k.url
      /\ next.attempt = k.attempt /\ next.hops = k.hops /\ next.tries = n
      /\ next.sends = 1 /\ next.leg = leg
  BY <1>3, <1>4, <1>5, <1>11 DEF CallRecord, Places
<1>. HIDE DEF next, m
<1>7. n = k.tries + 1 BY DEF n
<1>8. Budgeted(next) BY <1>1, <1>2, <1>5, <1>6, <1>7 DEF Good, Budgeted, Budget
<1>9. Allowed(next) /\ SentOnce(next) BY <1>1, <1>2, <1>5, <1>6, <1>7 DEF Good, Allowed, SentOnce
<1>10. Good(next) BY <1>6, <1>8, <1>9, <1>11 DEF Good, Legged
<1>. QED BY <1>1, <1>10, OneCall DEF k

\* Another leg of the same call of raw_request.
LEMMA ResendInv ==
  ASSUME Inv, NEW c \in Calls, Resend(c)
  PROVE  Inv'
<1>. DEFINE k == call[c]
            n == k.sends + 1
            m(leg) == [k EXCEPT !.sends = n, !.leg = leg]
<1>1. PICK leg \in NextLegs(k.leg) : call' = [call EXCEPT ![c] = m(leg)]
  BY DEF Resend
<1>. DEFINE next == m(leg)
<1>2. k.at = "sent" /\ Good(k) BY GoodOf DEF Resend
<1>. HIDE DEF k
<1>3. /\ k \in CallRecord /\ k.leg \in {"h2", "h1", "probe", "last"} /\ k.sends \in Nat
      /\ n \in Nat /\ n = k.sends + 1
  BY <1>2 DEF Good, CallRecord
<1>4. k.wish.policy \in Policies /\ Leg(k.leg, k.sends, k.wish.policy)
  BY <1>2, <1>3, WishTypes DEF Good, Legged
<1>5. leg \in {"probe", "last"} /\ k.leg # "last" /\ (leg = "probe" => k.leg = "h2")
  BY <1>1, <1>3 DEF NextLegs
<1>. HIDE DEF n
<1>6. Leg(leg, n, k.wish.policy) BY <1>3, <1>4, <1>5, Bounds DEF Leg
<1>7. /\ next \in CallRecord /\ next.at = "sent" /\ next.wish = k.wish /\ next.url = k.url
      /\ next.attempt = k.attempt /\ next.hops = k.hops /\ next.tries = k.tries
      /\ next.sends = n /\ next.leg = leg
  BY <1>2, <1>3, <1>5 DEF CallRecord
<1>. HIDE DEF next, m
<1>8. Budgeted(next) BY <1>2, <1>7 DEF Good, Budgeted, Budget
<1>9. Allowed(next) /\ SentOnce(next) BY <1>2, <1>7 DEF Good, Allowed, SentOnce
<1>10. Good(next) BY <1>6, <1>7, <1>8, <1>9 DEF Good, Legged
<1>11. call' = [call EXCEPT ![c] = next] BY <1>1 DEF next
<1>. QED BY <1>10, <1>11, OneCall

LEMMA SendNowhereInv ==
  ASSUME Inv, NEW c \in Calls, SendNowhere(c)
  PROVE  Inv'
<1>1. CASE UsesJar(c)
  <2>1. Throw(c) BY <1>1 DEF SendNowhere
  <2>. QED BY <2>1, ThrowInv
<1>2. CASE ~UsesJar(c)
  <2>1. call' = [call EXCEPT ![c] = [call[c] EXCEPT !.at = "answered"]] /\ call[c].url = Bad
    BY <1>2 DEF SendNowhere
  <2>2. call[c].tries > 0 \/ call[c].wish.url = Bad
    <3>1. Good(call[c]) /\ call[c].hops \in Nat BY GoodOf, PolicyAssumption DEF Good, CallRecord
    <3>. QED BY <2>1, <3>1 DEF Good, SentOnce
  <2>. QED BY <2>1, <2>2, AnsweredInv
<1>. QED BY <1>1, <1>2

\* The next hop, another attempt, or the answer.
LEMMA RespondInv ==
  ASSUME Inv, NEW c \in Calls, Respond(c)
  PROVE  Inv'
<1>. DEFINE k == [call[c] EXCEPT !.sends = 0, !.leg = "last"]
            h == k.hops + 1
            hop(answer) == [k EXCEPT !.at = "ready", !.url = answer.to, !.hops = h]
            wait == [k EXCEPT !.at = "backoff"]
            over == [k EXCEPT !.at = "answered"]
<1>1. k.at = "sent" /\ Good(k) /\ k.tries > 0
  <2>. DEFINE o == call[c]
  <2>1. o.at = "sent" /\ Good(o) BY GoodOf DEF Respond
  <2>2. k = [o EXCEPT !.sends = 0, !.leg = "last"] OBVIOUS
  <2>. HIDE DEF o, k
  <2>3. /\ k \in CallRecord /\ k.at = "sent" /\ k.wish = o.wish /\ k.url = o.url
        /\ k.attempt = o.attempt /\ k.hops = o.hops /\ k.tries = o.tries
        /\ k.sends = 0 /\ k.leg = "last"
    BY <2>1, <2>2 DEF Good, CallRecord
  <2>4. Budgeted(k) BY <2>1, <2>3 DEF Good, Budgeted, Budget
  <2>5. Allowed(k) /\ SentOnce(k) /\ k.tries > 0 BY <2>1, <2>3 DEF Good, Allowed, SentOnce
  <2>6. Legged(k) BY <2>3, WishTypes, Bounds DEF Legged, Leg
  <2>. QED BY <2>3, <2>4, <2>5, <2>6 DEF Good
<1>0. call[c].wish = k.wish /\ call[c].hops = k.hops /\ call[c].attempt = k.attempt
  BY GoodOf DEF Good, CallRecord
<1>2. PICK answer \in Answers :
        call' = [call EXCEPT ![c] = CASE Follows(c, answer) -> hop(answer)
                                      [] Retries(c, answer) -> wait
                                      [] OTHER -> over]
  BY DEF Respond
<1>3. k \in CallRecord BY <1>1 DEF Good
<1>4. /\ Follows(c, answer) => k.hops < MaxRedirects /\ answer.kind = "redirect"
      /\ Retries(c, answer) => k.attempt < k.wish.retries /\ k.wish.replayable
      /\ ~(Follows(c, answer) /\ Retries(c, answer))
  BY <1>0 DEF Follows, Retries, Retriable
<1>. DEFINE m == hop(answer)
<1>5. m = [k EXCEPT !.at = "ready", !.url = answer.to, !.hops = h] OBVIOUS
<1>. HIDE DEF k, h, hop, wait, over
<1>6. /\ k.attempt \in Nat /\ k.tries \in Nat /\ k.hops \in 0..MaxRedirects /\ k.hops \in Nat
      /\ Total(k.attempt) \in Nat
  BY <1>3, Numbers
<1>7. CASE Follows(c, answer)
  <2>1. call' = [call EXCEPT ![c] = m] BY <1>2, <1>4, <1>7
  <2>2. answer.to \in Urls \cup {Bad} BY <1>4, <1>7 DEF Answers, Targets, Retriable
  <2>3. h \in 0..MaxRedirects /\ h = k.hops + 1 BY <1>4, <1>6, <1>7, PolicyAssumption DEF h
  <2>. HIDE DEF m
  <2>4. /\ m \in CallRecord /\ m.at = "ready" /\ m.wish = k.wish
        /\ m.attempt = k.attempt /\ m.hops = h /\ m.tries = k.tries
        /\ m.sends = k.sends /\ m.leg = k.leg
    BY <1>3, <1>5, <2>2, <2>3 DEF CallRecord, Places
  <2>5. Budgeted(m) BY <1>1, <1>6, <2>3, <2>4 DEF Good, Budgeted, Budget
  <2>6. Allowed(m) /\ SentOnce(m) BY <1>1, <1>6, <2>3, <2>4 DEF Good, Allowed, SentOnce
  <2>7. Good(m) BY <1>1, <2>4, <2>5, <2>6 DEF Good, Legged
  <2>. QED BY <2>1, <2>7, OneCall
<1>8. CASE ~Follows(c, answer) /\ Retries(c, answer)
  <2>1. call' = [call EXCEPT ![c] = wait] BY <1>2, <1>8
  <2>2. /\ wait \in CallRecord /\ wait.at = "backoff" /\ wait.wish = k.wish /\ wait.url = k.url
        /\ wait.attempt = k.attempt /\ wait.hops = k.hops /\ wait.tries = k.tries
        /\ Legged(wait)
    BY <1>1, <1>3, Moved DEF Good, Places, wait
  <2>3. Budgeted(wait) BY <1>1, <1>6, <2>2 DEF Good, Budgeted, Budget
  <2>4. Allowed(wait) /\ SentOnce(wait) BY <1>1, <1>4, <1>6, <1>8, <2>2 DEF Good, Allowed, SentOnce
  <2>5. Good(wait) BY <2>2, <2>3, <2>4 DEF Good
  <2>. QED BY <2>1, <2>5, OneCall
<1>9. CASE ~Follows(c, answer) /\ ~Retries(c, answer)
  <2>1. call' = [call EXCEPT ![c] = over] BY <1>2, <1>9
  <2>2. Good(over) BY <1>1, Ends DEF over
  <2>. QED BY <2>1, <2>2, OneCall
<1>. QED BY <1>7, <1>8, <1>9

LEMMA NextAttemptInv ==
  ASSUME Inv, NEW c \in Calls, NextAttempt(c)
  PROVE  Inv'
<1>. DEFINE k == call[c]
            a == k.attempt + 1
            f == Fresh(k.wish)
            m == [f EXCEPT !.attempt = a, !.tries = k.tries]
<1>1. k.at = "backoff" /\ call' = [call EXCEPT ![c] = m] BY DEF NextAttempt
<1>2. Good(k) /\ k \in CallRecord BY GoodOf DEF Good
<1>. HIDE DEF k
<1>3. /\ k.attempt \in Nat /\ k.tries \in Nat /\ k.hops \in Nat /\ a \in Nat
      /\ Total(k.attempt) \in Nat /\ Hops \in Nat /\ k.hops + 1 <= Hops
      /\ Total(a) = Total(k.attempt) + Hops
  BY <1>2, Numbers, Products
<1>4. /\ f \in CallRecord /\ f.at = "ready" /\ f.wish = k.wish /\ f.url = k.wish.url /\ f.hops = 0
      /\ f.url \in Urls \cup {Bad} /\ 0 \in 0..MaxRedirects /\ f.sends = 0 /\ f.leg = "last"
  BY <1>2, WishTypes, PolicyAssumption DEF CallRecord, Places, Fresh
<1>. HIDE DEF a, f
<1>5. /\ m \in CallRecord /\ m.at = "ready" /\ m.wish = k.wish /\ m.url = k.wish.url
      /\ m.attempt = a /\ m.hops = 0 /\ m.tries = k.tries /\ m.sends = 0 /\ m.leg = "last"
  BY <1>3, <1>4 DEF CallRecord
<1>. HIDE DEF m
<1>6. a = k.attempt + 1 BY DEF a
<1>7. Budgeted(m) BY <1>1, <1>2, <1>3, <1>5 DEF Good, Budgeted, Budget
<1>8. Allowed(m) BY <1>1, <1>2, <1>3, <1>5, <1>6, WishTypes DEF Good, Allowed
<1>9. SentOnce(m) BY <1>1, <1>2, <1>5 DEF Good, SentOnce
<1>10. Legged(m) BY <1>5, WishTypes, Bounds DEF Legged, Leg
<1>11. Good(m) BY <1>5, <1>7, <1>8, <1>9, <1>10 DEF Good
<1>. QED BY <1>1, <1>11, OneCall DEF k

LEMMA RawAnswerInv ==
  ASSUME Inv, NEW c \in Calls, RawAnswer(c)
  PROVE  Inv'
<1>1. call[c].at = "raw" /\ call' = [call EXCEPT ![c] = [call[c] EXCEPT !.at = "answered"]]
  BY DEF RawAnswer
<1>2. call[c].tries > 0 BY <1>1, GoodOf DEF Good, SentOnce
<1>. QED BY <1>1, <1>2, AnsweredInv

-----------------------------------------------------------------------------

\* The invariant holds in every reachable state.
THEOREM InvHolds == Spec => []Inv
<1>1. ASSUME Inv, [Next]_vars PROVE Inv'
  <2>1. ASSUME NEW c \in Calls, StartPolicy(c) PROVE Inv' BY <1>1, <2>1, StartPolicyInv
  <2>2. ASSUME NEW c \in Calls, SubmitDirect(c) PROVE Inv' BY <1>1, <2>2, SubmitDirectInv
  <2>3. ASSUME NEW c \in Calls, RawAnswer(c) PROVE Inv' BY <1>1, <2>3, RawAnswerInv
  <2>4. ASSUME NEW c \in Calls, Send(c) PROVE Inv' BY <1>1, <2>4, SendInv
  <2>5. ASSUME NEW c \in Calls, SendNowhere(c) PROVE Inv' BY <1>1, <2>5, SendNowhereInv
  <2>6. ASSUME NEW c \in Calls, Respond(c) PROVE Inv' BY <1>1, <2>6, RespondInv
  <2>7. ASSUME NEW c \in Calls, NextAttempt(c) PROVE Inv' BY <1>1, <2>7, NextAttemptInv
  <2>8. ASSUME NEW c \in Calls, Resend(c) PROVE Inv' BY <1>1, <2>8, ResendInv
  <2>9. CASE UNCHANGED call BY <1>1, <2>9 DEF Inv
  <2>. QED BY <1>1, <2>1, <2>2, <2>3, <2>4, <2>5, <2>6, <2>7, <2>8, <2>9 DEF Next, vars, TimePasses
<1>. QED BY InitInv, <1>1, PTL DEF Spec

\* However many answers ask for a redirect or another attempt, a call enters
\* raw_request at most once for each hop of each attempt (once for each hop, if the
\* request may not be replayed: it has a single attempt), each time the request is
\* sent at most as often as its protocol policy has transports to fall back on, and no
\* call is answered unsent unless its URL is bad or its number of retries negative.
THEOREM Accounted == Spec => []SendsAccounted
<1>1. ASSUME Inv PROVE SendsAccounted
  <2>. SUFFICES ASSUME NEW c \in Calls, NEW k, k = call[c]
                PROVE  /\ k.tries <= (k.attempt + 1) * (MaxRedirects + 1)
                       /\ k.sends <= MaxLegs(k.wish.policy)
                       /\ k.attempt > 0 => k.wish.replayable /\ k.attempt <= k.wish.retries
                       /\ ~k.wish.replayable => k.tries <= k.hops + 1
                       /\ k.at = "answered" /\ k.wish.url # Bad /\ k.wish.retries >= 0 => k.tries > 0
    BY DEF SendsAccounted
  <2>1. Good(k) BY <1>1, GoodOf
  <2>2. /\ k.attempt \in Nat /\ k.tries \in Nat /\ k.hops \in Nat /\ Total(k.attempt) \in Nat
        /\ Hops \in Nat /\ k.hops + 1 <= Hops /\ Total(k.attempt + 1) = Total(k.attempt) + Hops
    BY <2>1, Numbers, Products DEF Good
  <2>3. k.tries <= Total(k.attempt) + k.hops + 1 BY <2>1, <2>2 DEF Good, Budgeted, Budget
  <2>4. k.tries <= Total(k.attempt + 1) BY <2>2, <2>3
  <2>5. k.tries <= (k.attempt + 1) * (MaxRedirects + 1) BY <2>4 DEF Total, Hops
  <2>6. ASSUME ~k.wish.replayable PROVE k.tries <= k.hops + 1
    <3>1. k.attempt = 0 BY <2>1, <2>2, <2>6 DEF Good, Allowed
    <3>2. Total(0) = 0 BY <2>2 DEF Total
    <3>. QED BY <2>2, <2>3, <3>1, <3>2
  <2>7. k.sends <= MaxLegs(k.wish.policy)
    <3>1. /\ k \in CallRecord /\ k.leg \in {"h2", "h1", "probe", "last"} /\ k.sends \in Nat
      BY <2>1 DEF Good, CallRecord
    <3>2. k.wish.policy \in Policies BY <3>1, WishTypes
    <3>. QED BY <2>1, <3>1, <3>2, Bounds DEF Good, Legged, Leg
  <2>. QED BY <2>1, <2>5, <2>6, <2>7 DEF Good, Allowed, SentOnce
<1>. QED BY InvHolds, <1>1, PTL

-----------------------------------------------------------------------------
(* The cookies of a domain.                                                 *)

LEMMA LeastNumber ==
  ASSUME NEW S, S \subseteq Nat, S # {}
  PROVE  \E n \in S : \A m \in S : n <= m
<1>1. IsWellFoundedOn(OpToRel(<, Nat), Nat)
  BY NatLessThanWellFounded
<1>2. \E n \in S : \A m \in S : ~(<<m, n>> \in OpToRel(<, Nat))
  BY <1>1, WFMin
<1>3. OpToRel(<, Nat) = {p \in Nat \X Nat : p[1] < p[2]}
  BY Zenon DEF OpToRel
<1>4. PICK n \in S : \A m \in S : ~(<<m, n>> \in {p \in Nat \X Nat : p[1] < p[2]})
  BY <1>2, <1>3
<1>5. ASSUME NEW m \in S PROVE n <= m
  <2>1. m \in Nat /\ n \in Nat
    OBVIOUS
  <2>2. ~(m < n)
    BY <1>4, <1>5, <2>1
  <2> QED
    BY <2>1, <2>2
<1> QED
  BY <1>5

\* What the attributes of a cookie can be.
Sent == UNION {ToSet(lines) : lines \in Lines}
Values ==
  {line.name : line \in Sent} \cup {line.path : line \in Sent} \cup {line.age : line \in Sent}
    \cup {DefaultCookiePath(u.path) : u \in Urls \cup {Bad}} \cup BOOLEAN \cup {"past"}
Cookie == [name : Values, path : Values, hostOnly : Values, expires : Values, used : Nat]

\* No two cookies of a domain have the same name and path.
Distinct(s) ==
  \A m, n \in 1..Len(s) : s[m].name = s[n].name /\ s[m].path = s[n].path => m = n
Fits(s) == s \in Seq(Cookie) /\ Len(s) <= MaxPerDomain /\ Distinct(s)

\* f is what Chosen computes, up to n.
Chooses(s, S, f, n) ==
  f = [i \in 0..n |-> IF i = 0 THEN <<>>
                      ELSE IF i \in S THEN Append(f[i - 1], s[i]) ELSE f[i - 1]]

LEMMA ChoosesExists ==
  ASSUME NEW s, NEW S, NEW n \in Nat
  PROVE  \E f : Chooses(s, S, f, n)
<1> DEFINE Wrong == {m \in 0..n : ~\E f : Chooses(s, S, f, m)}
<1>1. SUFFICES ASSUME Wrong # {} PROVE FALSE
  <2>1. n \in 0..n
    OBVIOUS
  <2> QED
    BY <1>1, <2>1
<1>2. PICK m \in Wrong : \A k \in Wrong : m <= k
  <2>1. Wrong \subseteq Nat
    OBVIOUS
  <2> HIDE DEF Wrong
  <2> QED
    BY <1>1, <2>1, LeastNumber
<1>3. m \in 0..n /\ ~\E f : Chooses(s, S, f, m)
  BY <1>2
<1>4. m # 0
  <2> DEFINE f == [i \in 0..0 |-> <<>>]
  <2>1. Chooses(s, S, f, 0)
    BY DEF Chooses
  <2> QED
    BY <1>3, <2>1
<1>5. m - 1 \in 0..n /\ m - 1 \in Nat /\ ~(m <= m - 1)
  BY <1>3, <1>4
<1>6. PICK f : Chooses(s, S, f, m - 1)
  <2>1. m - 1 \notin Wrong
    BY <1>2, <1>5
  <2> QED
    BY <1>5, <2>1
<1> DEFINE last == IF m \in S THEN Append(f[m - 1], s[m]) ELSE f[m - 1]
           h == [i \in 0..m |-> IF i = m THEN last ELSE f[i]]
<1>7. ASSUME NEW i \in 0..m
      PROVE  h[i] = IF i = 0 THEN <<>>
                    ELSE IF i \in S THEN Append(h[i - 1], s[i]) ELSE h[i - 1]
  <2>1. CASE i = m
    <3>1. h[i] = last /\ h[i - 1] = f[m - 1] /\ i # 0
      BY <1>3, <1>4, <1>5, <2>1
    <3> QED
      BY <2>1, <3>1 DEF last
  <2>2. CASE i # m
    <3>1. i \in 0..(m - 1) /\ h[i] = f[i] /\ (i # 0 => h[i - 1] = f[i - 1])
      BY <1>3, <1>5, <2>2
    <3>2. f[i] = IF i = 0 THEN <<>> ELSE IF i \in S THEN Append(f[i - 1], s[i]) ELSE f[i - 1]
      BY <1>6, <3>1 DEF Chooses
    <3> QED
      BY <3>1, <3>2
  <2> QED
    BY <2>1, <2>2
<1>8. h = [i \in 0..m |-> h[i]]
  OBVIOUS
<1> HIDE DEF h
<1>9. Chooses(s, S, h, m)
  BY <1>7, <1>8 DEF Chooses
<1> QED
  BY <1>3, <1>9

LEMMA ChosenIs ==
  ASSUME NEW s, NEW S, Len(s) \in Nat
  PROVE  \E f : Chooses(s, S, f, Len(s)) /\ Chosen(s, S) = f[Len(s)]
<1>1. Chosen(s, S) = (CHOOSE f : Chooses(s, S, f, Len(s)))[Len(s)]
  BY Zenon DEF Chosen, Chooses
<1>2. \E f : Chooses(s, S, f, Len(s))
  BY ChoosesExists
<1> QED
  BY <1>1, <1>2

\* What is chosen of the first i cookies of s: a part of them.
Part(s, S, i, t) ==
  /\ t \in Seq(Cookie) /\ Len(t) <= i /\ Distinct(t)
  /\ \A m \in 1..Len(t) : \E n \in 1..i : n \in S /\ t[m] = s[n]

LEMMA PartGrows ==
  ASSUME NEW s \in Seq(Cookie), Distinct(s), NEW S, NEW i \in 1..Len(s), NEW t,
         Part(s, S, i - 1, t)
  PROVE  Part(s, S, i, IF i \in S THEN Append(t, s[i]) ELSE t)
<1>1. /\ t \in Seq(Cookie) /\ Len(t) \in Nat /\ Len(t) <= i - 1 /\ Distinct(t) /\ s[i] \in Cookie
      /\ \A m \in 1..Len(t) : \E n \in 1..(i - 1) : n \in S /\ t[m] = s[n]
      /\ i \in Nat /\ Len(s) \in Nat
  BY DEF Part
<1>2. CASE i \notin S
  <2>1. \A n \in 1..(i - 1) : n \in 1..i
    OBVIOUS
  <2> QED
    BY <1>1, <1>2, <2>1 DEF Part
<1>3. CASE i \in S
  <2> DEFINE a == Append(t, s[i])
  <2>1. /\ a \in Seq(Cookie) /\ Len(a) = Len(t) + 1
        /\ \A m \in 1..Len(t) : a[m] = t[m]
        /\ a[Len(t) + 1] = s[i]
    BY <1>1
  <2> HIDE DEF a
  <2>2. ASSUME NEW m \in 1..Len(a)
        PROVE  \E n \in 1..i : n \in S /\ a[m] = s[n] /\ (m # Len(a) => n < i)
    <3>1. CASE m = Len(a)
      BY <1>1, <1>3, <2>1, <3>1
    <3>2. CASE m # Len(a)
      <4>1. m \in 1..Len(t)
        BY <1>1, <2>1, <3>2
      <4>2. PICK n \in 1..(i - 1) : n \in S /\ t[m] = s[n]
        BY <1>1, <4>1
      <4>3. n \in 1..i /\ n < i /\ a[m] = s[n]
        BY <2>1, <4>1, <4>2
      <4> QED
        BY <4>2, <4>3
    <3> QED
      BY <3>1, <3>2
  <2>3. Distinct(a)
    <3>1. SUFFICES ASSUME NEW m \in 1..Len(a), NEW k \in 1..Len(a),
                          a[m].name = a[k].name, a[m].path = a[k].path, m # k
                   PROVE  FALSE
      BY DEF Distinct
    <3>2. CASE m # Len(a) /\ k # Len(a)
      <4>1. m \in 1..Len(t) /\ k \in 1..Len(t)
        BY <1>1, <2>1, <3>2
      <4>2. a[m] = t[m] /\ a[k] = t[k]
        BY <2>1, <4>1
      <4> QED
        BY <1>1, <3>1, <4>1, <4>2 DEF Distinct
    <3>3. ASSUME NEW x \in 1..Len(a), x # Len(a), a[x].name = s[i].name, a[x].path = s[i].path
          PROVE  FALSE
      <4>1. PICK n \in 1..i : a[x] = s[n] /\ n < i
        BY <2>2, <3>3
      <4>2. n \in 1..Len(s) /\ n # i
        BY <1>1, <4>1
      <4>3. s[n].name = s[i].name /\ s[n].path = s[i].path
        BY <3>3, <4>1
      <4> QED
        BY <4>2, <4>3 DEF Distinct
    <3>4. a[Len(a)] = s[i]
      BY <2>1
    <3> QED
      BY <3>1, <3>2, <3>3, <3>4
  <2>4. Part(s, S, i, a)
    BY <1>1, <2>1, <2>2, <2>3 DEF Part
  <2> QED
    BY <1>3, <2>4 DEF a
<1> QED
  BY <1>2, <1>3

LEMMA ChosenPart ==
  ASSUME NEW s \in Seq(Cookie), Distinct(s), NEW S
  PROVE  Part(s, S, Len(s), Chosen(s, S))
<1>0. Len(s) \in Nat
  OBVIOUS
<1>1. PICK f : Chooses(s, S, f, Len(s)) /\ Chosen(s, S) = f[Len(s)]
  BY <1>0, ChosenIs
<1>2. ASSUME NEW i \in 0..Len(s)
      PROVE  f[i] = IF i = 0 THEN <<>> ELSE IF i \in S THEN Append(f[i - 1], s[i]) ELSE f[i - 1]
  BY <1>1 DEF Chooses
<1> DEFINE Wrong == {i \in 0..Len(s) : ~Part(s, S, i, f[i])}
<1>3. ASSUME Wrong # {} PROVE FALSE
  <2>1. PICK i \in Wrong : \A j \in Wrong : i <= j
    <3>1. Wrong \subseteq Nat
      OBVIOUS
    <3> HIDE DEF Wrong
    <3> QED
      BY <1>3, <3>1, LeastNumber
  <2>2. i \in 0..Len(s) /\ ~Part(s, S, i, f[i])
    BY <2>1
  <2>3. i # 0
    <3>1. f[0] = <<>>
      BY <1>0, <1>2
    <3>2. Part(s, S, 0, <<>>)
      BY DEF Part, Distinct
    <3> QED
      BY <2>2, <3>1, <3>2
  <2>4. i \in 1..Len(s) /\ i - 1 \in 0..Len(s) /\ ~(i <= i - 1)
    BY <1>0, <2>2, <2>3
  <2>5. Part(s, S, i - 1, f[i - 1])
    <3>1. i - 1 \notin Wrong
      BY <2>1, <2>4
    <3> QED
      BY <2>4, <3>1
  <2>6. f[i] = IF i \in S THEN Append(f[i - 1], s[i]) ELSE f[i - 1]
    BY <1>2, <2>2, <2>3
  <2>7. Part(s, S, i, IF i \in S THEN Append(f[i - 1], s[i]) ELSE f[i - 1])
    BY <2>4, <2>5, PartGrows
  <2> QED
    BY <2>2, <2>6, <2>7
<1>4. Len(s) \in 0..Len(s)
  BY <1>0
<1> QED
  BY <1>1, <1>3, <1>4

LEMMA ChosenFits ==
  ASSUME NEW s, Fits(s), NEW S
  PROVE  /\ Fits(Chosen(s, S)) /\ Part(s, S, Len(s), Chosen(s, S))
         /\ s = <<>> => Chosen(s, S) = <<>>
<1>1. s \in Seq(Cookie) /\ Distinct(s) /\ Len(s) \in Nat /\ Len(s) <= MaxPerDomain
  BY DEF Fits
<1>2. Part(s, S, Len(s), Chosen(s, S))
  BY <1>1, ChosenPart
<1> DEFINE t == Chosen(s, S)
<1> HIDE DEF t
<1>3. t \in Seq(Cookie) /\ Len(t) \in Nat /\ Len(t) <= Len(s) /\ Distinct(t)
  BY <1>2 DEF Part, t
<1>4. Fits(t)
  BY <1>1, <1>3, JarAssumption DEF Fits
<1>5. s = <<>> => t = <<>>
  BY <1>3
<1> QED
  BY <1>2, <1>4, <1>5 DEF t

\* The first of the cookies used longest ago.
IsOldest(s, i) ==
  /\ \A j \in DOMAIN s : s[i].used <= s[j].used
  /\ \A j \in 1..(i - 1) : s[i].used < s[j].used

LEMMA OldestExists ==
  ASSUME NEW s \in Seq(Cookie), Len(s) > 0
  PROVE  \E i \in DOMAIN s : IsOldest(s, i)
<1>1. Len(s) \in Nat /\ DOMAIN s = 1..Len(s) /\ \A i \in 1..Len(s) : s[i].used \in Nat
  <2>1. Len(s) \in Nat /\ DOMAIN s = 1..Len(s) /\ \A i \in 1..Len(s) : s[i] \in Cookie
    OBVIOUS
  <2>2. \A c \in Cookie : c.used \in Nat
    BY DEF Cookie
  <2> QED
    BY <2>1, <2>2
<1> DEFINE U == {s[i].used : i \in 1..Len(s)}
<1>2. U \subseteq Nat /\ s[1].used \in U
  BY <1>1
<1>3. PICK u \in U : \A v \in U : u <= v
  <2> HIDE DEF U
  <2> QED
    BY <1>2, LeastNumber
<1> DEFINE I == {i \in 1..Len(s) : s[i].used = u}
<1>4. I \subseteq Nat /\ I # {}
  BY <1>1, <1>3
<1>5. PICK i \in I : \A j \in I : i <= j
  <2> HIDE DEF I
  <2> QED
    BY <1>4, LeastNumber
<1>6. i \in 1..Len(s) /\ s[i].used = u /\ i \in Nat
  BY <1>1, <1>5
<1>7. \A j \in 1..Len(s) : u <= s[j].used
  BY <1>3
<1>8. ASSUME NEW j \in 1..(i - 1) PROVE u < s[j].used
  <2>1. j \in 1..Len(s) /\ ~(i <= j)
    BY <1>1, <1>6
  <2>2. j \notin I
    BY <1>5, <2>1
  <2>3. s[j].used # u /\ s[j].used \in Nat /\ u \in Nat /\ u <= s[j].used
    BY <1>1, <1>6, <1>7, <2>1, <2>2
  <2> QED
    BY <2>3
<1> QED
  BY <1>1, <1>6, <1>7, <1>8 DEF IsOldest

LEMMA DomainFits ==
  ASSUME NEW s \in Seq(Cookie), Distinct(s), Len(s) <= MaxPerDomain + 1
  PROVE  Fits(DomainLimited(s))
<1>0. MaxPerDomain \in Nat /\ Len(s) \in Nat
  BY JarAssumption
<1>1. CASE MaxPerDomain = 0
  <2>1. DomainLimited(s) = <<>>
    BY <1>1 DEF DomainLimited
  <2>2. <<>> \in Seq(Cookie) /\ Len(<<>>) = 0
    OBVIOUS
  <2> QED
    BY <1>0, <2>1, <2>2 DEF Fits, Distinct
<1>2. CASE MaxPerDomain > 0 /\ Len(s) > MaxPerDomain
  <2> DEFINE i == CHOOSE j \in DOMAIN s : IsOldest(s, j)
  <2>1. DomainLimited(s) = RemoveAt(s, i)
    <3>1. DomainLimited(s) = CASE MaxPerDomain = 0 -> <<>>
                               [] MaxPerDomain > 0 /\ Len(s) > MaxPerDomain -> RemoveAt(s, i)
                               [] OTHER -> s
      BY Zenon DEF DomainLimited, IsOldest
    <3> HIDE DEF i
    <3> QED
      BY <1>0, <1>2, <3>1
  <2>2. i \in 1..Len(s)
    BY <1>0, <1>2, OldestExists
  <2> HIDE DEF i
  <2> DEFINE a == SubSeq(s, 1, i - 1)
             b == SubSeq(s, i + 1, Len(s))
             t == a \o b
  <2>3. t = RemoveAt(s, i)
    BY DEF RemoveAt
  <2>4. /\ a \in Seq(Cookie) /\ Len(a) = i - 1 /\ \A m \in 1..(i - 1) : a[m] = s[m]
    BY <1>0, <2>2
  <2>5. /\ b \in Seq(Cookie) /\ Len(b) = Len(s) - i
        /\ \A m \in 1..(Len(s) - i) : b[m] = s[m + i]
    BY <1>0, <2>2
  <2> HIDE DEF a, b
  <2>6. /\ t \in Seq(Cookie) /\ Len(t) = Len(s) - 1
        /\ \A m \in 1..(Len(a) + Len(b)) : t[m] = IF m <= Len(a) THEN a[m] ELSE b[m - Len(a)]
    BY <1>0, <2>2, <2>4, <2>5, ConcatProperties
  <2>7. \A m \in 1..(Len(s) - 1) : t[m] = IF m < i THEN s[m] ELSE s[m + 1]
    <3>1. SUFFICES ASSUME NEW m \in 1..(Len(s) - 1)
                   PROVE  t[m] = IF m < i THEN s[m] ELSE s[m + 1]
      OBVIOUS
    <3>2. CASE m < i
      <4>1. m \in 1..Len(a)
        BY <2>2, <2>4, <3>2
      <4>2. t[m] = a[m]
        BY <2>2, <2>4, <2>5, <2>6, <4>1
      <4> QED
        BY <2>4, <3>2, <4>1, <4>2
    <3>3. CASE ~(m < i)
      <4>1. m - Len(a) \in 1..Len(b) /\ (m - Len(a)) + i = m + 1
        BY <1>0, <2>2, <2>4, <2>5, <3>3
      <4>2. t[m] = b[m - Len(a)]
        BY <1>0, <2>2, <2>4, <2>5, <2>6, <3>3
      <4>3. b[m - Len(a)] = s[(m - Len(a)) + i]
        BY <2>5, <4>1
      <4> QED
        BY <3>3, <4>1, <4>2, <4>3
    <3> QED
      BY <3>2, <3>3
  <2> HIDE DEF t
  <2>8. Distinct(t)
    <3>1. SUFFICES ASSUME NEW m \in 1..Len(t), NEW n \in 1..Len(t),
                          t[m].name = t[n].name, t[m].path = t[n].path
                   PROVE  m = n
      BY DEF Distinct
    <3> DEFINE at(k) == IF k < i THEN k ELSE k + 1
    <3>2. at(m) \in 1..Len(s) /\ at(n) \in 1..Len(s) /\ (at(m) = at(n) => m = n)
      BY <1>0, <2>2, <2>6
    <3>3. t[m] = s[at(m)] /\ t[n] = s[at(n)]
      BY <1>0, <2>6, <2>7
    <3> HIDE DEF at
    <3>4. at(m) = at(n)
      BY <3>1, <3>2, <3>3 DEF Distinct
    <3> QED
      BY <3>2, <3>4
  <2>9. Fits(t)
    BY <1>0, <2>6, <2>8 DEF Fits
  <2> QED
    BY <2>1, <2>3, <2>9
<1>3. CASE MaxPerDomain # 0 /\ ~(Len(s) > MaxPerDomain)
  <2>1. DomainLimited(s) = s
    BY <1>0, <1>3 DEF DomainLimited
  <2> QED
    BY <1>0, <1>3, <2>1 DEF Fits
<1> QED
  BY <1>0, <1>1, <1>2, <1>3

-----------------------------------------------------------------------------
(* The jar.                                                                 *)

JarFits(j) ==
  /\ IsFiniteSet(DOMAIN j) /\ j = [d \in DOMAIN j |-> j[d]]
  /\ \A d \in DOMAIN j : Fits(j[d])

\* More domains than there may be have no cookies.
FewDomains(j) ==
  Cardinality(DOMAIN j) > MaxDomains => \A d \in DOMAIN j : j[d] = <<>>

\* The jar keeps its domains and their cookies but for when they were used or expire.
Alike(j, k) ==
  /\ DOMAIN k = DOMAIN j /\ k = [d \in DOMAIN k |-> k[d]]
  /\ \A d \in DOMAIN j :
       /\ k[d] = [i \in DOMAIN j[d] |-> k[d][i]]
       /\ \A i \in DOMAIN j[d] :
            k[d][i] \in Cookie /\ k[d][i].name = j[d][i].name /\ k[d][i].path = j[d][i].path

LEMMA AlikeFits ==
  ASSUME NEW j, JarFits(j), NEW k, Alike(j, k)
  PROVE  JarFits(k) /\ (FewDomains(j) => FewDomains(k))
<1>1. ASSUME NEW d \in DOMAIN j
      PROVE  Fits(k[d]) /\ (j[d] = <<>> => k[d] = <<>>)
  <2> DEFINE s == j[d]
             t == k[d]
  <2>1. s \in Seq(Cookie) /\ Len(s) \in Nat /\ Len(s) <= MaxPerDomain /\ Distinct(s)
        /\ DOMAIN s = 1..Len(s)
    BY DEF JarFits, Fits
  <2>2. /\ t = [i \in 1..Len(s) |-> t[i]]
        /\ \A i \in 1..Len(s) : t[i] \in Cookie /\ t[i].name = s[i].name /\ t[i].path = s[i].path
    BY <2>1 DEF Alike
  <2> HIDE DEF s, t
  <2>3. t \in [1..Len(s) -> Cookie]
    BY <2>2
  <2>4. t \in Seq(Cookie) /\ Len(t) = Len(s)
    BY <2>1, <2>3
  <2>5. Distinct(t)
    BY <2>1, <2>2, <2>4 DEF Distinct
  <2>6. s = <<>> => t = <<>>
    BY <2>1, <2>4
  <2> QED
    BY <2>1, <2>4, <2>5, <2>6 DEF Fits, s, t
<1>2. DOMAIN k = DOMAIN j /\ k = [d \in DOMAIN k |-> k[d]] /\ IsFiniteSet(DOMAIN k)
  BY DEF Alike, JarFits
<1>3. JarFits(k)
  BY <1>1, <1>2 DEF JarFits
<1>4. FewDomains(j) => FewDomains(k)
  BY <1>1, <1>2 DEF FewDomains
<1> QED
  BY <1>3, <1>4

LEMMA ImageFinite ==
  ASSUME NEW S, IsFiniteSet(S), NEW f
  PROVE  IsFiniteSet({f[x] : x \in S})
<1> DEFINE T == {f[x] : x \in S}
           g == [x \in S |-> f[x]]
<1>1. g \in Surjection(S, T)
  BY DEF Surjection
<1> HIDE DEF T, g
<1>2. IsFiniteSet(T)
  BY <1>1, FS_Surjection
<1> QED
  BY <1>2 DEF T

\* There are finitely many cookies.
LEMMA CookiesFinite ==
  ASSUME NEW j, JarFits(j)
  PROVE  /\ IsFiniteSet({c.used : c \in AllCookies(j)}) /\ AllCookies(j) \subseteq Cookie
         /\ Now(j) \in Nat
<1>1. ASSUME NEW d \in DOMAIN j PROVE IsFiniteSet(ToSet(j[d])) /\ ToSet(j[d]) \subseteq Cookie
  <2>1. j[d] \in Seq(Cookie)
    BY DEF JarFits, Fits
  <2>2. DOMAIN j[d] = 1..Len(j[d]) /\ Len(j[d]) \in Nat /\ ToSet(j[d]) \subseteq Cookie
    BY <2>1 DEF ToSet
  <2>3. IsFiniteSet(DOMAIN j[d])
    BY <2>2, FS_Interval
  <2> QED
    BY <2>2, <2>3, ImageFinite DEF ToSet
<1> DEFINE sets == [d \in DOMAIN j |-> ToSet(j[d])]
           C == {sets[d] : d \in DOMAIN j}
<1>2. IsFiniteSet(DOMAIN j)
  BY DEF JarFits
<1>3. IsFiniteSet(C)
  <2> HIDE DEF sets
  <2> QED
    BY <1>2, ImageFinite
<1>4. AllCookies(j) = UNION C
  BY DEF AllCookies
<1>5. \A T \in C : IsFiniteSet(T) /\ T \subseteq Cookie
  BY <1>1
<1> HIDE DEF C
<1>6. IsFiniteSet(AllCookies(j)) /\ AllCookies(j) \subseteq Cookie
  BY <1>3, <1>4, <1>5, FS_UNION
<1> DEFINE A == AllCookies(j)
           when == [c \in A |-> c.used]
           uses == {c.used : c \in A}
<1>7. uses = {when[c] : c \in A}
  OBVIOUS
<1>8. IsFiniteSet(uses)
  <2> HIDE DEF when, A
  <2>1. IsFiniteSet(A)
    BY <1>6 DEF A
  <2>2. IsFiniteSet({when[c] : c \in A})
    BY <2>1, ImageFinite
  <2> QED
    BY <1>7, <2>2
<1>9. Cardinality(uses) \in Nat
  BY <1>8, FS_CardinalityType
<1>10. Now(j) = 1 + Cardinality(uses)
  BY DEF Now
<1> QED
  BY <1>6, <1>8, <1>9, <1>10

\* A cookie that was used, or ranked.
LEMMA UsedCookie ==
  ASSUME NEW c \in Cookie, NEW n \in Nat
  PROVE  LET k == [c EXCEPT !.used = n]
         IN  k \in Cookie /\ k.name = c.name /\ k.path = c.path
BY DEF Cookie

LEMMA RankedFits ==
  ASSUME NEW j, JarFits(j)
  PROVE  JarFits(Ranked(j)) /\ (FewDomains(j) => FewDomains(Ranked(j)))
<1> DEFINE uses == {c.used : c \in AllCookies(j)}
           n(c) == Cardinality({u \in uses : u < c.used})
           rank(c) == [c EXCEPT !.used = n(c)]
           k == Ranked(j)
<1>1. k = [d \in DOMAIN j |-> [i \in DOMAIN j[d] |-> rank(j[d][i])]]
  BY DEF Ranked
<1>2. ASSUME NEW c \in Cookie
      PROVE  rank(c) \in Cookie /\ rank(c).name = c.name /\ rank(c).path = c.path
  <2>1. n(c) \in Nat
    <3>1. {u \in uses : u < c.used} \subseteq uses
      OBVIOUS
    <3>2. IsFiniteSet(uses)
      BY CookiesFinite
    <3> HIDE DEF uses
    <3> QED
      BY <3>1, <3>2, FS_Subset, FS_CardinalityType
  <2> HIDE DEF n
  <2> QED
    BY <2>1, UsedCookie
<1> HIDE DEF k, rank
<1>3. \A d \in DOMAIN j : \A i \in DOMAIN j[d] : j[d][i] \in Cookie
  BY DEF JarFits, Fits
<1>4. Alike(j, k)
  BY <1>1, <1>2, <1>3 DEF Alike
<1> QED
  BY <1>4, AlikeFits DEF k

LEMMA AgedFits ==
  ASSUME NEW j, JarFits(j)
  PROVE  JarFits(Aged(j)) /\ (FewDomains(j) => FewDomains(Aged(j)))
<1> DEFINE aged(c) == [c EXCEPT !.expires = IF @ = "later" THEN "past" ELSE @]
           k == Aged(j)
<1>1. k = [d \in DOMAIN j |-> [i \in DOMAIN j[d] |-> aged(j[d][i])]]
  BY DEF Aged
<1>2. ASSUME NEW c \in Cookie
      PROVE  aged(c) \in Cookie /\ aged(c).name = c.name /\ aged(c).path = c.path
  <2>1. "past" \in Values
    BY DEF Values
  <2> QED
    BY <2>1 DEF Cookie
<1> HIDE DEF k, aged
<1>3. \A d \in DOMAIN j : \A i \in DOMAIN j[d] : j[d][i] \in Cookie
  BY DEF JarFits, Fits
<1>4. Alike(j, k)
  BY <1>1, <1>2, <1>3 DEF Alike
<1> QED
  BY <1>4, AlikeFits DEF k

LEMMA PrunedFits ==
  ASSUME NEW j, JarFits(j)
  PROVE  JarFits(Pruned(j)) /\ (FewDomains(j) => FewDomains(Pruned(j)))
<1> DEFINE S(d) == {i \in DOMAIN j[d] : j[d][i].expires # "past"}
           fresh(d) == Chosen(j[d], S(d))
           D == {e \in DOMAIN j : fresh(e) # <<>>}
           k == Pruned(j)
<1>1. k = [d \in D |-> fresh(d)]
  BY DEF Pruned
<1>2. \A d \in DOMAIN j : Fits(fresh(d)) /\ (j[d] = <<>> => fresh(d) = <<>>)
  <2> HIDE DEF S
  <2> QED
    BY ChosenFits DEF JarFits
<1> HIDE DEF k, fresh
<1>3. D \subseteq DOMAIN j /\ IsFiniteSet(DOMAIN j)
  BY DEF JarFits
<1>4. IsFiniteSet(D) /\ Cardinality(D) <= Cardinality(DOMAIN j)
      /\ Cardinality(D) \in Nat /\ Cardinality(DOMAIN j) \in Nat
  <2> HIDE DEF D
  <2> QED
    BY <1>3, FS_Subset, FS_CardinalityType
<1>5. DOMAIN k = D /\ \A d \in D : k[d] = fresh(d) /\ d \in DOMAIN j /\ fresh(d) # <<>>
  BY <1>1
<1>6. JarFits(k)
  <2> HIDE DEF D
  <2> QED
    BY <1>1, <1>2, <1>4, <1>5 DEF JarFits
<1>7. ASSUME FewDomains(j) PROVE FewDomains(k)
  <2> HIDE DEF D
  <2>1. SUFFICES ASSUME Cardinality(D) > MaxDomains, NEW d \in D PROVE k[d] = <<>>
    BY <1>5 DEF FewDomains
  <2>2. Cardinality(DOMAIN j) > MaxDomains
    BY <1>4, <2>1, JarAssumption
  <2> QED
    BY <1>2, <1>5, <1>7, <2>2 DEF FewDomains
<1> QED
  BY <1>6, <1>7 DEF k

\* cookie_header.
LEMMA HeaderFits ==
  ASSUME NEW j, JarFits(j), FewDomains(j), NEW url
  PROVE  JarFits(AfterHeader(j, url)) /\ FewDomains(AfterHeader(j, url))
<1> DEFINE p == Pruned(j)
           used(d, c) == IF Applies(d, c, url) THEN [c EXCEPT !.used = Now(p)] ELSE c
           k == [d \in DOMAIN p |-> [i \in DOMAIN p[d] |-> used(d, p[d][i])]]
<1>1. AfterHeader(j, url) = Ranked(k)
  BY DEF AfterHeader
<1>2. JarFits(p) /\ FewDomains(p)
  BY PrunedFits
<1> HIDE DEF p
<1>3. ASSUME NEW c \in Cookie, NEW d
      PROVE  used(d, c) \in Cookie /\ used(d, c).name = c.name /\ used(d, c).path = c.path
  <2>1. Now(p) \in Nat
    BY <1>2, CookiesFinite
  <2>2. CASE Applies(d, c, url)
    BY <2>1, <2>2, UsedCookie
  <2>3. CASE ~Applies(d, c, url)
    BY <2>3
  <2> QED
    BY <2>2, <2>3
<1> HIDE DEF used
<1>4. \A d \in DOMAIN p : \A i \in DOMAIN p[d] : p[d][i] \in Cookie
  BY <1>2 DEF JarFits, Fits
<1>5. Alike(p, k)
  BY <1>3, <1>4 DEF Alike
<1> HIDE DEF k
<1>6. JarFits(k) /\ FewDomains(k)
  BY <1>2, <1>5, AlikeFits
<1> QED
  BY <1>1, <1>6, RankedFits

\* One Set-Cookie line: what it replaces is gone before it is added.
LEMMA LineFits ==
  ASSUME NEW j, JarFits(j), NEW line \in Sent, NEW url \in Urls \cup {Bad}, NEW now \in Nat
  PROVE  JarFits(WithLine(j, line, url, now))
<1> DEFINE named == line.domain # None /\ DomainMatch(url.host, line.domain)
           domain == IF named THEN line.domain ELSE url.host
           path == IF line.path # None THEN line.path ELSE DefaultCookiePath(url.path)
           old == IF domain \in DOMAIN j THEN j[domain] ELSE <<>>
           S == {i \in DOMAIN old : old[i].name # line.name \/ old[i].path # path}
           others == Chosen(old, S)
           new == [name |-> line.name, path |-> path, hostOnly |-> ~named,
                   expires |-> line.age, used |-> now]
           some == IF line.age = "past" THEN others ELSE DomainLimited(Append(others, new))
           k == [d \in DOMAIN j \cup {domain} |-> IF d # domain THEN j[d] ELSE some]
<1>1. WithLine(j, line, url, now) = k
  BY Zenon DEF WithLine
<1>2. new \in Cookie /\ new.name = line.name /\ new.path = path
  <2>1. line.name \in Values /\ line.path \in Values /\ line.age \in Values
    BY DEF Values
  <2>2. DefaultCookiePath(url.path) \in Values
    BY DEF Values
  <2>3. (~named) \in Values
    <3>1. (~named) \in BOOLEAN
      BY Zenon
    <3>2. BOOLEAN \subseteq Values
      BY Zenon DEF Values
    <3> HIDE DEF named
    <3> QED
      BY <3>1, <3>2
  <2>4. path \in Values
    BY <2>1, <2>2
  <2> DEFINE only == ~named
  <2>5. new = [name |-> line.name, path |-> path, hostOnly |-> only, expires |-> line.age,
               used |-> now] /\ only \in Values
    BY <2>3
  <2> HIDE DEF only, path, new
  <2> QED
    BY <2>1, <2>4, <2>5 DEF Cookie
<1>3. Fits(old)
  <2>1. CASE domain \in DOMAIN j
    BY <2>1 DEF JarFits
  <2>2. CASE domain \notin DOMAIN j
    <3>1. old = <<>> /\ <<>> \in Seq(Cookie) /\ Len(<<>>) = 0
      BY <2>2
    <3>2. Distinct(<<>>) /\ 0 <= MaxPerDomain
      BY JarAssumption DEF Distinct
    <3>3. Fits(<<>>)
      BY <3>1, <3>2 DEF Fits
    <3> QED
      BY <3>1, <3>3
  <2> QED
    BY <2>1, <2>2
<1> HIDE DEF new, domain, old, path, named
<1>4. Fits(others) /\ Part(old, S, Len(old), others)
  <2> HIDE DEF S
  <2> QED
    BY <1>3, ChosenFits
<1>5. \A m \in 1..Len(others) : ~(others[m].name = new.name /\ others[m].path = new.path)
  <2>1. \A n \in S : ~(old[n].name = new.name /\ old[n].path = new.path)
    BY <1>2
  <2> HIDE DEF S, others
  <2> QED
    BY <1>4, <2>1 DEF Part
<1> HIDE DEF others
<1>6. Fits(DomainLimited(Append(others, new)))
  <2> DEFINE a == Append(others, new)
  <2>1. others \in Seq(Cookie) /\ Len(others) \in Nat /\ Len(others) <= MaxPerDomain /\ Distinct(others)
    BY <1>4 DEF Fits
  <2>2. /\ a \in Seq(Cookie) /\ Len(a) = Len(others) + 1 /\ a[Len(others) + 1] = new
        /\ \A m \in 1..Len(others) : a[m] = others[m]
    BY <1>2, <2>1
  <2> HIDE DEF a
  <2>3. Len(a) <= MaxPerDomain + 1
    BY <2>1, <2>2, JarAssumption
  <2>4. \A m \in 1..Len(a) : m = Len(others) + 1 \/ m \in 1..Len(others)
    BY <2>1, <2>2
  <2>5. Distinct(a)
    <3>1. SUFFICES ASSUME NEW m \in 1..Len(a), NEW n \in 1..Len(a),
                          a[m].name = a[n].name, a[m].path = a[n].path
                   PROVE  m = n
      BY DEF Distinct
    <3>2. CASE m \in 1..Len(others) /\ n \in 1..Len(others)
      BY <2>1, <2>2, <3>1, <3>2 DEF Distinct
    <3>3. CASE m = Len(others) + 1 /\ n = Len(others) + 1
      BY <3>3
    <3>4. CASE m \in 1..Len(others) /\ n = Len(others) + 1
      BY <1>5, <2>2, <3>1, <3>4
    <3>5. CASE m = Len(others) + 1 /\ n \in 1..Len(others)
      BY <1>5, <2>2, <3>1, <3>5
    <3> QED
      BY <2>4, <3>2, <3>3, <3>4, <3>5
  <2>6. Fits(DomainLimited(a))
    BY <2>2, <2>3, <2>5, DomainFits
  <2> QED
    BY <2>6 DEF a
<1>7. Fits(some)
  BY <1>4, <1>6
<1> HIDE DEF some
<1>8. IsFiniteSet(DOMAIN j \cup {domain})
  BY FS_AddElement DEF JarFits
<1>9. JarFits(k)
  BY <1>7, <1>8 DEF JarFits
<1> QED
  BY <1>1, <1>9

\* f is what WithLines computes, up to n.
Adds(j, lines, url, now, f, n) ==
  f = [i \in 0..n |-> IF i = 0 THEN j ELSE WithLine(f[i - 1], lines[i], url, now)]

LEMMA AddsExists ==
  ASSUME NEW j, NEW lines, NEW url, NEW now, NEW n \in Nat
  PROVE  \E f : Adds(j, lines, url, now, f, n)
<1> DEFINE W(x, i) == WithLine(x, lines[i], url, now)
           A(f, m) == f = [i \in 0..m |-> IF i = 0 THEN j ELSE W(f[i - 1], i)]
           Wrong == {m \in 0..n : ~\E f : A(f, m)}
<1>0. \A f, m : Adds(j, lines, url, now, f, m) <=> A(f, m)
  BY DEF Adds
<1> HIDE DEF W
<1>1. ASSUME Wrong # {} PROVE FALSE
  <2>1. PICK m \in Wrong : \A k \in Wrong : m <= k
    <3>1. Wrong \subseteq Nat
      OBVIOUS
    <3> HIDE DEF Wrong
    <3> QED
      BY <1>1, <3>1, LeastNumber
  <2>2. m \in 0..n /\ ~\E f : A(f, m)
    BY <2>1
  <2>3. m # 0
    <3> DEFINE f == [i \in 0..0 |-> j]
    <3>1. A(f, 0)
      OBVIOUS
    <3> QED
      BY <2>2, <3>1
  <2>4. m - 1 \in 0..n /\ m - 1 \in Nat /\ ~(m <= m - 1)
    BY <2>2, <2>3
  <2>5. PICK f : A(f, m - 1)
    <3>1. m - 1 \notin Wrong
      BY <2>1, <2>4
    <3> QED
      BY <2>4, <3>1
  <2> DEFINE last == W(f[m - 1], m)
             h == [i \in 0..m |-> IF i = m THEN last ELSE f[i]]
  <2>6. ASSUME NEW i \in 0..m
        PROVE  h[i] = IF i = 0 THEN j ELSE W(h[i - 1], i)
    <3>1. CASE i = m
      <4>1. h[i] = last /\ h[i - 1] = f[m - 1] /\ i # 0
        BY <2>2, <2>3, <2>4, <3>1
      <4> QED
        BY <3>1, <4>1 DEF last
    <3>2. CASE i # m
      <4>1. i \in 0..(m - 1) /\ h[i] = f[i] /\ (i # 0 => h[i - 1] = f[i - 1])
        BY <2>2, <2>4, <3>2
      <4>2. f[i] = IF i = 0 THEN j ELSE W(f[i - 1], i)
        BY <2>5, <4>1
      <4> QED
        BY <4>1, <4>2
    <3> QED
      BY <3>1, <3>2
  <2>7. h = [i \in 0..m |-> h[i]]
    OBVIOUS
  <2> HIDE DEF h
  <2>8. A(h, m)
    BY <2>6, <2>7
  <2> QED
    BY <2>2, <2>8
<1>2. n \in 0..n
  OBVIOUS
<1>3. \E f : A(f, n)
  <2> HIDE DEF A
  <2> QED
    BY <1>1, <1>2
<1> HIDE DEF A
<1> QED
  BY <1>0, <1>3

LEMMA LinesFit ==
  ASSUME NEW j, JarFits(j), NEW lines \in Lines, NEW url \in Urls \cup {Bad}, NEW now \in Nat
  PROVE  JarFits(WithLines(j, lines, url, now))
<1>0. Len(lines) \in Nat /\ \A i \in 1..Len(lines) : lines[i] \in Sent
  <2>1. lines \in Seq(ToSet(lines))
    BY PolicyAssumption
  <2>2. Len(lines) \in Nat /\ \A i \in 1..Len(lines) : lines[i] \in ToSet(lines)
    BY <2>1
  <2> QED
    BY <2>2 DEF Sent
<1>1. WithLines(j, lines, url, now)
        = (CHOOSE f : Adds(j, lines, url, now, f, Len(lines)))[Len(lines)]
  BY Zenon DEF WithLines, Adds
<1>2. PICK f : /\ Adds(j, lines, url, now, f, Len(lines))
               /\ WithLines(j, lines, url, now) = f[Len(lines)]
  BY <1>0, <1>1, AddsExists
<1>3. ASSUME NEW i \in 0..Len(lines)
      PROVE  f[i] = IF i = 0 THEN j ELSE WithLine(f[i - 1], lines[i], url, now)
  BY <1>2 DEF Adds
<1> DEFINE Wrong == {i \in 0..Len(lines) : ~JarFits(f[i])}
<1>4. ASSUME Wrong # {} PROVE FALSE
  <2>1. PICK i \in Wrong : \A m \in Wrong : i <= m
    <3>1. Wrong \subseteq Nat
      OBVIOUS
    <3> HIDE DEF Wrong
    <3> QED
      BY <1>4, <3>1, LeastNumber
  <2>2. i \in 0..Len(lines) /\ ~JarFits(f[i])
    BY <2>1
  <2>3. i # 0
    <3>1. f[0] = j
      BY <1>0, <1>3
    <3> QED
      BY <2>2, <3>1
  <2>4. i \in 1..Len(lines) /\ i - 1 \in 0..Len(lines) /\ ~(i <= i - 1)
    BY <1>0, <2>2, <2>3
  <2>5. JarFits(f[i - 1])
    <3>1. i - 1 \notin Wrong
      BY <2>1, <2>4
    <3> QED
      BY <2>4, <3>1
  <2>6. f[i] = WithLine(f[i - 1], lines[i], url, now)
    BY <1>3, <2>2, <2>3
  <2>7. JarFits(WithLine(f[i - 1], lines[i], url, now))
    BY <1>0, <2>4, <2>5, LineFits
  <2> QED
    BY <2>2, <2>6, <2>7
<1>5. Len(lines) \in 0..Len(lines)
  BY <1>0
<1> QED
  BY <1>2, <1>4, <1>5

\* Domains with cookies go until there are few enough, or none of them is left.
LEMMA DomainsFit ==
  ASSUME NEW j, JarFits(j), NEW k \in DomainsLimited(j)
  PROVE  JarFits(k) /\ FewDomains(k)
<1>0. MaxDomains \in Nat
  BY JarAssumption
<1>1. CASE MaxDomains = 0
  <2>1. k = EmptyJar
    BY <1>1 DEF DomainsLimited
  <2>2. DOMAIN k = {} /\ k = [d \in DOMAIN k |-> k[d]]
    BY <2>1 DEF EmptyJar
  <2> QED
    BY <2>2, FS_EmptySet DEF JarFits, FewDomains
<1>2. CASE MaxDomains # 0
  <2> DEFINE D == DOMAIN j
             full == {d \in D : j[d] # <<>>}
             excess == Cardinality(D) - MaxDomains
             many == IF excess <= 0 THEN 0
                     ELSE IF excess < Cardinality(full) THEN excess ELSE Cardinality(full)
  <2>1. PICK r \in SUBSET full : Cardinality(r) = many /\ k = [d \in D \ r |-> j[d]]
    BY <1>2 DEF DomainsLimited
  <2>2. \A d \in D : j[d] # <<>> => d \in full
    OBVIOUS
  <2>3. full \subseteq D /\ IsFiniteSet(D) /\ r \subseteq full
    BY DEF JarFits
  <2> HIDE DEF D, full
  <2>4. /\ IsFiniteSet(full) /\ IsFiniteSet(r) /\ IsFiniteSet(D \ r)
        /\ Cardinality(D) \in Nat /\ Cardinality(full) \in Nat /\ Cardinality(D \ r) \in Nat
        /\ (Cardinality(full) = Cardinality(r) => full = r)
    BY <2>3, FS_Subset, FS_Difference, FS_CardinalityType
  <2>5. Cardinality(D \ r) = Cardinality(D) - Cardinality(r)
    <3>1. D \cap r = r
      BY <2>3
    <3> QED
      BY <2>3, <3>1, FS_Difference
  <2>6. JarFits(k)
    BY <2>1, <2>4 DEF JarFits, D
  <2>7. Cardinality(D \ r) > MaxDomains => r = full
    BY <1>0, <2>1, <2>4, <2>5
  <2>8. FewDomains(k)
    <3>1. DOMAIN k = D \ r /\ \A d \in D \ r : k[d] = j[d]
      BY <2>1
    <3> QED
      BY <2>2, <2>7, <3>1 DEF FewDomains
  <2> QED
    BY <2>6, <2>8
<1> QED
  BY <1>1, <1>2

\* add_from_response.
LEMMA ResponseFits ==
  ASSUME NEW j, JarFits(j), NEW lines \in Lines, NEW url \in Urls \cup {Bad},
         NEW k \in AfterResponse(j, lines, url)
  PROVE  JarFits(k) /\ FewDomains(k)
<1> DEFINE p == Pruned(j)
           full == WithLines(p, lines, url, Now(p))
<1>1. PICK m \in DomainsLimited(full) : k = Ranked(m)
  BY DEF AfterResponse
<1>2. JarFits(p)
  BY PrunedFits
<1> HIDE DEF p
<1>3. Now(p) \in Nat
  BY <1>2, CookiesFinite
<1>4. JarFits(full)
  BY <1>2, <1>3, LinesFit
<1> HIDE DEF full
<1>5. JarFits(m) /\ FewDomains(m)
  BY <1>4, DomainsFit
<1> QED
  BY <1>1, <1>5, RankedFits

-----------------------------------------------------------------------------

JarInv == JarFits(jar) /\ FewDomains(jar)

LEMMA JarAtFirst == Init => JarInv
<1>1. DOMAIN EmptyJar = {} /\ EmptyJar = [d \in DOMAIN EmptyJar |-> EmptyJar[d]]
  BY DEF EmptyJar
<1> QED
  BY <1>1, FS_EmptySet DEF Init, JarInv, JarFits, FewDomains

\* Whatever the calls that share the jar do with it, one after the other.
LEMMA JarStays ==
  ASSUME Inv, JarInv, [Next]_vars
  PROVE  JarInv'
<1>1. CASE UNCHANGED jar
  BY <1>1 DEF JarInv
<1>2. ASSUME NEW c \in Calls, Send(c) PROVE JarInv'
  <2>1. jar' = AfterHeader(jar, call[c].url) \/ jar' = jar
    BY <1>2 DEF Send
  <2>2. CASE jar' = AfterHeader(jar, call[c].url)
    BY <2>2, HeaderFits DEF JarInv
  <2> QED
    BY <1>1, <2>1, <2>2
<1>3. ASSUME NEW c \in Calls, Respond(c) PROVE JarInv'
  <2>1. PICK lines \in Lines : jar' = jar \/ jar' \in AfterResponse(jar, lines, call[c].url)
    BY <1>3 DEF Respond
  <2>2. CASE jar' \in AfterResponse(jar, lines, call[c].url)
    <3>1. call[c].url \in Urls \cup {Bad}
      BY DEF Inv, CallRecord
    <3> QED
      BY <2>2, <3>1, ResponseFits DEF JarInv
  <2> QED
    BY <1>1, <2>1, <2>2
<1>4. CASE TimePasses
  BY <1>4, AgedFits DEF JarInv, TimePasses
<1>5. ASSUME NEW c \in Calls,
             \/ StartPolicy(c) \/ SubmitDirect(c) \/ RawAnswer(c)
             \/ Resend(c) \/ SendNowhere(c) \/ NextAttempt(c)
      PROVE  UNCHANGED jar
  BY <1>5 DEF StartPolicy, SubmitDirect, RawAnswer, Resend, SendNowhere, NextAttempt
<1> QED
  BY <1>1, <1>2, <1>3, <1>4, <1>5 DEF Next, vars

\* The limits of the jar hold between the calls that use it at the same time,
\* whatever the servers set and delete: enforce_domain_limit_locked and
\* enforce_domain_count_locked leave no domain with too many cookies, no two
\* cookies with the same name and path, and no more domains with cookies than
\* there may be.
THEOREM JarKeepsItsLimits == Spec => []JarWithinLimits
<1>1. JarInv => JarWithinLimits
  <2>1. SUFFICES ASSUME JarInv PROVE JarWithinLimits
    OBVIOUS
  <2>2. ASSUME NEW d \in DOMAIN jar
        PROVE  /\ Len(jar[d]) <= MaxPerDomain
               /\ \A i, j \in DOMAIN jar[d] :
                    jar[d][i].name = jar[d][j].name /\ jar[d][i].path = jar[d][j].path => i = j
    <3>1. Fits(jar[d])
      BY <2>1 DEF JarInv, JarFits
    <3>2. DOMAIN jar[d] = 1..Len(jar[d])
      BY <3>1 DEF Fits
    <3> QED
      BY <3>1, <3>2 DEF Fits, Distinct
  <2>3. ASSUME Cardinality(DOMAIN jar) > MaxDomains PROVE AllCookies(jar) = {}
    <3>1. \A d \in DOMAIN jar : ToSet(jar[d]) = {}
      BY <2>1, <2>3 DEF JarInv, FewDomains, ToSet
    <3> QED
      BY <3>1 DEF AllCookies
  <2> QED
    BY <2>2, <2>3 DEF JarWithinLimits
<1>2. Inv /\ JarInv /\ [Next]_vars => JarInv'
  BY JarStays
<1> QED
  BY <1>1, <1>2, JarAtFirst, InvHolds, PTL DEF Spec
=============================================================================
