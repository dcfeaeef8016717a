--------------------------- MODULE RequestPolicy ----------------------------
(***************************************************************************)
(* What HttpClient does around a request (src/http_client.cpp): the loop   *)
(* of attempts and, in each, the loop of redirects of                      *)
(* request_with_httpx_policy, the cookie jar that all requests share,      *)
(* submit with its callback and its way around the policy; and, within     *)
(* raw_request, how often the request is handed to a transport.            *)
(*                                                                         *)
(* A call waits for the transport (raw_request) and in its backoff; what   *)
(* other calls do to the jar meanwhile is interleaved.  A URL is a host    *)
(* and a path, or Bad, which parse_url refuses.  What a redirect does to   *)
(* method and body is left out: no decision depends on it, since a retry   *)
(* looks at the request the caller made.                                   *)
(***************************************************************************)
EXTENDS CookieJar

CONSTANTS
  Calls,         \* requests, by async_request or by submit
  Wishes,        \* what callers ask for
  Urls,          \* the URLs a redirect may lead to
  Bad,           \* a URL that cannot be parsed
  Lines,         \* the sequences of Set-Cookie lines a response may carry
  MaxRedirects   \* max_redirects

\* cookies: "off", "jar", or "own" if the caller brings a Cookie header and the
\* jar is on.  replayable: is_replayable_request.  plain: disable_proxy, or a
\* proxy, of its own: apply_defaults does not look at the URL.  policy: the
\* protocol policy, "force" for ForceH1 and ForceH2 (and for what a proxy makes of
\* Auto and PreferH1).
Policies == {"force", "auto", "preferH1", "preferH2"}

AllWishes ==
  [via : {"await", "submit"}, policy : Policies, replayable : BOOLEAN, follow : BOOLEAN,
   cookies : {"off", "jar", "own"}, retries : Int, plain : BOOLEAN, url : Urls \cup {Bad}]

ASSUME PolicyAssumption ==
  /\ IsFiniteSet(Calls) /\ Bad \notin Urls /\ None \notin Urls
  /\ Wishes \subseteq AllWishes /\ MaxRedirects \in Nat
  /\ \A lines \in Lines : lines \in Seq(ToSet(lines))

VARIABLES
  jar,    \* cookie_jar_
  call    \* each call: what it asks for and where it is

vars == <<jar, call>>

\* "ready": at the top of the inner loop; "sent": in raw_request; "raw": handed
\* to the transport by submit; "threw", "lost": ended by an exception, which in
\* the second case nobody catches.  tries counts the calls of raw_request, sends
\* how often the present one has handed the request to a transport: each time it may
\* reach the server.  leg: what raw_request is at, "h2" or "h1" if another protocol
\* comes after a failure, "probe", or "last", whose outcome is that of raw_request.
Fresh(wish) ==
  [wish |-> wish, at |-> "ready", url |-> wish.url, attempt |-> 0, hops |-> 0,
   cookie |-> wish.cookies = "own", tries |-> 0, sends |-> 0, leg |-> "last"]

Init ==
  /\ jar = EmptyJar
  /\ \E wish \in [Calls -> Wishes] :
       call = [c \in Calls |-> [Fresh(wish[c]) EXCEPT !.at = "idle"]]

UsesJar(c) == call[c].wish.cookies # "off"

-----------------------------------------------------------------------------

\* needs_httpx_policy, of what is modelled here.
NeedsPolicy(wish) == wish.follow \/ wish.retries > 0 \/ wish.cookies # "off"

\* An exception leaves the coroutine: async_request rethrows it, the coroutine
\* of submit is detached.
Throw(c) ==
  call' = [call EXCEPT ![c].at = IF call[c].wish.via = "submit" THEN "lost" ELSE "threw"]

\* async_request: apply_defaults, which parses the URL, and the first attempt.
\* With a negative max_retries there is none.
StartPolicy(c) ==
  LET wish == call[c].wish
  IN  /\ call[c].at = "idle"
      /\ \/ /\ wish.url = Bad /\ ~wish.plain
            /\ Throw(c)
         \/ /\ wish.url # Bad \/ wish.plain
            /\ call' = [call EXCEPT ![c].at = IF wish.retries < 0 THEN "answered" ELSE "ready"]
      /\ UNCHANGED jar

\* submit without a policy: straight to the transport, where a URL that cannot
\* be parsed is an answer (unless the protocol policy is ForceH2, PreferH1 or
\* PreferH2, or Auto with an unknown route: then it is StartPolicy after all).
SubmitDirect(c) ==
  LET wish == call[c].wish
  IN  /\ call[c].at = "idle"
      /\ wish.via = "submit" /\ ~NeedsPolicy(wish) /\ wish.policy \in {"force", "auto"}
      /\ call' = [call EXCEPT ![c] =
           IF wish.url = Bad THEN [@ EXCEPT !.at = "answered"]
                             ELSE [@ EXCEPT !.at = "raw", !.tries = 1, !.sends = 1]]
      /\ UNCHANGED jar

RawAnswer(c) ==
  /\ call[c].at = "raw"
  /\ call' = [call EXCEPT ![c].at = "answered"]
  /\ UNCHANGED jar

\* What raw_request begins with: one transport and no other, or one that another
\* follows.  Auto does so only for the request that detects the protocol.
FirstLegs(policy) ==
  CASE policy = "force" -> {"last"}
    [] policy = "auto" -> {"last", "h2"}
    [] policy = "preferH1" -> {"h1"}
    [] policy = "preferH2" -> {"h2"}

\* The top of the inner loop: the Cookie header is made if there is none yet,
\* and the request goes out.
Send(c) ==
  LET looks == UsesJar(c) /\ ~call[c].cookie
  IN  /\ call[c].at = "ready" /\ call[c].url # Bad
      /\ jar' = IF looks THEN AfterHeader(jar, call[c].url) ELSE jar
      /\ \E leg \in FirstLegs(call[c].wish.policy) :
           call' = [call EXCEPT ![c].at = "sent", ![c].tries = @ + 1, ![c].sends = 1, ![c].leg = leg,
             ![c].cookie = @ \/ (looks /\ FindsCookies(jar, call[c].url))]

\* What comes after a leg that failed.  H2: the probe, which sends the request if
\* it finds HTTP/1.1, and otherwise goes on to H2 or H1 without having sent it.
NextLegs(leg) ==
  CASE leg = "h2" -> {"probe", "last"}
    [] leg \in {"probe", "h1"} -> {"last"}
    [] leg = "last" -> {}

\* The transport returned an error: the request goes out again, within the same
\* raw_request, and whether or not it may be replayed.
Resend(c) ==
  /\ call[c].at = "sent"
  /\ \E leg \in NextLegs(call[c].leg) :
       call' = [call EXCEPT ![c].sends = @ + 1, ![c].leg = leg]
  /\ UNCHANGED jar

\* The same with a URL that cannot be parsed: the jar throws, before the request
\* or after the transport made an error of it.
SendNowhere(c) ==
  /\ call[c].at = "ready" /\ call[c].url = Bad
  /\ IF UsesJar(c) THEN Throw(c) ELSE call' = [call EXCEPT ![c].at = "answered"]
  /\ UNCHANGED jar

-----------------------------------------------------------------------------

\* Where a Location may lead: resolve_redirect_url takes an absolute one as it is.
Targets == Urls \cup {Bad}

\* The answers after which another attempt may help: a status of retry_statuses,
\* or a retriable error of a reused connection.
Retriable == {"retry_status", "retry_transport"}

\* What raw_request may return, but for its cookies: a redirect with a Location,
\* one of these, or anything else (a body that does not decode is an error of
\* this kind, and so is an exception of any leg).
Answers ==
  [kind : {"redirect"}, to : Targets] \cup [kind : Retriable \cup {"other"}, to : {None}]

\* The answer is a redirect that is followed; one too many is an error instead.
Follows(c, answer) ==
  /\ call[c].wish.follow
  /\ answer.kind = "redirect"
  /\ call[c].hops < MaxRedirects

\* Mutant: what failed on a reused connection is sent again in any case.
RetriesAnyway(c, answer) ==
  /\ call[c].attempt < call[c].wish.retries
  /\ \/ answer.kind = "retry_status" /\ call[c].wish.replayable
     \/ answer.kind = "retry_transport"

\* There are attempts left, and the request may be replayed.
Retries(c, answer) ==
  /\ call[c].attempt < call[c].wish.retries
  /\ call[c].wish.replayable
  /\ answer.kind \in Retriable

\* raw_request returns: the jar takes the cookies, then comes the next hop, the
\* backoff before the next attempt, or the answer.
Respond(c) ==
  LET done == [call[c] EXCEPT !.sends = 0, !.leg = "last"]
  IN  /\ call[c].at = "sent"
      /\ \E lines \in Lines :
           jar' \in IF UsesJar(c) THEN AfterResponse(jar, lines, call[c].url) ELSE {jar}
      /\ \E answer \in Answers :
           /\ answer.kind = "retry_transport" => call[c].leg = "last"
           /\ call' = [call EXCEPT ![c] =
                CASE Follows(c, answer) ->
                       [done EXCEPT !.at = "ready", !.url = answer.to, !.hops = done.hops + 1]
                  [] Retries(c, answer) -> [done EXCEPT !.at = "backoff"]
                  [] OTHER -> [done EXCEPT !.at = "answered"]]

\* Mutant: the next attempt starts from the beginning, its count included.
AttemptAfresh(c) ==
  /\ call[c].at = "backoff"
  /\ call' = [call EXCEPT ![c] = Fresh(@.wish)]
  /\ UNCHANGED jar

\* The backoff is over: the next attempt, from the request as it was.
NextAttempt(c) ==
  /\ call[c].at = "backoff"
  /\ call' = [call EXCEPT ![c] =
       [Fresh(call[c].wish) EXCEPT !.attempt = call[c].attempt + 1,
                                   !.tries = call[c].tries]]
  /\ UNCHANGED jar

TimePasses ==
  /\ jar' = Aged(jar)
  /\ UNCHANGED call

Next ==
  \/ \E c \in Calls :
       \/ StartPolicy(c) \/ SubmitDirect(c) \/ RawAnswer(c)
       \/ Send(c) \/ Resend(c) \/ SendNowhere(c) \/ Respond(c) \/ NextAttempt(c)
  \/ TimePasses

\* The executor runs and backoffs end.  A transport need not come back: a connect
\* of the H2 client has no timeout.
Fairness == \A c \in Calls : WF_vars(Send(c) \/ SendNowhere(c) \/ NextAttempt(c))

Spec == Init /\ [][Next]_vars /\ Fairness

-----------------------------------------------------------------------------

\* How many transports one raw_request may hand the request to.
MaxLegs(policy) ==
  CASE policy = "force" -> 1
    [] policy = "preferH1" -> 2
    [] policy \in {"auto", "preferH2"} -> 3

\* How often a request goes out.  raw_request is called at most once for each hop
\* of each attempt, and a request that may not be replayed never gets a second
\* attempt, whatever the transport and the servers answer.  But each raw_request
\* may hand it to more than one transport (http_client.cpp:1106-1187), and asks
\* only whether the one before failed, not whether the request may be replayed:
\* only a forced protocol keeps a request that may not be replayed to a single
\* send for each hop; the others let it go out twice (PreferH1) or three times.
\* And a call is not answered before it was sent, unless its URL is bad or it asks
\* for a negative number of retries.
SendsAccounted ==
  \A c \in Calls :
    LET k == call[c]
    IN  /\ k.tries <= (k.attempt + 1) * (MaxRedirects + 1)
        /\ k.sends <= MaxLegs(k.wish.policy)
        /\ k.attempt > 0 => k.wish.replayable /\ k.attempt <= k.wish.retries
        /\ ~k.wish.replayable => k.tries <= k.hops + 1
        /\ k.at = "answered" /\ k.wish.url # Bad /\ k.wish.retries >= 0 => k.tries > 0

\* The jar that concurrent calls share keeps its limits: no domain has more
\* cookies than max_cookies_per_domain, no two of them have the same name and
\* path, and there are more entries than max_cookie_domains only if all of them
\* are empty.
JarWithinLimits ==
  /\ \A d \in DOMAIN jar :
       /\ Len(jar[d]) <= MaxPerDomain
       /\ \A i, j \in DOMAIN jar[d] :
            jar[d][i].name = jar[d][j].name /\ jar[d][i].path = jar[d][j].path => i = j
  /\ Cardinality(DOMAIN jar) > MaxDomains => AllCookies(jar) = {}

\* A call goes on, however many redirects and failures it meets, until it ends or
\* a transport keeps it: in the end it is answered, and the callback of a submit
\* called, or a URL that cannot be parsed, its own or one it was redirected to, has
\* ended its coroutine, or it waits in raw_request.
CallsEnd ==
  \A c \in Calls :
    <>[](\/ call[c].at \in {"idle", "answered", "sent", "raw"}
         \/ call[c].at \in {"threw", "lost"} /\ call[c].url = Bad)
=============================================================================
