----------------------------- MODULE CookieJar ------------------------------
(***************************************************************************)
(* The cookie jar of HttpClient (src/http_client.cpp, struct CookieJar) as *)
(* operators on its content: a function from the domains that have an      *)
(* entry in the map to the sequence of their cookies, which may be empty.  *)
(*                                                                         *)
(* Hosts and domains are sequences of labels, paths sequences of segments  *)
(* (a query, and the slash a cookie's path may end with, are left out).    *)
(* last_used is kept as a rank: only the order of two uses counts.  A      *)
(* Set-Cookie line has a name, a domain and a path, None if the attribute  *)
(* is missing, and an age: "never" (no max-age), "later", or "past" (zero  *)
(* or less).                                                               *)
(***************************************************************************)
EXTENDS Integers, Sequences, FiniteSets, SequencesExt

CONSTANTS
  None,          \* an attribute that is not there
  MaxPerDomain,  \* max_cookies_per_domain
  MaxDomains     \* max_cookie_domains

ASSUME JarAssumption == MaxPerDomain \in Nat /\ MaxDomains \in Nat

EmptyJar == [d \in {} |-> <<>>]

AllCookies(jar) == UNION {ToSet(jar[d]) : d \in DOMAIN jar}

\* Later than any use so far.
Now(jar) == 1 + Cardinality({c.used : c \in AllCookies(jar)})

\* The ranks of last_used, without gaps.
Ranked(jar) ==
  LET uses == {c.used : c \in AllCookies(jar)}
      rank(c) == [c EXCEPT !.used = Cardinality({u \in uses : u < c.used})]
  IN  [d \in DOMAIN jar |-> [i \in DOMAIN jar[d] |-> rank(jar[d][i])]]

DomainMatch(host, domain) == IsSuffix(domain, host)

PathMatch(path, cookiePath) == IsPrefix(cookiePath, path)

DefaultCookiePath(path) == IF path = <<>> THEN <<>> ELSE Front(path)

\* The cookies at the places in S, in their order.
Chosen(cookies, S) ==
  LET kept[i \in 0..Len(cookies)] ==
        IF i = 0 THEN <<>>
        ELSE IF i \in S THEN Append(kept[i - 1], cookies[i]) ELSE kept[i - 1]
  IN  kept[Len(cookies)]

\* prune_expired_locked, which drops the empty entries too.
Pruned(jar) ==
  LET fresh(d) == Chosen(jar[d], {i \in DOMAIN jar[d] : jar[d][i].expires # "past"})
  IN  [d \in {e \in DOMAIN jar : fresh(e) # <<>>} |-> fresh(d)]

\* Whether the cookie of domain d is sent to url.
Applies(d, cookie, url) ==
  /\ DomainMatch(url.host, d)
  /\ cookie.hostOnly => url.host = d
  /\ PathMatch(url.path, cookie.path)

\* cookie_header: whether it finds a cookie ...
FindsCookies(jar, url) ==
  \E d \in DOMAIN Pruned(jar) : \E c \in ToSet(Pruned(jar)[d]) : Applies(d, c, url)

\* ... and the jar after it.
AfterHeader(jar, url) ==
  LET p == Pruned(jar)
      used(d, c) == IF Applies(d, c, url) THEN [c EXCEPT !.used = Now(p)] ELSE c
  IN  Ranked([d \in DOMAIN p |-> [i \in DOMAIN p[d] |-> used(d, p[d][i])]])

\* Mutant: with a limit reached the new cookie is kept and so are the others.
DomainUnlimited(cookies) == IF MaxPerDomain = 0 THEN <<>> ELSE cookies

\* enforce_domain_limit_locked: of one cookie too many, the first of those used
\* longest ago goes.
DomainLimited(cookies) ==
  LET oldest == CHOOSE i \in DOMAIN cookies :
                  /\ \A j \in DOMAIN cookies : cookies[i].used <= cookies[j].used
                  /\ \A j \in 1..(i - 1) : cookies[i].used < cookies[j].used
  IN  CASE MaxPerDomain = 0 -> <<>>
        [] MaxPerDomain > 0 /\ Len(cookies) > MaxPerDomain -> RemoveAt(cookies, oldest)
        [] OTHER -> cookies

\* One Set-Cookie line of a response from url.  The entry of the domain is made
\* even if the line only deletes.
WithLine(jar, line, url, now) ==
  LET named == line.domain # None /\ DomainMatch(url.host, line.domain)
      domain == IF named THEN line.domain ELSE url.host
      path == IF line.path # None THEN line.path ELSE DefaultCookiePath(url.path)
      old == IF domain \in DOMAIN jar THEN jar[domain] ELSE <<>>
      others == Chosen(old, {i \in DOMAIN old : old[i].name # line.name \/ old[i].path # path})
      new == [name |-> line.name, path |-> path, hostOnly |-> ~named,
              expires |-> line.age, used |-> now]
  IN  [d \in DOMAIN jar \cup {domain} |->
         IF d # domain THEN jar[d]
         ELSE IF line.age = "past" THEN others ELSE DomainLimited(Append(others, new))]

\* enforce_domain_count_locked, as the set of the jars that may be left: the
\* domains with the oldest cookies go, as many as there are too many, in the
\* order of the hash map among equals.  An empty entry is never the oldest.
DomainsLimited(jar) ==
  LET full == {d \in DOMAIN jar : jar[d] # <<>>}
      age(d) == CHOOSE u \in {c.used : c \in ToSet(jar[d])} : \A c \in ToSet(jar[d]) : u <= c.used
      excess == Cardinality(DOMAIN jar) - MaxDomains
      many == IF excess <= 0 THEN 0
              ELSE IF excess < Cardinality(full) THEN excess ELSE Cardinality(full)
      goes == {r \in SUBSET full : /\ Cardinality(r) = many
                                   /\ \A d \in r, e \in full \ r : age(d) <= age(e)}
  IN  IF MaxDomains = 0 THEN {EmptyJar}
      ELSE {[d \in DOMAIN jar \ r |-> jar[d]] : r \in goes}

\* The lines of a response, one after the other.
WithLines(jar, lines, url, now) ==
  LET after[i \in 0..Len(lines)] ==
        IF i = 0 THEN jar ELSE WithLine(after[i - 1], lines[i], url, now)
  IN  after[Len(lines)]

\* add_from_response: the jars it may leave.
AfterResponse(jar, lines, url) ==
  LET p == Pruned(jar)
  IN  {Ranked(j) : j \in DomainsLimited(WithLines(p, lines, url, Now(p)))}

\* Time passes, and every max-age is over.
Aged(jar) ==
  [d \in DOMAIN jar |-> [i \in DOMAIN jar[d] |->
     [jar[d][i] EXCEPT !.expires = IF @ = "later" THEN "past" ELSE @]]]
=============================================================================
