-------------------------- MODULE MCRequestPolicy ---------------------------
(* Two hosts, one within the domain of the other; a site that sets cookies *)
(* for itself and for the common domain, and deletes them.                 *)
EXTENDS RequestPolicy

Site == [host |-> <<"www", "org">>, path |-> <<"dir", "page">>]
Root == [host |-> <<"org">>, path |-> <<"page">>]
MCUrls == {Site, Root}

Ask(via, policy, replayable, follow, cookies, retries, plain, url) ==
  [via |-> via, policy |-> policy, replayable |-> replayable, follow |-> follow, cookies |-> cookies,
   retries |-> retries, plain |-> plain, url |-> url]

MCWishes ==
  { Ask("await", "auto", TRUE, TRUE, "jar", 1, FALSE, Site),
    Ask("submit", "preferH2", FALSE, TRUE, "jar", 1, FALSE, Root),
    Ask("submit", "auto", TRUE, FALSE, "off", -1, FALSE, Root),
    Ask("submit", "preferH1", TRUE, FALSE, "own", 1, TRUE, Site),
    Ask("submit", "auto", FALSE, TRUE, "off", 0, TRUE, Bad),
    Ask("await", "force", TRUE, FALSE, "jar", 0, FALSE, Bad) }

Set(name, domain, path, age) == [name |-> name, domain |-> domain, path |-> path, age |-> age]

MCLines ==
  { <<>>,
    <<Set("id", None, None, "later"), Set("lang", <<"org">>, <<>>, "never")>>,
    <<Set("id", <<"org">>, <<>>, "never"), Set("lang", None, None, "past")>> }
=============================================================================
