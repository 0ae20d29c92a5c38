---------------------------- MODULE MCScopedCrawl ----------------------------
EXTENDS MCCoordinator, ScopedCrawl

\* d is on another host; c, a seed, and b, the root, are not at the domain's path.
\* The link to c would be refused if c were not known.
OneDomain == <<[host |-> "site", path |-> <<"docs">>]>>
Hosts == [u \in URLs |-> IF u = d THEN "other" ELSE "site"]
Paths == [u \in URLs |-> IF u \in {a, d} THEN <<"docs", "page">>
                         ELSE IF u = r THEN <<"docs">> ELSE IF u = c THEN <<"blog">> ELSE <<>>]
CandidateLinks == {u \in URLs : urlStringIsCandidate(u)}
==============================================================================
