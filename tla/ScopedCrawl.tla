----------------------------- MODULE ScopedCrawl -----------------------------
(***************************************************************************)
(* The crawl of a job that has domains: which links it may request         *)
(* (lib/job.go).  A path is the sequence of the pieces that prefixes are   *)
(* told apart by.  Every domain of the configuration parses.               *)
(***************************************************************************)
EXTENDS CoordinatorProperties

CONSTANTS
  Domains,         \* JobConfig.Domains, parsed: a sequence of hosts with a path
  HostOf, PathOf,  \* of a normalized URL; HostOf is None if it does not parse
  Ignored          \* the URLs that contain one of the IgnorePatterns

StartsWith(path, prefix) ==
  Len(prefix) <= Len(path) /\ \A i \in 1 .. Len(prefix) : path[i] = prefix[i]

\* Mutant: the host of the link is not compared.
CandidateOfAnyHost(u) ==
  /\ u \notin Ignored
  /\ HostOf[u] # None
  /\ \E i \in DOMAIN Domains : PathOf[u] = <<>> \/ StartsWith(PathOf[u], Domains[i].path)

\* The first domain with the link's host decides.  Normalized, the root of a host
\* has an empty path, which any path of a domain lets in.
urlStringIsCandidate(u) ==
  /\ u \notin Ignored
  /\ HostOf[u] # None
  /\ \E i \in DOMAIN Domains :
       /\ Domains[i].host = HostOf[u]
       /\ \A j \in 1 .. i - 1 : Domains[j].host # HostOf[u]
       /\ PathOf[u] = <<>> \/ StartsWith(PathOf[u], Domains[i].path)

ASSUME ScopeAssumption == Candidates = {u \in URLs : urlStringIsCandidate(u)}

------------------------------------------------------------------------------
\* Within one of the job's domains, at its path or at the host's root.
InScope(u) ==
  /\ u \notin Ignored
  /\ \E i \in DOMAIN Domains :
       /\ Domains[i].host = HostOf[u]
       /\ PathOf[u] = <<>> \/ StartsWith(PathOf[u], Domains[i].path)

\* "Only links within the domains list that don't match ignore patterns will be
\* crawled": all that was ever requested is a seed or in scope, also when a
\* redirect led out of the domains and the page there has links, when a request
\* is queued again, and after a restart.
LinksStayInScope ==
  \A u \in Known : (\E i \in DOMAIN Seeds : Seeds[i] = u) \/ InScope(u)
==============================================================================
