------------------------ MODULE CoordinatorProperties ------------------------
(***************************************************************************)
(* What a crawl should satisfy, over the state of module Coordinator.      *)
(***************************************************************************)
EXTENDS Coordinator

\* The positions of a sequence that hold a member of S.
At(seq, S) == {i \in DOMAIN seq : seq[i] \in S}

\* Requests for URLs of S that wait: in the channel, in the hands of forwarders,
\* and in the commands of each lane.
Handed(S) == {w \in Workers : hand[w] \in S}
Commands(S) == UNION {{l} \X At(fbq[l], S) : l \in Lanes}

Waiting(S) ==
  Cardinality(At(channel, S)) + Cardinality(Handed(S)) + Cardinality(Commands(S))

\* Labels at which a lane still holds the command it took: it has not been
\* counted down, or it is being queued again.
Holding(l) ==
  \/ pc[l] \in {"fetch", "get", "giveup", "sub"}
  \/ pc[l] \in {"check", "reject", "put", "push", "add"} /\ ret[l] = "sub"

Held == {l \in Lanes : Holding(l)}

\* Requests pushed and not yet settled.
InPipeline == Waiting(URLs) + Cardinality(Held)

\* The count the counter will show once the pending changes are applied.
Counted ==
  processing + Cardinality(At(changes, {1})) - Cardinality(At(changes, {-1}))

\* Callers whose request is in the queue and not yet counted.
Uncounted == {p \in Callers : pc[p] = "add"}

\* The number of places that hold u: being queued, queued, or being fetched.
Queuing(S) == {p \in Callers : pc[p] \in {"put", "push"} /\ fr[p].url \in S}
Fetching(S) == {l \in Lanes : pc[l] \in {"fetch", "get"} /\ flight[l].cmd \in S}
Copies(u) == Waiting({u}) + Cardinality(Queuing({u})) + Cardinality(Fetching({u}))

\* All the work there is: queued, being queued, or with a lane that is not idle.
Busy == {l \in Lanes : pc[l] # "idle"}
Load == Waiting(URLs) + Cardinality(Queuing(URLs)) + Cardinality(Busy)

------------------------------------------------------------------------------
\* A request is put in the store before it is pushed and never removed: all
\* that is queued or being fetched is on record if the process dies now.
RequestsRecorded ==
  /\ \A i \in DOMAIN channel : channel[i] \in Known
  /\ \A w \in Workers : hand[w] # None => hand[w] \in Known
  /\ \A l \in Lanes : \A i \in DOMAIN fbq[l] : fbq[l][i] \in Known
  /\ \A l \in Lanes : pc[l] # "idle" => flight[l].cmd \in Known

\* The sitemap lists only URLs that were requested (up to normalization).
SitemapOnlyRequested ==
  \A h \in Handlers : entries[h] \subseteq {Norm[u] : u \in Known}

\* A sitemap that is written again, even after a restart, has lost nothing.
FileNeverShrinks ==
  [][\A h \in Handlers : output[h] # None => output[h] \subseteq output'[h]]_vars

\* A queued request has attempts left; only shutting down fails one early.
RetryBudget ==
  \A u \in URLs :
    /\ store[u].status = "queued" => store[u].attempts <= MaxAttempts
    /\ store[u].status = "failed" /\ store[u].attempts <= MaxAttempts
         => stopping \/ boots > 0

\* The counter with its pending changes is the number of requests in the
\* pipeline, less those pushed and not yet counted.
GaugeExact == Counted + Cardinality(Uncounted) = InPipeline

\* With failing fetches it may stay too high, which keeps the done scan from
\* ending the crawl, but is never too low.
GaugeNotLow == Counted + Cardinality(Uncounted) >= InPipeline

\* No URL is in the pipeline twice.
QueuedOnce == \A u \in URLs : Copies(u) <= 1

\* Giving up on a request is final.
GaveUpIsFinal ==
  [][\A u \in URLs : store[u].status = "failed" => store'[u] = store[u]]_vars

------------------------------------------------------------------------------
Settled(u) ==
  \/ store[u].status = "failed"
  \/ \A h \in Handlers : Norm[u] \in entries[h]

\* Every queued request ends up in every sitemap, or as failed.
RequestsSettle == \A u \in URLs : store[u].status = "queued" ~> Settled(u)

\* A lane always comes back for its host's next command.
LanesReturn == \A l \in Lanes : []<>(pc[l] = "idle")

\* With a done scan the crawl ends by writing every sitemap.
CrawlConcludes == <>(\A h \in Handlers : output[h] # None)

\* Once the coordinator is stopping, the queue empties for good.
QueueDrains == stopping ~> [](channel = << >>)

\* An interrupted crawl writes its sitemaps: Shutdown waits for the queue to
\* drain, and some lane is there to tell it so (unless the process dies first).
InterruptReturns == pc[Signal] = "flag" ~> pc[Signal] \in {"end", "quiet"}

\* Lane l is about to be redirected away from u, which the store knows.
Leaving(l, u) ==
  /\ pc[l] = "fetch" /\ flight[l].at = u
  /\ u = Norm[u] /\ u \in Known
  /\ RedirectOf[u] # None /\ Norm[RedirectOf[u]] # u

\* Once the coordinator is stopping, and until the process ends, work is only
\* finished, never added: neither a link nor a retry nor a seed enters, except
\* for those whose caller had read the flag before it was set.
StoppingOnlyDrains == [][stopping /\ boots' = boots => Load' <= Load]_vars

\* For those who read its sitemaps, the coordinator is a Crawl: it records only
\* what it has requested, and a file is what its handler had recorded when some
\* Shutdown read it, whatever the lanes and a restart do at the same time.
Abstract == INSTANCE Crawl
              WITH requested <- Known, recorded <- entries, views <- snap,
                   published <- output, Publishers <- Stoppers

ImplementsCrawl == Abstract!Spec

\* Every URL of a redirect chain that was requested is recorded, and a chain
\* of redirects comes to an end.
RedirectsRecorded ==
  \A u \in URLs, l \in Lanes : Leaving(l, u) ~> \A h \in Handlers : u \in entries[h]

------------------------------------------------------------------------------
(***************************************************************************)
(* What the repository says of itself and the code does not do.            *)
(***************************************************************************)
\* "no urls remain for checking, nothing left in queue, we done"
DoneMeansDone ==
  pc[Scanner] = "flag" => InPipeline = 0 /\ \A l \in Lanes : todo[l] = {}

\* Shutdown returns, also when a worker's own goroutine calls it.
ShutdownsReturn ==
  \A p \in Stoppers : pc[p] = "flag" ~> pc[p] \in {"links", "end"}
==============================================================================
