----------------------------- MODULE Coordinator -----------------------------
(***************************************************************************)
(* A crawl: the coordinator (lib/coordinator.go) with its request store,   *)
(* queue and counter, the workers that fetch (lib/worker.go), the sitemap  *)
(* handlers (lib/sitemap.go) and the signal that stops it (cmd/start.go).  *)
(* One job is started; the processes are its goroutines.                   *)
(*                                                                         *)
(* A lane is the goroutine fetchbot runs for one fetcher and one host: it  *)
(* takes that host's commands in order and calls walk's handler, hence     *)
(* CompletedResources, enqueue, dequeue and Shutdown, inline.  pc names    *)
(* the next access of a process to shared state, so two processes          *)
(* interleave at every one of them.  Badger's transactions succeed here.   *)
(***************************************************************************)
EXTENDS Integers, Sequences, FiniteSets

CONSTANTS
  URLs, Workers, Lanes, Handlers,
  Parallelism,     \* fetchers of each worker (WorkerConfig.Parallelism)
  LaneFor,         \* [w][i][u]: lane of u on fetcher i; None: no valid command
  Seeds,           \* JobConfig.Seeds, a sequence
  Links,           \* the hrefs of the page at each URL
  Candidates,      \* what urlStringIsCandidate accepts; {} if Crawl is off
  RedirectOf,      \* where the server redirects a URL to, or None
  Norm, Canon,     \* NormalizeURL, and url.Parse followed by URL.String
  Outcomes,        \* what a fetch may end in: "ok", "bad", "error"
  StopURL, MaxAttempts, RecordRedirects, DoneScan,   \* JobConfig, WorkerConfig
  MaxVia,          \* redirects followed before giving up (10 in the code)
  QueueCap, ChangesCap,        \* channel buffers (150 and 8 in the code)
  Signals,         \* may the user interrupt the crawl?
  MaxBoots,        \* bound on the restarts of the process
  Seeder, Scanner, Signal,     \* the other goroutines
  None

Callers == Lanes \cup {Seeder}            \* who calls enqueue
Stoppers == Lanes \cup {Scanner, Signal}  \* who calls Shutdown
Procs == Callers \cup Stoppers

ASSUME CrawlAssumption ==
  /\ {Seeder, Scanner, Signal} \cap Lanes = {}
  /\ Seeder # Scanner /\ Seeder # Signal /\ Scanner # Signal
  /\ None \notin URLs \cup Lanes \cup (Handlers \X SUBSET URLs)
  /\ Parallelism \in [Workers -> Nat \ {0}]
  /\ \A w \in Workers : \A i \in 0 .. Parallelism[w] - 1, u \in URLs :
       LaneFor[w][i][u] \in Lanes \cup {None}
  /\ Seeds \in Seq(URLs)
  /\ Links \in [URLs -> SUBSET URLs]
  /\ Candidates \subseteq URLs
  /\ RedirectOf \in [URLs -> URLs \cup {None}]
  /\ Norm \in [URLs -> URLs] /\ Canon \in [URLs -> URLs]
  /\ \A u \in URLs : Norm[Norm[u]] = Norm[u]
  /\ Outcomes \subseteq {"ok", "bad", "error"}
  /\ MaxAttempts \in Nat /\ MaxBoots \in Nat /\ MaxVia \in Nat \ {0}
  /\ QueueCap \in Nat \ {0} /\ ChangesCap \in Nat \ {0}
  /\ RecordRedirects \in BOOLEAN

\* The workers are configured and each makes a few lanes.
ASSUME FinitenessAssumption == IsFiniteSet(Workers) /\ IsFiniteSet(Lanes)

VARIABLES
  store,                           \* RequestStore, by URL; it outlives the process
  channel, hand,                   \* the queue (MemQueue)
  changes, processing, counting,   \* the counter (ProcessingCounter)
  slot, fbq,                       \* LocalWorker.Start's i, and each lane's commands
  stopping, cancelled,             \* coordinator.stopping, coordinator.ctx
  pc, ret, fr,                     \* next step, where enqueue returns to, its request
  flight,                          \* a lane's command, current URL, requests sent
  rsc, todo,                       \* CompletedResources' resource and links
  seeds,                           \* seeds not yet read
  left, snap,                      \* Shutdown's handlers to finalize, sitemap read
  pending, entries, output,        \* handler goroutines, sitemap in badger, its file
  boots

Queue == INSTANCE MemQueue
           WITH Requests <- URLs, Consumers <- Workers, Capacity <- QueueCap
Counter == INSTANCE ProcessingCounter

queueVars == <<channel, hand>>
counterVars == <<changes, processing, counting>>
fetchVars == <<slot, fbq>>
laneVars == <<flight, rsc, todo>>
stopVars == <<stopping, cancelled, left, snap>>
siteVars == <<pending, entries, output>>
vars == <<store, queueVars, counterVars, fetchVars, stopVars, pc, ret, fr,
          laneVars, seeds, siteVars, boots>>

\* A request as stored; one that was never put has the default, unknown status.
\* Done is absent: dequeue sets it on its own copy and puts it nowhere.
Record == [status : {"unknown", "queued", "failed"}, attempts : Nat]
Request == [url : URLs, attempts : Nat]
Flight == [cmd : URLs, at : URLs, via : 1 .. MaxVia]
Resource == [url : URLs, kind : {"ok", "bad", "redirect"}]
Labels == {"idle", "fetch", "get", "giveup", "sub", "settle", "wait", "links",
           "seed", "check", "reject", "put", "push", "add",
           "tick", "scan", "quiet", "flag", "len", "send", "cancel", "generate",
           "write", "end"}

TypeOK ==
  /\ store \in [URLs -> Record]
  /\ Queue!TypeOK
  /\ Counter!TypeOK
  /\ slot \in [Workers -> Nat]
  /\ fbq \in [Lanes -> Seq(URLs)]
  /\ stopping \in BOOLEAN /\ cancelled \in BOOLEAN
  /\ pc \in [Procs -> Labels]
  /\ ret \in [Callers -> {"seed", "sub", "links"}]
  /\ fr \in [Callers -> Request \cup {None}]
  /\ flight \in [Lanes -> Flight \cup {None}]
  /\ rsc \in [Lanes -> Resource \cup {None}]
  /\ todo \in [Lanes -> SUBSET URLs]
  /\ seeds \in Seq(URLs)
  /\ left \in [Stoppers -> SUBSET Handlers]
  /\ snap \in [Stoppers -> (Handlers \X (SUBSET URLs)) \cup {None}]
  /\ pending \subseteq Handlers \X URLs
  /\ entries \in [Handlers -> SUBSET URLs]
  /\ output \in [Handlers -> (SUBSET URLs) \cup {None}]
  /\ boots \in 0 .. MaxBoots

Known == {u \in URLs : store[u].status # "unknown"}

\* Where each goroutine is once the job has been started.
Started ==
  [p \in Procs |-> IF p \in Lanes THEN "idle"
                   ELSE IF p = Seeder THEN "seed"
                   ELSE IF p = Signal THEN "quiet"
                   ELSE IF DoneScan THEN "tick" ELSE "end"]

Init ==
  /\ store = [u \in URLs |-> [status |-> "unknown", attempts |-> 0]]
  /\ Queue!Init
  /\ Counter!Init
  /\ slot = [w \in Workers |-> 0]
  /\ fbq = [l \in Lanes |-> << >>]
  /\ stopping = FALSE /\ cancelled = FALSE
  /\ pc = Started
  /\ ret = [p \in Callers |-> "seed"]
  /\ fr = [p \in Callers |-> None]
  /\ flight = [l \in Lanes |-> None]
  /\ rsc = [l \in Lanes |-> None]
  /\ todo = [l \in Lanes |-> {}]
  /\ seeds = Seeds
  /\ left = [p \in Stoppers |-> {}]
  /\ snap = [p \in Stoppers |-> None]
  /\ pending = {}
  /\ entries = [h \in Handlers |-> {}]
  /\ output = [h \in Handlers |-> None]
  /\ boots = 0

Goto(p, label) == pc' = [pc EXCEPT ![p] = label]

PutRequest(u, status, attempts) ==
  store' = [store EXCEPT ![u] = [status |-> status, attempts |-> attempts]]

------------------------------------------------------------------------------
(***************************************************************************)
(* enqueue, called by the seeder and by lanes that found a link or retry.  *)
(***************************************************************************)
\* Call enqueue on a request, to continue at label `back` when it returns.
Enqueue(p, u, attempts, back) ==
  /\ fr' = [fr EXCEPT ![p] = [url |-> u, attempts |-> attempts]]
  /\ ret' = [ret EXCEPT ![p] = back]
  /\ Goto(p, "check")

EnqueueReturns(p) ==
  /\ fr' = [fr EXCEPT ![p] = None]
  /\ Goto(p, ret[p])
  /\ UNCHANGED ret

\* Mutant: a request is queued whatever the flag says.
ReadStoppingIgnored(p) ==
  /\ pc[p] = "check"
  /\ Goto(p, "put")
  /\ UNCHANGED <<store, queueVars, counterVars, fetchVars, stopVars, ret, fr,
                 laneVars, seeds, siteVars, boots>>

\* Read the stopping flag, which another goroutine may set right after.
ReadStopping(p) ==
  /\ pc[p] = "check"
  /\ Goto(p, IF stopping THEN "reject" ELSE "put")
  /\ UNCHANGED <<store, queueVars, counterVars, fetchVars, stopVars, ret, fr,
                 laneVars, seeds, siteVars, boots>>

\* A coordinator that is stopping records the request as failed.
Reject(p) ==
  /\ pc[p] = "reject"
  /\ PutRequest(fr[p].url, "failed", fr[p].attempts)
  /\ EnqueueReturns(p)
  /\ UNCHANGED <<queueVars, counterVars, fetchVars, stopVars, laneVars, seeds,
                 siteVars, boots>>

\* Mutant: the request is pushed without being put in the store.
PutQueuedUnsaved(p) ==
  /\ pc[p] = "put"
  /\ Goto(p, "push")
  /\ UNCHANGED <<store, queueVars, counterVars, fetchVars, stopVars, ret, fr, laneVars,
                 seeds, siteVars, boots>>

PutQueued(p) ==
  /\ pc[p] = "put"
  /\ PutRequest(fr[p].url, "queued", fr[p].attempts)
  /\ Goto(p, "push")
  /\ UNCHANGED <<queueVars, counterVars, fetchVars, stopVars, ret, fr, laneVars,
                 seeds, siteVars, boots>>

PushRequest(p) ==
  /\ pc[p] = "push"
  /\ Queue!Push(fr[p].url)
  /\ Goto(p, "add")
  /\ UNCHANGED <<store, counterVars, fetchVars, stopVars, ret, fr, laneVars,
                 seeds, siteVars, boots>>

\* Mutant: a retry is not counted again.
CountUpOnce(p) ==
  /\ pc[p] = "add"
  /\ IF ret[p] = "sub" THEN UNCHANGED counterVars ELSE Counter!Send(1)
  /\ EnqueueReturns(p)
  /\ UNCHANGED <<store, queueVars, fetchVars, stopVars, laneVars, seeds,
                 siteVars, boots>>

\* Only now is the request counted: it may already have been fetched.
CountUp(p) ==
  /\ pc[p] = "add"
  /\ Counter!Send(1)
  /\ EnqueueReturns(p)
  /\ UNCHANGED <<store, queueVars, fetchVars, stopVars, laneVars, seeds,
                 siteVars, boots>>

EnqueueStep(p) ==
  ReadStopping(p) \/ Reject(p) \/ PutQueued(p) \/ PushRequest(p) \/ CountUp(p)

------------------------------------------------------------------------------
(***************************************************************************)
(* The worker: its dispatcher spreads requests over its fetchers, and a    *)
(* lane fetches one of its commands at a time.                             *)
(***************************************************************************)
\* Mutant: the forwarder ends with the coordinator's context.
ForwardRequestUntilCancelled(w) ==
  /\ ~cancelled
  /\ Queue!Forward(w)
  /\ UNCHANGED <<store, counterVars, fetchVars, stopVars, pc, ret, fr, laneVars,
                 seeds, siteVars, boots>>

ForwardRequest(w) ==
  /\ Queue!Forward(w)
  /\ UNCHANGED <<store, counterVars, fetchVars, stopVars, pc, ret, fr, laneVars,
                 seeds, siteVars, boots>>

\* LocalWorker.Start's loop.  A request whose URL does not parse, or whose
\* command the fetcher refuses, is logged and dropped; the turn is not used up.
Dispatch(w) ==
  /\ Queue!Deliver(w)
  /\ LET lane == LaneFor[w][slot[w]][hand[w]] IN
     IF lane = None
     THEN UNCHANGED fetchVars
     ELSE /\ fbq' = [fbq EXCEPT ![lane] = Append(@, hand[w])]
          /\ slot' = [slot EXCEPT ![w] = (@ + 1) % Parallelism[w]]
  /\ UNCHANGED <<store, counterVars, stopVars, pc, ret, fr, laneVars, seeds,
                 siteVars, boots>>

Take(l) ==
  /\ pc[l] = "idle"
  /\ fbq[l] # << >>
  /\ fbq' = [fbq EXCEPT ![l] = Tail(@)]
  /\ flight' = [flight EXCEPT ![l] =
                  [cmd |-> Head(fbq[l]), at |-> Head(fbq[l]), via |-> 1]]
  /\ Goto(l, "fetch")
  /\ UNCHANGED <<store, queueVars, counterVars, slot, stopVars, ret, fr, rsc, todo,
                 seeds, siteVars, boots>>

\* The lane is done with its command.
Land(l) ==
  /\ flight' = [flight EXCEPT ![l] = None]
  /\ Goto(l, "idle")

\* The request fails, robots.txt forbids it, or the body cannot be read.  The
\* handler completes a resource without job and URL, or returns: no effect.
FetchError(l) ==
  /\ pc[l] = "fetch"
  /\ "error" \in Outcomes
  /\ Land(l)
  /\ UNCHANGED <<store, queueVars, counterVars, fetchVars, stopVars, ret, fr, rsc,
                 todo, seeds, siteVars, boots>>

\* Mutant: CheckRedirect has no limit.
FollowRedirectForever(l) ==
  /\ flight' = [flight EXCEPT ![l] =
                  [cmd |-> flight[l].cmd, at |-> RedirectOf[flight[l].at], via |-> 1]]
  /\ Goto(l, "fetch")

\* What CheckRedirect returns decides whether the client follows a redirect.
FollowRedirect(l) ==
  LET f == flight[l] IN
  IF f.via >= MaxVia
  THEN Land(l)
  ELSE /\ flight' = [flight EXCEPT ![l] =
                       [cmd |-> f.cmd, at |-> RedirectOf[f.at], via |-> f.via + 1]]
       /\ Goto(l, "fetch")

\* Mutant: only the last redirect of a chain is recorded.
RecordedFinalOnly(u) ==
  /\ RecordRedirects
  /\ RedirectOf[RedirectOf[u]] = None
  /\ Norm[u] \in Known

\* CheckRedirect completes a resource for the URL it leaves if the URL really
\* changes; the resource has a job only if the store knows that URL.
Recorded(u) ==
  /\ RecordRedirects
  /\ Norm[u] # Norm[RedirectOf[u]]
  /\ Norm[u] \in Known

Redirected(l) ==
  /\ pc[l] = "fetch"
  /\ RedirectOf[flight[l].at] # None
  /\ ~Recorded(flight[l].at)
  /\ FollowRedirect(l)
  /\ UNCHANGED <<store, queueVars, counterVars, fetchVars, stopVars, ret, fr, rsc,
                 todo, seeds, siteVars, boots>>

RecordRedirect(l) ==
  /\ pc[l] = "fetch"
  /\ RedirectOf[flight[l].at] # None
  /\ Recorded(flight[l].at)
  /\ rsc' = [rsc EXCEPT ![l] = [url |-> Norm[flight[l].at], kind |-> "redirect"]]
  /\ Goto(l, "get")
  /\ UNCHANGED <<store, queueVars, counterVars, fetchVars, stopVars, ret, fr,
                 flight, todo, seeds, siteVars, boots>>

\* The URL of a response: in a client that records redirects the last one asked.
ResponseURL(f) == IF RecordRedirects THEN Norm[f.at] ELSE Canon[f.cmd]

\* ExtractDocLinks: each href of the page, normalized, once.
DocLinks(u) == {Norm[v] : v \in Links[u]}

\* The GET handler completes the resource, whatever the status.
Responded(l) ==
  /\ pc[l] = "fetch"
  /\ RedirectOf[flight[l].at] = None
  /\ \E kind \in Outcomes \ {"error"} :
       rsc' = [rsc EXCEPT ![l] = [url |-> ResponseURL(flight[l]), kind |-> kind]]
  /\ todo' = [todo EXCEPT ![l] = DocLinks(flight[l].at) \cap Candidates]
  /\ Goto(l, "get")
  /\ UNCHANGED <<store, queueVars, counterVars, fetchVars, stopVars, ret, fr,
                 flight, seeds, siteVars, boots>>

------------------------------------------------------------------------------
(***************************************************************************)
(* CompletedResources, run by the lane: dequeue the resource, then queue   *)
(* the links nobody has queued yet.                                        *)
(***************************************************************************)
Attempts(l) == store[rsc[l].url].attempts + 1

\* dequeue reads the stored request.  Badger's error for a missing key is not
\* ErrNotFound, so dequeue gives up on it: no handler, no count, no stop URL.
NotRequested(l) ==
  /\ pc[l] = "get"
  /\ rsc[l].url \notin Known
  /\ Goto(l, "links")
  /\ UNCHANGED <<store, queueVars, counterVars, fetchVars, stopVars, ret, fr,
                 laneVars, seeds, siteVars, boots>>

\* Mutant: a resource nobody requested is handled as well.
SucceedUnchecked(l) ==
  /\ pc[l] = "get"
  /\ rsc[l].kind # "bad"
  /\ pending' = pending \cup {<<h, Norm[rsc[l].url]>> : h \in Handlers}
  /\ Goto(l, "sub")
  /\ UNCHANGED <<store, queueVars, counterVars, fetchVars, stopVars, ret, fr,
                 laneVars, seeds, entries, output, boots>>

\* An OK status starts a goroutine for every handler and stores nothing.
Succeed(l) ==
  /\ pc[l] = "get"
  /\ rsc[l].url \in Known
  /\ rsc[l].kind # "bad"
  /\ pending' = pending \cup {<<h, Norm[rsc[l].url]>> : h \in Handlers}
  /\ Goto(l, "sub")
  /\ UNCHANGED <<store, queueVars, counterVars, fetchVars, stopVars, ret, fr,
                 laneVars, seeds, entries, output, boots>>

\* Mutant: the attempt just made is not added.
RetryUncounted(l) ==
  /\ pc[l] = "get"
  /\ rsc[l].url \in Known
  /\ rsc[l].kind = "bad"
  /\ Attempts(l) <= MaxAttempts
  /\ Enqueue(l, rsc[l].url, store[rsc[l].url].attempts, "sub")
  /\ UNCHANGED <<store, queueVars, counterVars, fetchVars, stopVars, laneVars,
                 seeds, siteVars, boots>>

Retry(l) ==
  /\ pc[l] = "get"
  /\ rsc[l].url \in Known
  /\ rsc[l].kind = "bad"
  /\ Attempts(l) <= MaxAttempts
  /\ Enqueue(l, rsc[l].url, Attempts(l), "sub")
  /\ UNCHANGED <<store, queueVars, counterVars, fetchVars, stopVars, laneVars,
                 seeds, siteVars, boots>>

\* Mutant: the last attempt is not made.
OutOfAttemptsEarly(l) ==
  /\ pc[l] = "get"
  /\ rsc[l].url \in Known
  /\ rsc[l].kind = "bad"
  /\ Attempts(l) >= MaxAttempts
  /\ fr' = [fr EXCEPT ![l] = [url |-> rsc[l].url, attempts |-> Attempts(l)]]
  /\ Goto(l, "giveup")
  /\ UNCHANGED <<store, queueVars, counterVars, fetchVars, stopVars, ret,
                 laneVars, seeds, siteVars, boots>>

\* Out of attempts: the request read here is put back as failed ...
OutOfAttempts(l) ==
  /\ pc[l] = "get"
  /\ rsc[l].url \in Known
  /\ rsc[l].kind = "bad"
  /\ Attempts(l) > MaxAttempts
  /\ fr' = [fr EXCEPT ![l] = [url |-> rsc[l].url, attempts |-> Attempts(l)]]
  /\ Goto(l, "giveup")
  /\ UNCHANGED <<store, queueVars, counterVars, fetchVars, stopVars, ret,
                 laneVars, seeds, siteVars, boots>>

\* ... by a transaction of its own.
GiveUp(l) ==
  /\ pc[l] = "giveup"
  /\ PutRequest(fr[l].url, "failed", fr[l].attempts)
  /\ fr' = [fr EXCEPT ![l] = None]
  /\ Goto(l, "sub")
  /\ UNCHANGED <<queueVars, counterVars, fetchVars, stopVars, ret, laneVars,
                 seeds, siteVars, boots>>

\* Mutant: only a success is uncounted.
CountDownSuccess(l) ==
  /\ pc[l] = "sub"
  /\ IF rsc[l].kind = "bad" THEN UNCHANGED counterVars ELSE Counter!Send(-1)
  /\ Goto(l, "settle")
  /\ UNCHANGED <<store, queueVars, fetchVars, stopVars, ret, fr, laneVars, seeds,
                 siteVars, boots>>

\* dequeue's deferred function: uncount the request, ...
CountDown(l) ==
  /\ pc[l] = "sub"
  /\ Counter!Send(-1)
  /\ Goto(l, "settle")
  /\ UNCHANGED <<store, queueVars, fetchVars, stopVars, ret, fr, laneVars, seeds,
                 siteVars, boots>>

\* (after its wait, the stop URL makes this lane shut the coordinator down)
AfterWait(l) == IF rsc[l].url = StopURL THEN "flag" ELSE "links"

\* Mutant: no lane waits for Shutdown.
SettleAtOnce(l) ==
  /\ pc[l] = "settle"
  /\ Goto(l, AfterWait(l))
  /\ UNCHANGED <<store, queueVars, counterVars, fetchVars, stopVars, ret, fr,
                 laneVars, seeds, siteVars, boots>>

\* ... and, while stopping with an empty queue, wait for Shutdown's signal.
Settle(l) ==
  /\ pc[l] = "settle"
  /\ Goto(l, IF stopping /\ Queue!QueueLen = 0 THEN "wait" ELSE AfterWait(l))
  /\ UNCHANGED <<store, queueVars, counterVars, fetchVars, stopVars, ret, fr,
                 laneVars, seeds, siteVars, boots>>

\* Mutant: every link is queued.
CheckLinkNever(l) ==
  /\ pc[l] = "links"
  /\ \E u \in todo[l] :
       /\ todo' = [todo EXCEPT ![l] = @ \ {u}]
       /\ Enqueue(l, u, 0, "links")
  /\ UNCHANGED <<store, queueVars, counterVars, fetchVars, stopVars, flight, rsc,
                 seeds, siteVars, boots>>

\* Mutant: only a queued request counts as known.
CheckLinkQueued(l) ==
  /\ pc[l] = "links"
  /\ \E u \in todo[l] :
       /\ todo' = [todo EXCEPT ![l] = @ \ {u}]
       /\ IF store[u].status = "queued"
          THEN UNCHANGED <<pc, ret, fr>>
          ELSE Enqueue(l, u, 0, "links")
  /\ UNCHANGED <<store, queueVars, counterVars, fetchVars, stopVars, flight, rsc,
                 seeds, siteVars, boots>>

\* Look up one candidate link, in any order, and queue it if it is unknown.
CheckLink(l) ==
  /\ pc[l] = "links"
  /\ \E u \in todo[l] :
       /\ todo' = [todo EXCEPT ![l] = @ \ {u}]
       /\ IF u \in Known
          THEN UNCHANGED <<pc, ret, fr>>
          ELSE Enqueue(l, u, 0, "links")
  /\ UNCHANGED <<store, queueVars, counterVars, fetchVars, stopVars, flight, rsc,
                 seeds, siteVars, boots>>

\* CompletedResources returns to CheckRedirect or to the GET handler.
Completed(l) ==
  /\ pc[l] = "links"
  /\ todo[l] = {}
  /\ rsc' = [rsc EXCEPT ![l] = None]
  /\ IF rsc[l].kind = "redirect" THEN FollowRedirect(l) ELSE Land(l)
  /\ UNCHANGED <<store, queueVars, counterVars, fetchVars, stopVars, ret, fr, todo,
                 seeds, siteVars, boots>>

LaneStep(l) ==
  \/ Take(l) \/ FetchError(l) \/ Redirected(l) \/ RecordRedirect(l) \/ Responded(l)
  \/ NotRequested(l) \/ Succeed(l) \/ Retry(l) \/ OutOfAttempts(l) \/ GiveUp(l)
  \/ CountDown(l) \/ Settle(l) \/ CheckLink(l) \/ Completed(l)

------------------------------------------------------------------------------
(***************************************************************************)
(* The other goroutines of StartJob, the counter and the handlers.         *)
(***************************************************************************)
\* Every seed is enqueued, known or not.
ReadSeed ==
  /\ pc[Seeder] = "seed"
  /\ IF seeds = << >>
     THEN Goto(Seeder, "end") /\ UNCHANGED <<seeds, ret, fr>>
     ELSE /\ seeds' = Tail(seeds)
          /\ Enqueue(Seeder, Head(seeds), 0, "seed")
  /\ UNCHANGED <<store, queueVars, counterVars, fetchVars, stopVars, laneVars,
                 siteVars, boots>>

\* The done scan reads the queue's length, then the counter.  Its loop over the
\* stored requests continues itself, not the scan, and decides nothing.
ScanQueue ==
  /\ pc[Scanner] = "tick"
  /\ Queue!QueueLen = 0
  /\ Goto(Scanner, "scan")
  /\ UNCHANGED <<store, queueVars, counterVars, fetchVars, stopVars, ret, fr,
                 laneVars, seeds, siteVars, boots>>

\* Mutant: a count of zero keeps the scan going.
ScanProcessingZero ==
  /\ pc[Scanner] = "scan"
  /\ Goto(Scanner, IF processing >= 0 THEN "tick" ELSE "flag")
  /\ UNCHANGED <<store, queueVars, counterVars, fetchVars, stopVars, ret, fr,
                 laneVars, seeds, siteVars, boots>>

ScanProcessing ==
  /\ pc[Scanner] = "scan"
  /\ Goto(Scanner, IF processing > 0 THEN "tick" ELSE "flag")
  /\ UNCHANGED <<store, queueVars, counterVars, fetchVars, stopVars, ret, fr,
                 laneVars, seeds, siteVars, boots>>

\* stopOnSigKill: the first signal shuts the coordinator down.
Interrupt ==
  /\ Signals
  /\ pc[Signal] = "quiet"
  /\ Goto(Signal, "flag")
  /\ UNCHANGED <<store, queueVars, counterVars, fetchVars, stopVars, ret, fr,
                 laneVars, seeds, siteVars, boots>>

Count ==
  /\ Counter!Apply \/ Counter!Stop(cancelled)
  /\ UNCHANGED <<store, queueVars, fetchVars, stopVars, pc, ret, fr, laneVars,
                 seeds, siteVars, boots>>

\* Mutant: an entry replaces the sitemap.
HandleResourceAlone(h, u) ==
  /\ <<h, u>> \in pending
  /\ pending' = pending \ {<<h, u>>}
  /\ entries' = [entries EXCEPT ![h] = {u}]
  /\ UNCHANGED <<store, queueVars, counterVars, fetchVars, stopVars, pc, ret, fr,
                 laneVars, seeds, output, boots>>

\* SitemapGenerator.HandleResource, in the goroutine dequeue started.
HandleResource(h, u) ==
  /\ <<h, u>> \in pending
  /\ pending' = pending \ {<<h, u>>}
  /\ entries' = [entries EXCEPT ![h] = @ \cup {u}]
  /\ UNCHANGED <<store, queueVars, counterVars, fetchVars, stopVars, pc, ret, fr,
                 laneVars, seeds, output, boots>>

------------------------------------------------------------------------------
(***************************************************************************)
(* Shutdown, in the goroutine that called it; several may run at once.     *)
(***************************************************************************)
SetStopping(p) ==
  /\ pc[p] = "flag"
  /\ stopping' = TRUE
  /\ Goto(p, "len")
  /\ UNCHANGED <<store, queueVars, counterVars, fetchVars, cancelled, left, snap,
                 ret, fr, laneVars, seeds, siteVars, boots>>

MeasureQueue(p) ==
  /\ pc[p] = "len"
  /\ Goto(p, IF Queue!QueueLen > 0 THEN "send" ELSE "cancel")
  /\ UNCHANGED <<store, queueVars, counterVars, fetchVars, stopVars, ret, fr,
                 laneVars, seeds, siteVars, boots>>

\* The shutdown channel has no buffer: its send and its receive meet.
Handshake(p, l) ==
  /\ pc[p] = "send"
  /\ pc[l] = "wait"
  /\ pc' = [pc EXCEPT ![p] = "cancel", ![l] = AfterWait(l)]
  /\ UNCHANGED <<store, queueVars, counterVars, fetchVars, stopVars, ret, fr,
                 laneVars, seeds, siteVars, boots>>

Cancel(p) ==
  /\ pc[p] = "cancel"
  /\ cancelled' = TRUE
  /\ left' = [left EXCEPT ![p] = Handlers]
  /\ Goto(p, "generate")
  /\ UNCHANGED <<store, queueVars, counterVars, fetchVars, stopping, snap, ret, fr,
                 laneVars, seeds, siteVars, boots>>

\* SitemapGenerator.Generate reads badger in one transaction ...
Generate(p) ==
  /\ pc[p] = "generate"
  /\ \E h \in left[p] :
       /\ snap' = [snap EXCEPT ![p] = <<h, entries[h]>>]
       /\ left' = [left EXCEPT ![p] = @ \ {h}]
  /\ Goto(p, "write")
  /\ UNCHANGED <<store, queueVars, counterVars, fetchVars, stopping, cancelled, ret,
                 fr, laneVars, seeds, siteVars, boots>>

\* ... and writes the file after it.
WriteFile(p) ==
  /\ pc[p] = "write"
  /\ output' = [output EXCEPT ![snap[p][1]] = snap[p][2]]
  /\ snap' = [snap EXCEPT ![p] = None]
  /\ Goto(p, "generate")
  /\ UNCHANGED <<store, queueVars, counterVars, fetchVars, stopping, cancelled, left,
                 ret, fr, laneVars, seeds, pending, entries, boots>>

\* A lane goes on with the links; the other callers are done.
ShutdownReturns(p) ==
  /\ pc[p] = "generate"
  /\ left[p] = {}
  /\ Goto(p, IF p \in Lanes THEN "links" ELSE "end")
  /\ UNCHANGED <<store, queueVars, counterVars, fetchVars, stopVars, ret, fr,
                 laneVars, seeds, siteVars, boots>>

ShutdownStep(p) ==
  \/ SetStopping(p) \/ MeasureQueue(p) \/ Cancel(p) \/ Generate(p) \/ WriteFile(p)
  \/ ShutdownReturns(p)

------------------------------------------------------------------------------
(***************************************************************************)
(* The process dies (a crash, or the second signal) and the command is run *)
(* again with the same badger directory.                                   *)
(***************************************************************************)
Restart ==
  /\ boots < MaxBoots
  /\ boots' = boots + 1
  /\ channel' = << >> /\ hand' = [w \in Workers |-> None]
  /\ changes' = << >> /\ processing' = 0 /\ counting' = TRUE
  /\ slot' = [w \in Workers |-> 0]
  /\ fbq' = [l \in Lanes |-> << >>]
  /\ stopping' = FALSE /\ cancelled' = FALSE
  /\ pc' = Started
  /\ ret' = [p \in Callers |-> "seed"]
  /\ fr' = [p \in Callers |-> None]
  /\ flight' = [l \in Lanes |-> None]
  /\ rsc' = [l \in Lanes |-> None]
  /\ todo' = [l \in Lanes |-> {}]
  /\ seeds' = Seeds
  /\ left' = [p \in Stoppers |-> {}]
  /\ snap' = [p \in Stoppers |-> None]
  /\ pending' = {}
  /\ UNCHANGED <<store, entries, output>>

Next ==
  \/ \E w \in Workers : ForwardRequest(w) \/ Dispatch(w)
  \/ \E p \in Callers : EnqueueStep(p)
  \/ \E l \in Lanes : LaneStep(l)
  \/ ReadSeed \/ ScanQueue \/ ScanProcessing \/ Interrupt \/ Count \/ Restart
  \/ \E h \in Handlers, u \in URLs : HandleResource(h, u)
  \/ \E p \in Stoppers : ShutdownStep(p) \/ \E l \in Lanes : Handshake(p, l)

(***************************************************************************)
(* The Go scheduler runs every goroutine that can run, tickers tick, and   *)
(* servers answer or fail (fetchbot's client has no timeout of its own).   *)
(* Nothing makes a signal or a crash happen.                               *)
(***************************************************************************)
Fairness ==
  /\ \A w \in Workers : WF_vars(ForwardRequest(w)) /\ WF_vars(Dispatch(w))
  /\ \A p \in Callers : WF_vars(EnqueueStep(p))
  /\ \A l \in Lanes : WF_vars(LaneStep(l))
  /\ \A p \in Stoppers : WF_vars(ShutdownStep(p) \/ \E l \in Lanes : Handshake(p, l))
  /\ WF_vars(ReadSeed) /\ WF_vars(ScanQueue) /\ WF_vars(ScanProcessing) /\ WF_vars(Count)
  /\ \A h \in Handlers, u \in URLs : WF_vars(HandleResource(h, u))

Safety == Init /\ [][Next]_vars

Spec == Safety /\ Fairness
==============================================================================
