-------------------------- MODULE CoordinatorProofs --------------------------
(***************************************************************************)
(* Proofs about the crawl, for every set of URLs, every site, every number *)
(* of workers and lanes and every size of the buffers.                     *)
(***************************************************************************)
EXTENDS CoordinatorProperties, SequenceTheorems, TLAPS

InCall == {"check", "reject", "put", "push", "add"}

\* What a goroutine has in its local variables, by where it is.
Locals ==
  /\ \A w \in Workers : slot[w] < Parallelism[w]
  /\ \A p \in Callers : pc[p] \in InCall \cup {"giveup"} => fr[p] \in Request
  /\ \A l \in Lanes :
       /\ pc[l] # "idle" => flight[l] \in Flight
       /\ pc[l] \notin {"idle", "fetch"} =>
            /\ rsc[l] \in Resource
            /\ rsc[l].kind = "redirect" => RedirectOf[flight[l].at] # None
  /\ \A p \in Stoppers : pc[p] = "write" => snap[p] \in Handlers \X (SUBSET URLs)

TypeInv == TypeOK /\ Locals

LEMMA InitTyped == Init => TypeInv
<1> SUFFICES ASSUME Init PROVE TypeInv
  OBVIOUS
<1> USE CrawlAssumption DEF Init
<1>1. Queue!TypeOK
  BY DEF Queue!Init, Queue!TypeOK
<1>2. Counter!TypeOK
  BY DEF Counter!Init, Counter!TypeOK
<1>3. pc \in [Procs -> Labels]
  BY DEF Started, Labels
<1>4. store \in [URLs -> Record]
  BY DEF Record
<1>5. fbq \in [Lanes -> Seq(URLs)] /\ slot \in [Workers -> Nat] /\ boots \in 0 .. MaxBoots
  OBVIOUS
<1>6. /\ ret \in [Callers -> {"seed", "sub", "links"}]
      /\ fr \in [Callers -> Request \cup {None}]
      /\ flight \in [Lanes -> Flight \cup {None}]
      /\ rsc \in [Lanes -> Resource \cup {None}]
  OBVIOUS
<1>7. TypeOK
  BY <1>1, <1>2, <1>3, <1>4, <1>5, <1>6 DEF TypeOK
<1>8. Locals
  BY DEF Locals, Started, Procs, Callers, Stoppers, InCall
<1> QED
  BY <1>7, <1>8 DEF TypeInv

\* The lane after a redirect: under way to the next URL, or done.
LEMMA FollowTyped ==
  ASSUME TypeInv, NEW l \in Lanes, FollowRedirect(l),
         flight[l] \in Flight, RedirectOf[flight[l].at] # None
  PROVE  \E f \in Flight \cup {None}, label \in {"idle", "fetch"} :
           /\ flight' = [flight EXCEPT ![l] = f]
           /\ pc' = [pc EXCEPT ![l] = label]
           /\ label = "fetch" => f \in Flight
<1>1. CASE flight[l].via >= MaxVia
  BY <1>1 DEF FollowRedirect, Land, Goto
<1>2. CASE ~(flight[l].via >= MaxVia)
  <2> DEFINE f == [cmd |-> flight[l].cmd, at |-> RedirectOf[flight[l].at],
                   via |-> flight[l].via + 1]
  <2>1. f \in Flight
    BY <1>2, CrawlAssumption DEF Flight
  <2>2. flight' = [flight EXCEPT ![l] = f] /\ pc' = [pc EXCEPT ![l] = "fetch"]
    BY <1>2 DEF FollowRedirect, Goto
  <2> HIDE DEF f
  <2> QED
    BY <2>1, <2>2
<1> QED
  BY <1>1, <1>2

LEMMA EnqueueTyped ==
  ASSUME TypeInv, NEW p \in Callers, EnqueueStep(p)
  PROVE  TypeInv'
<1> USE CrawlAssumption DEF TypeInv, TypeOK, Locals, Queue!TypeOK, Counter!TypeOK,
      Procs, Callers, Stoppers, InCall, Labels, Goto,
      queueVars, counterVars, fetchVars, laneVars, stopVars, siteVars
<1>1. CASE ReadStopping(p)
  BY <1>1 DEF ReadStopping
<1>2. CASE Reject(p)
  BY <1>2 DEF Reject, PutRequest, EnqueueReturns, Record, Request
<1>3. CASE PutQueued(p)
  BY <1>3 DEF PutQueued, PutRequest, Record, Request
<1>4. CASE PushRequest(p)
  BY <1>4, AppendProperties DEF PushRequest, Queue!Push, Queue!QueueLen, Request
<1>5. CASE CountUp(p)
  BY <1>5, AppendProperties DEF CountUp, Counter!Send, EnqueueReturns
<1> QED
  BY <1>1, <1>2, <1>3, <1>4, <1>5 DEF EnqueueStep

\* Handing a request over keeps the turn within the worker's fetchers.
LEMMA DispatchTyped ==
  ASSUME TypeInv, NEW w \in Workers, Dispatch(w)
  PROVE  TypeInv'
<1> DEFINE lane == LaneFor[w][slot[w]][hand[w]]
<1>1. /\ hand[w] # None
      /\ hand' = [hand EXCEPT ![w] = None] /\ channel' = channel
  BY DEF Dispatch, Queue!Deliver
<1>2. IF lane = None
      THEN UNCHANGED fetchVars
      ELSE /\ fbq' = [fbq EXCEPT ![lane] = Append(@, hand[w])]
           /\ slot' = [slot EXCEPT ![w] = (@ + 1) % Parallelism[w]]
  BY DEF Dispatch
<1>3. UNCHANGED <<store, counterVars, stopVars, pc, ret, fr, laneVars, seeds,
                  siteVars, boots>>
  BY DEF Dispatch
<1>4. /\ channel \in Seq(URLs) /\ Len(channel) <= QueueCap
      /\ hand \in [Workers -> URLs \cup {None}]
      /\ slot \in [Workers -> Nat] /\ \A v \in Workers : slot[v] < Parallelism[v]
      /\ fbq \in [Lanes -> Seq(URLs)]
  BY DEF TypeInv, TypeOK, Locals, Queue!TypeOK
<1>5. hand[w] \in URLs /\ slot[w] \in 0 .. Parallelism[w] - 1
  BY <1>1, <1>4, CrawlAssumption
<1>6. lane \in Lanes \cup {None}
  BY <1>5, CrawlAssumption
<1> DEFINE next == (slot[w] + 1) % Parallelism[w]
<1>7. next \in Nat /\ next < Parallelism[w]
  BY <1>5, CrawlAssumption
<1> HIDE DEF lane, next
<1>8. /\ fbq' \in [Lanes -> Seq(URLs)] /\ slot' \in [Workers -> Nat]
      /\ \A v \in Workers : slot'[v] < Parallelism[v]
  <2>1. CASE lane = None
    BY <1>2, <1>4, <2>1 DEF fetchVars
  <2>2. CASE lane \in Lanes
    <3>1. /\ fbq' = [fbq EXCEPT ![lane] = Append(@, hand[w])]
          /\ slot' = [slot EXCEPT ![w] = next]
      BY <1>2, <2>2, CrawlAssumption DEF next
    <3>2. fbq' \in [Lanes -> Seq(URLs)]
      BY <1>4, <1>5, <2>2, <3>1, AppendProperties
    <3>3. slot' \in [Workers -> Nat] /\ \A v \in Workers : slot'[v] < Parallelism[v]
      BY <1>4, <1>7, <3>1
    <3> QED
      BY <3>2, <3>3
  <2> QED
    BY <1>6, <2>1, <2>2
<1>9. Queue!TypeOK'
  BY <1>1, <1>4 DEF Queue!TypeOK
<1>10. Counter!TypeOK'
  BY <1>3 DEF TypeInv, TypeOK, Counter!TypeOK, counterVars
<1>11. TypeOK'
  BY <1>3, <1>8, <1>9, <1>10
  DEF TypeInv, TypeOK, laneVars, stopVars, siteVars
<1>12. Locals'
  BY <1>3, <1>8 DEF TypeInv, Locals, laneVars, stopVars
<1> QED
  BY <1>11, <1>12 DEF TypeInv

LEMMA FetchTyped ==
  ASSUME TypeInv,
         \/ \E w \in Workers : ForwardRequest(w) \/ Dispatch(w)
         \/ \E l \in Lanes : \/ Take(l) \/ FetchError(l) \/ Redirected(l)
                             \/ RecordRedirect(l) \/ Responded(l)
  PROVE  TypeInv'
<1> USE CrawlAssumption DEF TypeInv, TypeOK, Locals, Queue!TypeOK, Counter!TypeOK,
      Procs, Callers, Stoppers, InCall, Labels, Goto,
      queueVars, counterVars, fetchVars, laneVars, stopVars, siteVars
<1>1. ASSUME NEW w \in Workers, ForwardRequest(w) PROVE TypeInv'
  BY <1>1, HeadTailProperties DEF ForwardRequest, Queue!Forward
<1>2. ASSUME NEW w \in Workers, Dispatch(w) PROVE TypeInv'
  BY ONLY TypeInv, <1>2, DispatchTyped
<1>3. ASSUME NEW l \in Lanes, Take(l) PROVE TypeInv'
  <2>1. [cmd |-> Head(fbq[l]), at |-> Head(fbq[l]), via |-> 1] \in Flight
    BY <1>3 DEF Take, Flight
  <2>2. fbq' \in [Lanes -> Seq(URLs)]
    BY <1>3, HeadTailProperties DEF Take
  <2>3. /\ pc[l] = "idle" /\ pc' = [pc EXCEPT ![l] = "fetch"]
        /\ flight' = [flight EXCEPT ![l] =
                        [cmd |-> Head(fbq[l]), at |-> Head(fbq[l]), via |-> 1]]
        /\ UNCHANGED <<store, queueVars, counterVars, slot, stopVars, ret, fr, rsc,
                       todo, seeds, siteVars, boots>>
    BY ONLY <1>3 DEF Take, Goto
  <2>4. TypeOK'
    BY <2>1, <2>2, <2>3
  <2>5. Locals'
    BY <2>1, <2>3
  <2> QED
    BY ONLY <2>4, <2>5 DEF TypeInv
<1>4. ASSUME NEW l \in Lanes, FetchError(l) PROVE TypeInv'
  BY <1>4 DEF FetchError, Land
<1>5. ASSUME NEW l \in Lanes, Redirected(l) PROVE TypeInv'
  <2>1. flight[l] \in Flight /\ RedirectOf[flight[l].at] # None /\ FollowRedirect(l)
    BY <1>5 DEF Redirected
  <2>2. PICK f \in Flight \cup {None}, label \in {"idle", "fetch"} :
          /\ flight' = [flight EXCEPT ![l] = f]
          /\ pc' = [pc EXCEPT ![l] = label]
          /\ label = "fetch" => f \in Flight
    BY ONLY TypeInv, <2>1, FollowTyped
  <2>3. pc[l] = "fetch" /\
        UNCHANGED <<store, queueVars, counterVars, fetchVars, stopVars, ret, fr, rsc,
                    todo, seeds, siteVars, boots>>
    BY <1>5 DEF Redirected
  <2>4. TypeOK'
    BY <2>2, <2>3
  <2>5. Locals'
    BY <2>2, <2>3
  <2> QED
    BY <2>4, <2>5
<1>6. ASSUME NEW l \in Lanes, RecordRedirect(l) PROVE TypeInv'
  <2>1. [url |-> Norm[flight[l].at], kind |-> "redirect"] \in Resource
    BY <1>6 DEF RecordRedirect, Resource, Flight
  <2>2. TypeOK'
    BY <1>6, <2>1 DEF RecordRedirect
  <2>3. Locals'
    BY <1>6, <2>1 DEF RecordRedirect
  <2> QED
    BY <2>2, <2>3
<1>7. ASSUME NEW l \in Lanes, Responded(l) PROVE TypeInv'
  <2>1. PICK kind \in Outcomes \ {"error"} :
          rsc' = [rsc EXCEPT ![l] = [url |-> ResponseURL(flight[l]), kind |-> kind]]
    BY ONLY <1>7 DEF Responded
  <2>2. [url |-> ResponseURL(flight[l]), kind |-> kind] \in Resource /\ kind # "redirect"
    BY <1>7 DEF Responded, Resource, ResponseURL, Flight
  <2>3. /\ todo' \in [Lanes -> SUBSET URLs]
        /\ pc[l] = "fetch" /\ pc' = [pc EXCEPT ![l] = "get"]
        /\ UNCHANGED <<store, queueVars, counterVars, fetchVars, stopVars, ret, fr,
                       flight, seeds, siteVars, boots>>
    BY <1>7 DEF Responded
  <2>4. TypeOK'
    BY <2>1, <2>2, <2>3
  <2>5. Locals'
    BY <2>1, <2>2, <2>3
  <2> QED
    BY ONLY <2>4, <2>5 DEF TypeInv
<1> QED
  BY <1>1, <1>2, <1>3, <1>4, <1>5, <1>6, <1>7

LEMMA CompleteTyped ==
  ASSUME TypeInv, NEW l \in Lanes,
         \/ NotRequested(l) \/ Succeed(l) \/ Retry(l) \/ OutOfAttempts(l) \/ GiveUp(l)
         \/ CountDown(l) \/ Settle(l) \/ CheckLink(l) \/ Completed(l)
  PROVE  TypeInv'
<1> USE CrawlAssumption DEF TypeInv, TypeOK, Locals, Queue!TypeOK, Counter!TypeOK,
      Procs, Callers, Stoppers, InCall, Labels, Goto,
      queueVars, counterVars, fetchVars, laneVars, stopVars, siteVars
<1>1. CASE NotRequested(l)
  BY <1>1 DEF NotRequested
<1>2. CASE Succeed(l)
  <2>1. Norm[rsc[l].url] \in URLs
    BY <1>2 DEF Succeed, Resource
  <2>2. pending' \subseteq Handlers \X URLs
    BY <1>2, <2>1 DEF Succeed
  <2>3. pc' = [pc EXCEPT ![l] = "sub"]
    BY <1>2 DEF Succeed
  <2>4. /\ pc[l] = "get"
        /\ UNCHANGED <<store, queueVars, counterVars, fetchVars, stopVars, ret, fr,
                       laneVars, seeds, entries, output, boots>>
    BY ONLY <1>2 DEF Succeed
  <2>5. TypeOK'
    BY <2>2, <2>3, <2>4
  <2>6. Locals'
    BY <2>3, <2>4
  <2> QED
    BY ONLY <2>5, <2>6 DEF TypeInv
<1>3. CASE Retry(l)
  <2>1. [url |-> rsc[l].url, attempts |-> Attempts(l)] \in Request
    <3>1. rsc[l].url \in URLs
      BY <1>3 DEF Retry, Resource
    <3> QED
      BY ONLY TypeInv, <3>1 DEF TypeInv, TypeOK, Record, Request, Attempts
  <2>2. /\ pc[l] = "get" /\ Enqueue(l, rsc[l].url, Attempts(l), "sub")
        /\ UNCHANGED <<store, queueVars, counterVars, fetchVars, stopVars, laneVars,
                       seeds, siteVars, boots>>
    BY ONLY <1>3 DEF Retry
  <2>3. TypeOK'
    BY <2>1, <2>2 DEF Enqueue
  <2>4. Locals'
    BY <2>1, <2>2 DEF Enqueue
  <2> QED
    BY ONLY <2>3, <2>4 DEF TypeInv
<1>4. CASE OutOfAttempts(l)
  <2>1. [url |-> rsc[l].url, attempts |-> Attempts(l)] \in Request
    <3>1. rsc[l].url \in URLs
      BY <1>4 DEF OutOfAttempts, Resource
    <3> QED
      BY ONLY TypeInv, <3>1 DEF TypeInv, TypeOK, Record, Request, Attempts
  <2>2. /\ pc[l] = "get" /\ pc' = [pc EXCEPT ![l] = "giveup"]
        /\ fr' = [fr EXCEPT ![l] = [url |-> rsc[l].url, attempts |-> Attempts(l)]]
        /\ UNCHANGED <<store, queueVars, counterVars, fetchVars, stopVars, ret,
                       laneVars, seeds, siteVars, boots>>
    BY ONLY <1>4 DEF OutOfAttempts, Goto
  <2>3. TypeOK'
    BY <2>1, <2>2
  <2>4. Locals'
    BY <2>1, <2>2
  <2> QED
    BY ONLY <2>3, <2>4 DEF TypeInv
<1>5. CASE GiveUp(l)
  BY <1>5 DEF GiveUp, PutRequest, Record, Request
<1>6. CASE CountDown(l)
  BY <1>6, AppendProperties DEF CountDown, Counter!Send
<1>7. CASE Settle(l)
  BY <1>7 DEF Settle, AfterWait
<1>8. CASE CheckLink(l)
  <2>1. PICK u \in todo[l] :
          /\ todo' = [todo EXCEPT ![l] = @ \ {u}]
          /\ IF u \in Known THEN UNCHANGED <<pc, ret, fr>> ELSE Enqueue(l, u, 0, "links")
    BY <1>8 DEF CheckLink
  <2>2. CASE u \in Known
    BY <1>8, <2>1, <2>2 DEF CheckLink
  <2>3. CASE u \notin Known
    <3>1. [url |-> u, attempts |-> 0] \in Request
      BY <2>1 DEF Request
    <3>2. Enqueue(l, u, 0, "links")
      BY <2>1, <2>3
    <3>3. /\ fr' \in [Callers -> Request \cup {None}] /\ fr'[l] \in Request
          /\ \A p \in Callers \ {l} : fr'[p] = fr[p]
      BY <3>1, <3>2 DEF Enqueue
    <3> QED
      BY <1>8, <2>1, <3>2, <3>3 DEF CheckLink, Enqueue
  <2> QED
    BY <2>2, <2>3
<1>9. CASE Completed(l)
  <2>1. CASE rsc[l].kind = "redirect"
    <3>1. flight[l] \in Flight /\ RedirectOf[flight[l].at] # None /\ FollowRedirect(l)
      BY <1>9, <2>1 DEF Completed
    <3>2. PICK f \in Flight \cup {None}, label \in {"idle", "fetch"} :
            /\ flight' = [flight EXCEPT ![l] = f]
            /\ pc' = [pc EXCEPT ![l] = label]
            /\ label = "fetch" => f \in Flight
      BY ONLY TypeInv, <3>1, FollowTyped
    <3>3. /\ rsc' = [rsc EXCEPT ![l] = None]
          /\ UNCHANGED <<store, queueVars, counterVars, fetchVars, stopVars, ret, fr,
                         todo, seeds, siteVars, boots>>
      BY <1>9 DEF Completed
    <3>4. TypeOK'
      BY <3>2, <3>3
    <3>5. Locals'
      BY <3>2, <3>3
    <3> QED
      BY <3>4, <3>5
  <2>2. CASE rsc[l].kind # "redirect"
    <3>1. /\ rsc' = [rsc EXCEPT ![l] = None]
          /\ flight' = [flight EXCEPT ![l] = None]
          /\ pc' = [pc EXCEPT ![l] = "idle"]
      <4> HIDE DEF TypeInv
      <4> QED
        BY <1>9, <2>2 DEF Completed, Land
    <3>2. TypeOK'
      BY <1>9, <3>1 DEF Completed
    <3>3. Locals'
      BY <1>9, <3>1 DEF Completed
    <3> QED
      BY <3>2, <3>3
  <2> QED
    BY <2>1, <2>2
<1> QED
  BY <1>1, <1>2, <1>3, <1>4, <1>5, <1>6, <1>7, <1>8, <1>9

LEMMA OthersTyped ==
  ASSUME TypeInv,
         \/ ReadSeed \/ ScanQueue \/ ScanProcessing \/ Interrupt \/ Count \/ Restart
         \/ \E h \in Handlers, u \in URLs : HandleResource(h, u)
  PROVE  TypeInv'
<1> USE CrawlAssumption DEF TypeInv, TypeOK, Locals, Queue!TypeOK, Counter!TypeOK,
      Procs, Callers, Stoppers, InCall, Labels, Goto,
      queueVars, counterVars, fetchVars, laneVars, stopVars, siteVars
<1>1. CASE ReadSeed
  <2>1. CASE seeds = << >>
    BY <1>1, <2>1 DEF ReadSeed
  <2>2. CASE seeds # << >>
    <3>1. Head(seeds) \in URLs /\ Tail(seeds) \in Seq(URLs)
      BY <2>2, HeadTailProperties
    <3>2. [url |-> Head(seeds), attempts |-> 0] \in Request
      BY <3>1 DEF Request
    <3>3. seeds' = Tail(seeds) /\ Enqueue(Seeder, Head(seeds), 0, "seed")
      BY <1>1, <2>2 DEF ReadSeed
    <3>4. /\ fr' \in [Callers -> Request \cup {None}] /\ fr'[Seeder] \in Request
          /\ \A p \in Callers \ {Seeder} : fr'[p] = fr[p]
      BY <3>2, <3>3 DEF Enqueue
    <3> QED
      BY <1>1, <3>1, <3>3, <3>4 DEF ReadSeed, Enqueue
  <2> QED
    BY <2>1, <2>2
<1>2. CASE ScanQueue
  BY <1>2 DEF ScanQueue
<1>3. CASE ScanProcessing
  BY <1>3 DEF ScanProcessing
<1>4. CASE Interrupt
  BY <1>4 DEF Interrupt
<1>5. CASE Count
  <2>1. CASE Counter!Apply
    <3>1. Head(changes) \in {1, -1}
      BY <2>1 DEF Counter!Apply
    <3>2. processing' \in Int
      BY <2>1, <3>1 DEF Counter!Apply
    <3>3. changes' \in Seq({1, -1}) /\ Len(changes') <= ChangesCap
      BY <2>1, HeadTailProperties DEF Counter!Apply
    <3> QED
      BY <1>5, <2>1, <3>2, <3>3 DEF Count, Counter!Apply
  <2>2. CASE Counter!Stop(cancelled)
    BY <1>5, <2>2 DEF Count, Counter!Stop
  <2> QED
    BY <1>5, <2>1, <2>2 DEF Count
<1>6. CASE Restart
  <2>1. Queue!TypeOK'
    BY <1>6 DEF Restart
  <2>2. Counter!TypeOK'
    BY <1>6 DEF Restart
  <2>3. pc' \in [Procs -> Labels]
    BY <1>6 DEF Restart, Started
  <2>4. Locals'
    BY <1>6 DEF Restart, Started
  <2>5. fbq' \in [Lanes -> Seq(URLs)] /\ slot' \in [Workers -> Nat] /\ boots' \in 0 .. MaxBoots
    BY <1>6 DEF Restart
  <2>6. /\ ret' \in [Callers -> {"seed", "sub", "links"}]
        /\ fr' \in [Callers -> Request \cup {None}]
        /\ flight' \in [Lanes -> Flight \cup {None}]
        /\ rsc' \in [Lanes -> Resource \cup {None}]
    BY <1>6 DEF Restart
  <2> HIDE DEF Queue!TypeOK, Counter!TypeOK, Locals
  <2> QED
    BY <1>6, <2>1, <2>2, <2>3, <2>4, <2>5, <2>6 DEF Restart
<1>7. ASSUME NEW h \in Handlers, NEW u \in URLs, HandleResource(h, u) PROVE TypeInv'
  BY <1>7 DEF HandleResource
<1> QED
  BY <1>1, <1>2, <1>3, <1>4, <1>5, <1>6, <1>7

LEMMA ShutdownTyped ==
  ASSUME TypeInv, NEW p \in Stoppers,
         ShutdownStep(p) \/ \E l \in Lanes : Handshake(p, l)
  PROVE  TypeInv'
<1> USE CrawlAssumption DEF TypeInv, TypeOK, Locals, Queue!TypeOK, Counter!TypeOK,
      Procs, Callers, Stoppers, InCall, Labels, Goto,
      queueVars, counterVars, fetchVars, laneVars, stopVars, siteVars
<1>1. CASE SetStopping(p)
  BY <1>1 DEF SetStopping
<1>2. CASE MeasureQueue(p)
  BY <1>2 DEF MeasureQueue
<1>3. ASSUME NEW l \in Lanes, Handshake(p, l) PROVE TypeInv'
  BY <1>3 DEF Handshake, AfterWait
<1>4. CASE Cancel(p)
  BY <1>4 DEF Cancel
<1>5. CASE Generate(p)
  BY <1>5 DEF Generate
<1>6. CASE WriteFile(p)
  BY <1>6 DEF WriteFile
<1>7. CASE ShutdownReturns(p)
  BY <1>7 DEF ShutdownReturns
<1> QED
  BY <1>1, <1>2, <1>3, <1>4, <1>5, <1>6, <1>7 DEF ShutdownStep
LEMMA StepTyped ==
  ASSUME TypeInv, [Next]_vars
  PROVE  TypeInv'
<1>1. CASE Next
  <2>1. ASSUME NEW w \in Workers, ForwardRequest(w) \/ Dispatch(w) PROVE TypeInv'
    BY ONLY TypeInv, <2>1, FetchTyped
  <2>2. ASSUME NEW p \in Callers, EnqueueStep(p) PROVE TypeInv'
    BY ONLY TypeInv, <2>2, EnqueueTyped
  <2>3. ASSUME NEW l \in Lanes, LaneStep(l) PROVE TypeInv'
    BY ONLY TypeInv, <2>3, FetchTyped, CompleteTyped DEF LaneStep
  <2>4. ASSUME \/ ReadSeed \/ ScanQueue \/ ScanProcessing \/ Interrupt \/ Count \/ Restart
               \/ \E h \in Handlers, u \in URLs : HandleResource(h, u)
        PROVE TypeInv'
    BY ONLY TypeInv, <2>4, OthersTyped
  <2>5. ASSUME NEW p \in Stoppers, ShutdownStep(p) \/ \E l \in Lanes : Handshake(p, l)
        PROVE TypeInv'
    BY ONLY TypeInv, <2>5, ShutdownTyped
  <2> QED
    BY ONLY <1>1, <2>1, <2>2, <2>3, <2>4, <2>5 DEF Next
<1>2. CASE UNCHANGED vars
  BY <1>2 DEF vars, queueVars, counterVars, fetchVars, laneVars, stopVars, siteVars,
       TypeInv, TypeOK, Locals, Queue!TypeOK, Counter!TypeOK
<1> QED
  BY <1>1, <1>2

\* Every variable of a crawl keeps its type, and every goroutine has in its
\* local variables what the code it is about to run reads from them: a lane
\* that completes a resource has one, a redirect has somewhere to go.
THEOREM CrawlTyped == Safety => [](TypeOK /\ Locals)
<1>1. TypeInv /\ [Next]_vars => TypeInv'
  BY StepTyped
<1> QED
  BY <1>1, InitTyped, PTL DEF Safety, TypeInv

------------------------------------------------------------------------------
(***************************************************************************)
(* What is on record while a crawl runs.  Each invariant needs to say more *)
(* than the property: what the requests still inside enqueue and the       *)
(* resources not yet handled have passed.                                  *)
(***************************************************************************)
\* A step that stores nothing and leaves every enqueue where it was.
Aside ==
  /\ UNCHANGED <<store, fr, boots>>
  /\ stopping => stopping'
  /\ \A p \in Callers : pc'[p] = pc[p] \/ pc'[p] \notin InCall \cup {"giveup"}

\* A step of the crawl that does not touch a request stands aside, ...
LEMMA FetchAside ==
  ASSUME TypeInv,
         \/ \E w \in Workers : ForwardRequest(w) \/ Dispatch(w)
         \/ \E l \in Lanes : \/ Take(l) \/ FetchError(l) \/ Redirected(l)
                             \/ RecordRedirect(l) \/ Responded(l)
  PROVE  Aside
<1> USE DEF Aside, Goto, InCall, TypeInv, TypeOK, Callers, Procs, stopVars
<1>1. ASSUME NEW w \in Workers, ForwardRequest(w) PROVE Aside
  BY <1>1 DEF ForwardRequest
<1>2. ASSUME NEW w \in Workers, Dispatch(w) PROVE Aside
  BY <1>2 DEF Dispatch
<1>3. ASSUME NEW l \in Lanes, Take(l) PROVE Aside
  BY <1>3 DEF Take
<1>4. ASSUME NEW l \in Lanes, FetchError(l) PROVE Aside
  BY <1>4 DEF FetchError, Land
<1>5. ASSUME NEW l \in Lanes, Redirected(l) PROVE Aside
  BY <1>5 DEF Redirected, FollowRedirect, Land
<1>6. ASSUME NEW l \in Lanes, RecordRedirect(l) PROVE Aside
  BY <1>6 DEF RecordRedirect
<1>7. ASSUME NEW l \in Lanes, Responded(l) PROVE Aside
  BY <1>7 DEF Responded
<1> QED
  BY <1>1, <1>2, <1>3, <1>4, <1>5, <1>6, <1>7

LEMMA CompleteAside ==
  ASSUME TypeInv, NEW l \in Lanes,
         \/ NotRequested(l) \/ Succeed(l) \/ CountDown(l) \/ Settle(l) \/ Completed(l)
  PROVE  Aside
<1> USE DEF Aside, Goto, InCall, TypeInv, TypeOK, Callers, Procs, stopVars
<1>1. CASE NotRequested(l)
  BY <1>1 DEF NotRequested
<1>2. CASE Succeed(l)
  BY <1>2 DEF Succeed
<1>3. CASE CountDown(l)
  BY <1>3 DEF CountDown
<1>4. CASE Settle(l)
  BY <1>4 DEF Settle, AfterWait
<1>5. CASE Completed(l)
  BY <1>5 DEF Completed, FollowRedirect, Land
<1> QED
  BY <1>1, <1>2, <1>3, <1>4, <1>5

LEMMA OthersAside ==
  ASSUME TypeInv,
         \/ ScanQueue \/ ScanProcessing \/ Interrupt \/ Count
         \/ \E h \in Handlers, u \in URLs : HandleResource(h, u)
         \/ \E p \in Stoppers : ShutdownStep(p) \/ \E l \in Lanes : Handshake(p, l)
         \/ UNCHANGED vars
  PROVE  Aside
<1> USE DEF Aside, Goto, InCall, TypeInv, TypeOK, Callers, Stoppers, Procs, stopVars
<1>1. CASE ScanQueue
  BY <1>1 DEF ScanQueue
<1>2. CASE ScanProcessing
  BY <1>2 DEF ScanProcessing
<1>3. CASE Interrupt
  BY <1>3 DEF Interrupt
<1>4. CASE Count
  BY <1>4 DEF Count
<1>5. ASSUME NEW h \in Handlers, NEW u \in URLs, HandleResource(h, u) PROVE Aside
  BY <1>5 DEF HandleResource
<1>6. ASSUME NEW p \in Stoppers, ShutdownStep(p) PROVE Aside
  <2>1. CASE SetStopping(p)
    BY <2>1 DEF SetStopping
  <2>2. CASE MeasureQueue(p)
    BY <2>2 DEF MeasureQueue
  <2>3. CASE Cancel(p)
    BY <2>3 DEF Cancel
  <2>4. CASE Generate(p)
    BY <2>4 DEF Generate
  <2>5. CASE WriteFile(p)
    BY <2>5 DEF WriteFile
  <2>6. CASE ShutdownReturns(p)
    BY <2>6 DEF ShutdownReturns
  <2> QED
    BY <1>6, <2>1, <2>2, <2>3, <2>4, <2>5, <2>6 DEF ShutdownStep
<1>7. ASSUME NEW p \in Stoppers, NEW l \in Lanes, Handshake(p, l) PROVE Aside
  BY <1>7 DEF Handshake, AfterWait
<1>8. CASE UNCHANGED vars
  BY <1>8 DEF vars
<1> QED
  BY <1>1, <1>2, <1>3, <1>4, <1>5, <1>6, <1>7, <1>8

\* ... and the others are the steps of enqueue and of those who call it.
LEMMA AsideOrNot ==
  ASSUME TypeInv, [Next]_vars
  PROVE  \/ Aside
         \/ \E p \in Callers : EnqueueStep(p)
         \/ \E l \in Lanes : Retry(l) \/ OutOfAttempts(l) \/ GiveUp(l) \/ CheckLink(l)
         \/ ReadSeed \/ Restart
  BY ONLY TypeInv, [Next]_vars, FetchAside, CompleteAside, OthersAside
  DEF Next, LaneStep

------------------------------------------------------------------------------
(***************************************************************************)
(* RetryBudget.  A request on its way into the store as queued has         *)
(* attempts left, one on its way to being rejected is there because of a   *)
(* shutdown, and one that is given up has none left.                       *)
(***************************************************************************)
BudgetInv ==
  /\ RetryBudget
  /\ \A p \in Callers :
       /\ pc[p] \in InCall => fr[p].attempts <= MaxAttempts
       /\ pc[p] = "reject" => stopping \/ boots > 0
       /\ pc[p] = "giveup" => fr[p].attempts > MaxAttempts

\* What enqueue does to the request it was called with.
LEMMA EnqueueInBudget ==
  ASSUME TypeInv, BudgetInv, NEW p \in Callers, EnqueueStep(p)
  PROVE  BudgetInv'
<1> USE DEF TypeInv, TypeOK, Locals, BudgetInv, RetryBudget, Goto, InCall, Callers, Procs,
          Record, Request, stopVars
<1>1. CASE ReadStopping(p)
  BY <1>1 DEF ReadStopping
<1>2. CASE Reject(p)
  BY <1>2 DEF Reject, PutRequest, EnqueueReturns
<1>3. CASE PutQueued(p)
  BY <1>3 DEF PutQueued, PutRequest
<1>4. CASE PushRequest(p)
  BY <1>4 DEF PushRequest
<1>5. CASE CountUp(p)
  BY <1>5 DEF CountUp, EnqueueReturns
<1> QED
  BY <1>1, <1>2, <1>3, <1>4, <1>5 DEF EnqueueStep

\* A call of enqueue with attempts left keeps to the budget.
LEMMA CallInBudget ==
  ASSUME TypeInv, BudgetInv, NEW p \in Callers, NEW u \in URLs, NEW n \in Nat,
         NEW back, n <= MaxAttempts, Enqueue(p, u, n, back),
         UNCHANGED <<store, stopping, boots>>
  PROVE  BudgetInv'
<1>1. fr' = [fr EXCEPT ![p] = [url |-> u, attempts |-> n]]
      /\ pc' = [pc EXCEPT ![p] = "check"]
  BY ONLY Enqueue(p, u, n, back) DEF Enqueue, Goto
<1>2. p \in DOMAIN fr /\ p \in DOMAIN pc
  BY ONLY TypeInv, p \in Callers DEF TypeInv, TypeOK, Procs
<1>3. RetryBudget'
  BY ONLY BudgetInv, UNCHANGED <<store, stopping, boots>> DEF BudgetInv, RetryBudget
<1>4. ASSUME NEW q \in Callers
      PROVE  /\ pc'[q] \in InCall => fr'[q].attempts <= MaxAttempts
             /\ pc'[q] = "reject" => stopping' \/ boots' > 0
             /\ pc'[q] = "giveup" => fr'[q].attempts > MaxAttempts
  <2>1. CASE q = p
    BY ONLY <1>1, <1>2, <2>1, n <= MaxAttempts
  <2>2. CASE q # p
    <3>1. pc'[q] = pc[q] /\ fr'[q] = fr[q]
      BY ONLY <1>1, <2>2, TypeInv DEF TypeInv, TypeOK, Procs
    <3> QED
      BY ONLY <3>1, BudgetInv, UNCHANGED <<store, stopping, boots>> DEF BudgetInv
  <2> QED
    BY ONLY <2>1, <2>2
<1> QED
  BY ONLY <1>3, <1>4 DEF BudgetInv, InCall

\* What the callers of enqueue and the retries do.
LEMMA CallsInBudget ==
  ASSUME TypeInv, BudgetInv,
         \/ \E l \in Lanes : Retry(l) \/ OutOfAttempts(l) \/ GiveUp(l) \/ CheckLink(l)
         \/ ReadSeed \/ Restart
  PROVE  BudgetInv'
<1> USE DEF TypeInv, TypeOK, Locals, BudgetInv, RetryBudget, Goto, InCall, Callers, Procs,
          Record, Request, stopVars, Enqueue
<1>1. ASSUME NEW l \in Lanes, Retry(l) PROVE BudgetInv'
  BY <1>1 DEF Retry
<1>2. ASSUME NEW l \in Lanes, OutOfAttempts(l) PROVE BudgetInv'
  BY <1>2, CrawlAssumption DEF OutOfAttempts, Attempts, Resource
<1>3. ASSUME NEW l \in Lanes, GiveUp(l) PROVE BudgetInv'
  <2>1. fr[l].url \in URLs /\ fr[l].attempts > MaxAttempts
    BY <1>3 DEF GiveUp
  <2>2. /\ store' = [store EXCEPT ![fr[l].url] =
                       [status |-> "failed", attempts |-> fr[l].attempts]]
        /\ fr' = [fr EXCEPT ![l] = None] /\ pc' = [pc EXCEPT ![l] = "sub"]
        /\ UNCHANGED <<stopping, boots>>
    BY <1>3 DEF GiveUp, PutRequest
  <2>3. ASSUME NEW u \in URLs
        PROVE  /\ store'[u].status = "queued" => store'[u].attempts <= MaxAttempts
               /\ store'[u].status = "failed" /\ store'[u].attempts <= MaxAttempts
                    => stopping' \/ boots' > 0
    <3>1. CASE u = fr[l].url
      <4>1. store'[u] = [status |-> "failed", attempts |-> fr[l].attempts]
        BY <2>2, <3>1
      <4>2. fr[l].attempts \in Nat
        BY <1>3 DEF GiveUp
      <4> HIDE DEF TypeInv, BudgetInv
      <4> QED
        BY <2>1, <4>1, <4>2, CrawlAssumption
    <3>2. CASE u # fr[l].url
      BY <2>2, <3>2
    <3> QED
      BY <3>1, <3>2
  <2> QED
    BY <2>2, <2>3
<1>4. ASSUME NEW l \in Lanes, CheckLink(l) PROVE BudgetInv'
  <2>1. PICK u \in todo[l] : IF u \in Known THEN UNCHANGED <<pc, ret, fr>>
                                           ELSE Enqueue(l, u, 0, "links")
    BY ONLY <1>4 DEF CheckLink
  <2>2. u \in URLs /\ l \in Callers /\ UNCHANGED <<store, stopping, boots>>
    BY <1>4 DEF CheckLink
  <2>3. CASE u \in Known
    BY <2>1, <2>2, <2>3
  <2>4. CASE u \notin Known
    <3>1. Enqueue(l, u, 0, "links")
      BY ONLY <2>1, <2>4
    <3> HIDE DEF TypeInv, BudgetInv, Enqueue, Callers
    <3> QED
      BY ONLY <2>2, <3>1, TypeInv, BudgetInv, CallInBudget, CrawlAssumption
  <2> QED
    BY ONLY <2>3, <2>4
<1>5. CASE ReadSeed
  <2>1. Seeder \in Callers /\ UNCHANGED <<store, stopping, boots>>
    BY <1>5 DEF ReadSeed
  <2>2. CASE seeds = << >>
    BY <1>5, <2>2, CrawlAssumption DEF ReadSeed
  <2>3. CASE seeds # << >>
    <3>1. Head(seeds) \in URLs /\ Enqueue(Seeder, Head(seeds), 0, "seed")
      BY ONLY <1>5, <2>3, TypeInv DEF ReadSeed, TypeInv, TypeOK
    <3> HIDE DEF TypeInv, BudgetInv, Enqueue, Callers
    <3> QED
      BY ONLY <2>1, <3>1, TypeInv, BudgetInv, CallInBudget, CrawlAssumption
  <2> QED
    BY ONLY <2>2, <2>3
<1>6. CASE Restart
  BY <1>6, CrawlAssumption DEF Restart, Started
<1> QED
  BY <1>1, <1>2, <1>3, <1>4, <1>5, <1>6

LEMMA StepInBudget ==
  ASSUME TypeInv, BudgetInv, [Next]_vars
  PROVE  BudgetInv'
<1>1. CASE Aside
  BY <1>1 DEF Aside, BudgetInv, RetryBudget, InCall
<1> QED
  BY ONLY TypeInv, BudgetInv, [Next]_vars, <1>1, AsideOrNot, EnqueueInBudget, CallsInBudget

\* A request is queued only while it has attempts left, however many goroutines
\* retry it, and one that fails with attempts left failed because of a shutdown.
THEOREM RetriesStayInBudget == Safety => []RetryBudget
<1>1. Init => BudgetInv
  BY CrawlAssumption DEF Init, BudgetInv, RetryBudget, Started, Callers, Procs, InCall
<1>2. TypeInv /\ BudgetInv /\ [Next]_vars => BudgetInv'
  BY StepInBudget
<1>3. Safety => []TypeInv
  BY CrawlTyped DEF TypeInv
<1> QED
  BY <1>1, <1>2, <1>3, PTL DEF Safety, BudgetInv

------------------------------------------------------------------------------
(***************************************************************************)
(* RequestsRecorded.  The request enqueue is about to push is on record.   *)
(***************************************************************************)
RecordInv ==
  /\ RequestsRecorded
  /\ \A p \in Callers : pc[p] = "push" => fr[p].url \in Known

\* Nothing is ever taken out of the store.
LEMMA KnownGrows ==
  ASSUME TypeInv, [Next]_vars
  PROVE  Known \subseteq Known'
<1> USE DEF TypeInv, TypeOK, Known, Enqueue, PutRequest, EnqueueReturns
<1>1. CASE Aside
  BY <1>1 DEF Aside
<1>2. ASSUME NEW p \in Callers, EnqueueStep(p) PROVE Known \subseteq Known'
  <2>1. CASE UNCHANGED store
    BY ONLY <2>1 DEF Known
  <2>2. CASE Reject(p)
    BY <2>2 DEF Reject
  <2>3. CASE PutQueued(p)
    BY <2>3 DEF PutQueued
  <2> QED
    BY ONLY <1>2, <2>1, <2>2, <2>3 DEF EnqueueStep, ReadStopping, PushRequest, CountUp
<1>3. ASSUME NEW l \in Lanes, Retry(l) \/ OutOfAttempts(l) \/ GiveUp(l) \/ CheckLink(l)
      PROVE  Known \subseteq Known'
  BY <1>3 DEF Retry, OutOfAttempts, GiveUp, CheckLink
<1>4. CASE ReadSeed \/ Restart
  BY <1>4 DEF ReadSeed, Restart
<1> HIDE DEF TypeInv
<1> QED
  BY <1>1, <1>2, <1>3, <1>4, AsideOrNot

\* Nothing moves: no lane takes a command, no request changes its place.
Unmoved ==
  /\ UNCHANGED <<channel, hand, fbq, flight>>
  /\ \A l \in Lanes : pc[l] = "idle" => pc'[l] = "idle"

Moved ==
  \/ \E w \in Workers : ForwardRequest(w) \/ Dispatch(w)
  \/ \E p \in Callers : PushRequest(p)
  \/ \E l \in Lanes : Take(l) \/ FetchError(l) \/ Redirected(l) \/ Completed(l)
  \/ Restart

\* A request moves from enqueue to the channel, from there to a forwarder, to
\* the commands of a lane, and to its hands; no other step moves one.
LEMMA MovedOrNot ==
  ASSUME TypeInv, [Next]_vars
  PROVE  Unmoved \/ Moved
<1> USE DEF Unmoved, queueVars, fetchVars, laneVars, Goto, Enqueue, EnqueueReturns
<1>1. /\ pc \in [Procs -> Labels] /\ Lanes \subseteq Procs /\ Callers \subseteq Procs
      /\ Stoppers \subseteq Procs /\ {Seeder, Scanner, Signal} \subseteq Procs
  BY DEF TypeInv, TypeOK, Procs, Callers, Stoppers
<1>2. ASSUME NEW p \in Callers, EnqueueStep(p) PROVE Unmoved \/ PushRequest(p)
  BY ONLY <1>1, <1>2 DEF EnqueueStep, ReadStopping, Reject, PutQueued, CountUp
<1>3. ASSUME NEW l \in Lanes, LaneStep(l)
      PROVE  Unmoved \/ Take(l) \/ FetchError(l) \/ Redirected(l) \/ Completed(l)
  <2>1. CASE RecordRedirect(l) \/ Responded(l) \/ NotRequested(l) \/ Succeed(l)
    BY ONLY <1>1, <2>1 DEF RecordRedirect, Responded, NotRequested, Succeed
  <2>2. CASE Retry(l) \/ OutOfAttempts(l) \/ GiveUp(l)
    BY ONLY <1>1, <2>2 DEF Retry, OutOfAttempts, GiveUp
  <2>3. CASE CountDown(l) \/ Settle(l) \/ CheckLink(l)
    BY ONLY <1>1, <2>3 DEF CountDown, Settle, CheckLink
  <2> QED
    BY ONLY <1>3, <2>1, <2>2, <2>3 DEF LaneStep
<1>4. ASSUME ReadSeed \/ ScanQueue \/ ScanProcessing \/ Interrupt \/ Count PROVE Unmoved
  BY ONLY <1>1, <1>4 DEF ReadSeed, ScanQueue, ScanProcessing, Interrupt, Count
<1>5. ASSUME NEW h \in Handlers, NEW u \in URLs, HandleResource(h, u) PROVE Unmoved
  BY ONLY <1>5 DEF HandleResource
<1>6. ASSUME NEW p \in Stoppers, ShutdownStep(p) PROVE Unmoved
  BY ONLY <1>1, <1>6 DEF ShutdownStep, SetStopping, MeasureQueue, Cancel, Generate,
       WriteFile, ShutdownReturns
<1>7. ASSUME NEW p \in Stoppers, NEW l \in Lanes, Handshake(p, l) PROVE Unmoved
  BY ONLY <1>1, <1>7 DEF Handshake
<1>8. CASE UNCHANGED vars
  BY <1>8 DEF vars
<1> HIDE DEF Unmoved
<1>9. ASSUME NEW p \in Callers, EnqueueStep(p) PROVE Unmoved \/ Moved
  BY <1>2, <1>9 DEF Moved
<1>10. ASSUME NEW l \in Lanes, LaneStep(l) PROVE Unmoved \/ Moved
  <2>1. CASE Take(l) \/ FetchError(l) \/ Redirected(l) \/ Completed(l)
    BY <2>1 DEF Moved
  <2> QED
    BY ONLY <1>3, <1>10, <2>1
<1>11. ASSUME NEW w \in Workers, ForwardRequest(w) \/ Dispatch(w) PROVE Moved
  BY <1>11 DEF Moved
<1>12. ASSUME Restart PROVE Moved
  BY <1>12 DEF Moved
<1>13. CASE Next
  BY ONLY <1>13, <1>4, <1>5, <1>6, <1>7, <1>9, <1>10, <1>11, <1>12 DEF Next
<1> QED
  BY <1>8, <1>13

\* Only PutQueued sends a goroutine to the push.
LEMMA PushRecorded ==
  ASSUME TypeInv, RecordInv, [Next]_vars
  PROVE  \A p \in Callers : pc'[p] = "push" => fr'[p].url \in Known'
<1> DEFINE Ready == \A p \in Callers : pc'[p] = "push" => fr'[p].url \in Known'
<1>1. Known \subseteq Known'
  BY KnownGrows
<1> USE DEF TypeInv, TypeOK, Goto, Enqueue, EnqueueReturns, Callers, Procs, InCall
<1>2. CASE Aside
  BY <1>1, <1>2 DEF Aside, RecordInv
<1>3. ASSUME NEW p \in Callers, EnqueueStep(p) PROVE Ready
  <2>1. CASE PutQueued(p)
    <3>1. fr[p].url \in URLs
      BY <2>1 DEF PutQueued, Locals, Request
    <3>2. fr[p].url \in Known' /\ fr' = fr
      BY <2>1, <3>1 DEF PutQueued, PutRequest, Known
    <3> QED
      BY <1>1, <2>1, <3>2 DEF PutQueued, RecordInv
  <2>2. CASE ReadStopping(p) \/ Reject(p) \/ PushRequest(p) \/ CountUp(p)
    BY <1>1, <2>2 DEF ReadStopping, Reject, PushRequest, CountUp, RecordInv
  <2> QED
    BY <1>3, <2>1, <2>2 DEF EnqueueStep
<1>4. ASSUME NEW l \in Lanes, Retry(l) \/ OutOfAttempts(l) \/ GiveUp(l) \/ CheckLink(l)
      PROVE  Ready
  BY <1>1, <1>4 DEF Retry, OutOfAttempts, GiveUp, CheckLink, RecordInv
<1>5. CASE ReadSeed
  BY <1>1, <1>5 DEF ReadSeed, RecordInv
<1>6. CASE Restart
  BY <1>6, CrawlAssumption DEF Restart, Started
<1> HIDE DEF Ready, TypeInv
<1> QED
  BY <1>2, <1>3, <1>4, <1>5, <1>6, AsideOrNot DEF Ready

\* What moves is the request that was on record a step before.
LEMMA MovesRecorded ==
  ASSUME TypeInv, RecordInv, [Next]_vars
  PROVE  RequestsRecorded'
<1> DEFINE InQueue == /\ \A i \in DOMAIN channel : channel[i] \in Known
                      /\ \A w \in Workers : hand[w] # None => hand[w] \in Known
           InLanes == \A l \in Lanes : \A i \in DOMAIN fbq[l] : fbq[l][i] \in Known
           InFlight == \A l \in Lanes : pc[l] # "idle" => flight[l].cmd \in Known
<1>1. Known \subseteq Known'
  BY KnownGrows
<1>2. /\ InQueue /\ InLanes /\ InFlight
      /\ \A p \in Callers : pc[p] = "push" => fr[p].url \in Known
  BY DEF RecordInv, RequestsRecorded
<1>3. /\ channel \in Seq(URLs) /\ hand \in [Workers -> URLs \cup {None}]
      /\ fbq \in [Lanes -> Seq(URLs)]
      /\ pc \in [Procs -> Labels] /\ flight \in [Lanes -> Flight \cup {None}]
  BY DEF TypeInv, TypeOK, Queue!TypeOK
<1>4. UNCHANGED <<channel, hand>> => InQueue'
  BY <1>1, <1>2
<1>5. UNCHANGED fbq => InLanes'
  BY <1>1, <1>2
<1>6. UNCHANGED flight /\ (\A l \in Lanes : pc[l] = "idle" => pc'[l] = "idle") => InFlight'
  BY <1>1, <1>2
<1> USE DEF queueVars, fetchVars, laneVars
<1>7. ASSUME NEW w \in Workers, ForwardRequest(w) PROVE InQueue' /\ InLanes' /\ InFlight'
  <2>1. InQueue'
    BY <1>1, <1>2, <1>3, <1>7, HeadTailProperties DEF ForwardRequest, Queue!Forward
  <2> HIDE DEF InQueue, InLanes, InFlight
  <2> QED
    BY <1>5, <1>6, <1>7, <2>1 DEF ForwardRequest
<1>8. ASSUME NEW w \in Workers, Dispatch(w) PROVE InQueue' /\ InLanes' /\ InFlight'
  <2> DEFINE lane == LaneFor[w][slot[w]][hand[w]]
  <2>1. hand[w] \in Known /\ hand[w] \in URLs
    BY <1>2, <1>3, <1>8 DEF Dispatch, Queue!Deliver
  <2>2. InQueue'
    BY <1>1, <1>2, <1>3, <1>8 DEF Dispatch, Queue!Deliver
  <2>3. UNCHANGED fbq \/ fbq' = [fbq EXCEPT ![lane] = Append(@, hand[w])]
    BY <1>8 DEF Dispatch
  <2> HIDE DEF lane, InQueue, InFlight
  <2>4. InLanes'
    <3>1. CASE UNCHANGED fbq
      BY <1>5, <3>1
    <3>2. CASE fbq' = [fbq EXCEPT ![lane] = Append(@, hand[w])]
      <4>1. ASSUME NEW l \in Lanes, NEW i \in DOMAIN fbq'[l], l # lane
            PROVE  fbq'[l][i] \in Known
        BY <1>2, <1>3, <3>2, <4>1
      <4>2. ASSUME lane \in Lanes, NEW i \in DOMAIN fbq'[lane]
            PROVE  fbq'[lane][i] \in Known
        <5>1. fbq[lane] \in Seq(URLs) /\ fbq'[lane] = Append(fbq[lane], hand[w])
          BY <1>3, <3>2, <4>2
        <5>2. \A j \in DOMAIN fbq[lane] : fbq[lane][j] \in Known
          BY <1>2, <4>2
        <5> QED
          BY <2>1, <4>2, <5>1, <5>2, AppendProperties
      <4> QED
        BY <1>1, <4>1, <4>2
    <3> QED
      BY <2>3, <3>1, <3>2
  <2> HIDE DEF InLanes
  <2> QED
    BY <1>6, <1>8, <2>2, <2>4 DEF Dispatch
<1>9. ASSUME NEW p \in Callers, PushRequest(p) PROVE InQueue' /\ InLanes' /\ InFlight'
  <2>1. fr[p].url \in Known /\ fr[p].url \in URLs
    BY <1>2, <1>9 DEF PushRequest, Known
  <2>2. channel' = Append(channel, fr[p].url) /\ hand' = hand
    BY <1>9 DEF PushRequest, Queue!Push
  <2>3. InQueue'
    BY <1>1, <1>2, <1>3, <2>1, <2>2, AppendProperties
  <2>4. \A l \in Lanes : pc[l] = "idle" => pc'[l] = "idle"
    BY <1>3, <1>9 DEF PushRequest, Goto, Procs, Callers
  <2> HIDE DEF InQueue, InLanes, InFlight
  <2> QED
    BY <1>5, <1>6, <1>9, <2>3, <2>4 DEF PushRequest
<1>10. ASSUME NEW l \in Lanes, Take(l) PROVE InQueue' /\ InLanes' /\ InFlight'
  <2>1. Head(fbq[l]) \in Known
    BY <1>2, <1>3, <1>10, HeadTailProperties DEF Take
  <2>2. InLanes'
    BY <1>1, <1>2, <1>3, <1>10, HeadTailProperties DEF Take
  <2>3. InFlight'
    BY <1>1, <1>2, <1>3, <1>10, <2>1 DEF Take, Goto, Procs, Callers
  <2> HIDE DEF InQueue, InLanes, InFlight
  <2> QED
    BY <1>4, <1>10, <2>2, <2>3 DEF Take
<1>11. ASSUME NEW l \in Lanes, FetchError(l) \/ Redirected(l) \/ Completed(l)
       PROVE  InQueue' /\ InLanes' /\ InFlight'
  <2>1. pc[l] # "idle" /\ UNCHANGED <<channel, hand, fbq>>
    BY <1>11 DEF FetchError, Redirected, Completed
  <2>2. \/ Land(l)
        \/ /\ flight' = [flight EXCEPT ![l] = [cmd |-> flight[l].cmd,
                           at |-> RedirectOf[flight[l].at], via |-> flight[l].via + 1]]
           /\ Goto(l, "fetch")
    BY <1>11 DEF FetchError, Redirected, Completed, FollowRedirect
  <2>3. InFlight'
    <3>1. CASE Land(l)
      BY <1>1, <1>2, <1>3, <3>1 DEF Land, Goto, Procs, Callers
    <3>2. CASE ~Land(l)
      <4>1. flight'[l].cmd = flight[l].cmd /\ \A m \in Lanes \ {l} : flight'[m] = flight[m]
        BY <1>3, <2>2, <3>2
      <4>2. \A m \in Lanes \ {l} : pc'[m] = pc[m]
        BY <1>3, <2>2, <3>2 DEF Goto, Procs, Callers
      <4> QED
        BY <1>1, <1>2, <2>1, <4>1, <4>2
    <3> QED
      BY <3>1, <3>2
  <2> HIDE DEF InQueue, InLanes, InFlight
  <2> QED
    BY <1>4, <1>5, <2>1, <2>3
<1>12. ASSUME Restart PROVE InQueue' /\ InLanes' /\ InFlight'
  BY <1>12 DEF Restart, Started, Procs, Callers
<1>13. ASSUME Unmoved PROVE InQueue' /\ InLanes' /\ InFlight'
  <2> HIDE DEF InQueue, InLanes, InFlight
  <2> QED
    BY <1>4, <1>5, <1>6, <1>13 DEF Unmoved
<1> HIDE DEF InQueue, InLanes, InFlight
<1>14. InQueue' /\ InLanes' /\ InFlight'
  BY <1>7, <1>8, <1>9, <1>10, <1>11, <1>12, <1>13, MovedOrNot DEF Moved
<1> QED
  BY <1>14 DEF RequestsRecorded, InQueue, InLanes, InFlight

\* Whatever the process holds in memory when it dies, the queue, the hands of
\* the forwarders and the commands of the fetchers, is in badger too.
THEOREM RequestsStayRecorded == Safety => []RequestsRecorded
<1>1. Init => RecordInv
  BY CrawlAssumption DEF Init, RecordInv, RequestsRecorded, Queue!Init, Started, Callers, Procs
<1>2. TypeInv /\ RecordInv /\ [Next]_vars => RecordInv'
  BY PushRecorded, MovesRecorded DEF RecordInv
<1>3. Safety => []TypeInv
  BY CrawlTyped DEF TypeInv
<1> QED
  BY <1>1, <1>2, <1>3, PTL DEF Safety, RecordInv

------------------------------------------------------------------------------
(***************************************************************************)
(* SitemapOnlyRequested.  A handler's goroutine was started for a resource *)
(* whose request the store knew, and the store has not forgotten it since. *)
(***************************************************************************)
NormKnown == {Norm[u] : u \in Known}

SitemapInv ==
  /\ \A h \in Handlers : entries[h] \subseteq NormKnown
  /\ \A h \in Handlers, u \in URLs : <<h, u>> \in pending => u \in NormKnown

\* Only a success starts handlers, and only a handler adds an entry.
LEMMA HandledOrNot ==
  ASSUME [Next]_vars
  PROVE  \/ UNCHANGED <<pending, entries>>
         \/ \E l \in Lanes : Succeed(l)
         \/ \E h \in Handlers, u \in URLs : HandleResource(h, u)
         \/ Restart
<1> DEFINE Same == UNCHANGED <<pending, entries>>
<1> USE DEF siteVars
<1>1. ASSUME NEW w \in Workers, ForwardRequest(w) \/ Dispatch(w) PROVE Same
  BY <1>1 DEF ForwardRequest, Dispatch
<1>2. ASSUME NEW p \in Callers, EnqueueStep(p) PROVE Same
  BY <1>2 DEF EnqueueStep, ReadStopping, Reject, PutQueued, PushRequest, CountUp
<1>3. ASSUME NEW l \in Lanes, LaneStep(l) PROVE Same \/ Succeed(l)
  BY <1>3 DEF LaneStep, Take, FetchError, Redirected, RecordRedirect, Responded,
       NotRequested, Retry, OutOfAttempts, GiveUp, CountDown, Settle, CheckLink, Completed
<1>4. ASSUME ReadSeed \/ ScanQueue \/ ScanProcessing \/ Interrupt \/ Count PROVE Same
  BY <1>4 DEF ReadSeed, ScanQueue, ScanProcessing, Interrupt, Count
<1>5. ASSUME NEW p \in Stoppers, ShutdownStep(p) PROVE Same
  BY <1>5 DEF ShutdownStep, SetStopping, MeasureQueue, Cancel, Generate, WriteFile,
       ShutdownReturns
<1>6. ASSUME NEW p \in Stoppers, NEW l \in Lanes, Handshake(p, l) PROVE Same
  BY <1>6 DEF Handshake
<1>7. CASE UNCHANGED vars
  BY <1>7 DEF vars
<1> HIDE DEF Same
<1>8. ASSUME Next
      PROVE  Same \/ (\E l \in Lanes : Succeed(l))
               \/ (\E h \in Handlers, u \in URLs : HandleResource(h, u)) \/ Restart
  BY ONLY <1>8, <1>1, <1>2, <1>3, <1>4, <1>5, <1>6 DEF Next
<1> QED
  BY <1>7, <1>8 DEF Same

LEMMA StepInSitemap ==
  ASSUME TypeInv, SitemapInv, [Next]_vars
  PROVE  SitemapInv'
<1>1. NormKnown \subseteq NormKnown'
  BY KnownGrows DEF NormKnown
<1>2. CASE UNCHANGED <<pending, entries>>
  BY <1>1, <1>2 DEF SitemapInv
<1>3. ASSUME NEW l \in Lanes, Succeed(l) PROVE SitemapInv'
  <2>1. Norm[rsc[l].url] \in NormKnown
    BY <1>3 DEF Succeed, NormKnown
  <2>2. /\ pending' = pending \cup {<<h, Norm[rsc[l].url]>> : h \in Handlers}
        /\ entries' = entries
    BY <1>3 DEF Succeed
  <2> QED
    BY <1>1, <2>1, <2>2 DEF SitemapInv
<1>4. ASSUME NEW h \in Handlers, NEW u \in URLs, HandleResource(h, u) PROVE SitemapInv'
  <2>1. u \in NormKnown
    BY <1>4 DEF HandleResource, SitemapInv
  <2>2. /\ pending' \subseteq pending /\ entries' = [entries EXCEPT ![h] = @ \cup {u}]
        /\ entries \in [Handlers -> SUBSET URLs]
    BY <1>4 DEF HandleResource, TypeInv, TypeOK
  <2> QED
    BY <1>1, <2>1, <2>2 DEF SitemapInv
<1>5. CASE Restart
  BY <1>1, <1>5 DEF Restart, SitemapInv
<1> QED
  BY <1>2, <1>3, <1>4, <1>5, HandledOrNot

\* No redirect, link or error puts a URL in a sitemap that nobody requested,
\* and handlers running late or after a restart do not either.
THEOREM SitemapsOnlyRequested == Safety => []SitemapOnlyRequested
<1>1. Init => SitemapInv
  BY DEF Init, SitemapInv
<1>2. TypeInv /\ SitemapInv /\ [Next]_vars => SitemapInv'
  BY StepInSitemap
<1>3. SitemapInv => SitemapOnlyRequested
  BY DEF SitemapInv, SitemapOnlyRequested, NormKnown
<1>4. Safety => []TypeInv
  BY CrawlTyped DEF TypeInv
<1> QED
  BY <1>1, <1>2, <1>3, <1>4, PTL DEF Safety
------------------------------------------------------------------------------
(***************************************************************************)
(* The coordinator implements Crawl: each of its steps is a request, a     *)
(* record, a view, a publication or a crash of the abstract crawl, or a    *)
(* stutter of it.                                                          *)
(***************************************************************************)
\* A goroutine holds a sitemap only between reading and writing it.
SnapInv == \A p \in Stoppers : pc[p] # "write" => snap[p] = None

ReaderVars == <<entries, snap, output>>

\* A step that no reader of the sitemaps sees: it may request something.
Hidden ==
  /\ UNCHANGED ReaderVars
  /\ Known' = Known \/ \E u \in URLs : Known' = Known \cup {u}
  /\ \A p \in Stoppers : pc'[p] = "write" <=> pc[p] = "write"

Shown ==
  \/ \E h \in Handlers, u \in URLs : HandleResource(h, u)
  \/ \E p \in Stoppers : Generate(p) \/ WriteFile(p)
  \/ Restart

\* Putting a request makes its URL known, and no other.
LEMMA PutKnown ==
  ASSUME TypeInv, NEW u \in URLs, NEW status \in {"queued", "failed"}, NEW n,
         PutRequest(u, status, n)
  PROVE  Known' = Known \cup {u}
<1>1. store'[u].status # "unknown" /\ \A v \in URLs \ {u} : store'[v] = store[v]
  BY DEF PutRequest, TypeInv, TypeOK
<1> QED
  BY <1>1 DEF Known

LEMMA EnqueueHidden ==
  ASSUME TypeInv, NEW p \in Callers, EnqueueStep(p)
  PROVE  Hidden
<1> USE DEF Hidden, ReaderVars, siteVars, stopVars, Goto
<1>1. pc \in [Procs -> Labels] /\ p \in Procs
  BY DEF TypeInv, TypeOK, Procs
<1>2. ret[p] # "write" /\ (pc[p] \in InCall => fr[p].url \in URLs)
  BY DEF TypeInv, TypeOK, Locals, Request
<1>3. CASE ReadStopping(p)
  BY <1>1, <1>3 DEF ReadStopping, Known, Stoppers, Procs
<1>4. CASE Reject(p)
  <2>1. Known' = Known \cup {fr[p].url} /\ fr[p].url \in URLs
    BY <1>2, <1>4, PutKnown DEF Reject, InCall
  <2> QED
    BY <1>1, <1>2, <1>4, <2>1 DEF Reject, EnqueueReturns, Stoppers, Procs
<1>5. CASE PutQueued(p)
  <2>1. Known' = Known \cup {fr[p].url} /\ fr[p].url \in URLs
    BY <1>2, <1>5, PutKnown DEF PutQueued, InCall
  <2> QED
    BY <1>1, <1>5, <2>1 DEF PutQueued, Stoppers, Procs
<1>6. CASE PushRequest(p)
  BY <1>1, <1>6 DEF PushRequest, Known, Stoppers, Procs
<1>7. CASE CountUp(p)
  BY <1>1, <1>2, <1>7 DEF CountUp, EnqueueReturns, Known, Stoppers, Procs
<1> QED
  BY <1>3, <1>4, <1>5, <1>6, <1>7 DEF EnqueueStep

LEMMA LaneHidden ==
  ASSUME TypeInv, NEW l \in Lanes, LaneStep(l)
  PROVE  Hidden
<1> USE DEF Hidden, ReaderVars, siteVars, stopVars, Goto, Stoppers, Procs
<1>1. pc \in [Procs -> Labels] /\ l \in Procs
  BY DEF TypeInv, TypeOK
<1>2. CASE Take(l) \/ FetchError(l) \/ Redirected(l) \/ RecordRedirect(l) \/ Responded(l)
  BY <1>1, <1>2 DEF Take, FetchError, Redirected, RecordRedirect, Responded,
       FollowRedirect, Land, Known
<1>3. CASE NotRequested(l) \/ Succeed(l) \/ CountDown(l) \/ Settle(l)
  BY <1>1, <1>3 DEF NotRequested, Succeed, CountDown, Settle, AfterWait, Known
<1>4. CASE Retry(l) \/ OutOfAttempts(l)
  BY <1>1, <1>4 DEF Retry, OutOfAttempts, Enqueue, Known
<1>5. CASE GiveUp(l)
  <2>1. fr[l].url \in URLs
    BY <1>5 DEF GiveUp, TypeInv, Locals, Request, Callers
  <2>2. Known' = Known \cup {fr[l].url}
    BY <1>5, <2>1, PutKnown DEF GiveUp
  <2> QED
    BY <1>1, <1>5, <2>1, <2>2 DEF GiveUp
<1>6. CASE CheckLink(l)
  BY <1>1, <1>6 DEF CheckLink, Enqueue, Known
<1>7. CASE Completed(l)
  BY <1>1, <1>7 DEF Completed, FollowRedirect, Land, Known
<1> QED
  BY <1>2, <1>3, <1>4, <1>5, <1>6, <1>7 DEF LaneStep

LEMMA OthersHidden ==
  ASSUME TypeInv,
         \/ \E w \in Workers : ForwardRequest(w) \/ Dispatch(w)
         \/ ReadSeed \/ ScanQueue \/ ScanProcessing \/ Interrupt \/ Count
         \/ \E p \in Stoppers : \/ SetStopping(p) \/ MeasureQueue(p) \/ Cancel(p)
                                \/ ShutdownReturns(p)
                                \/ \E l \in Lanes : Handshake(p, l)
         \/ UNCHANGED vars
  PROVE  Hidden
<1> USE DEF Hidden, ReaderVars, siteVars, stopVars, Goto, Stoppers, Callers, Procs, Known
<1>1. pc \in [Procs -> Labels]
  BY DEF TypeInv, TypeOK
<1>2. ASSUME NEW w \in Workers, ForwardRequest(w) \/ Dispatch(w) PROVE Hidden
  BY <1>2 DEF ForwardRequest, Dispatch
<1>3. CASE ReadSeed
  BY <1>1, <1>3 DEF ReadSeed, Enqueue
<1>4. CASE ScanQueue \/ ScanProcessing \/ Interrupt
  BY <1>1, <1>4 DEF ScanQueue, ScanProcessing, Interrupt
<1>5. CASE Count
  BY <1>5 DEF Count
<1>6. ASSUME NEW p \in Stoppers,
             SetStopping(p) \/ MeasureQueue(p) \/ Cancel(p) \/ ShutdownReturns(p)
      PROVE  Hidden
  BY <1>1, <1>6 DEF SetStopping, MeasureQueue, Cancel, ShutdownReturns
<1>7. ASSUME NEW p \in Stoppers, NEW l \in Lanes, Handshake(p, l) PROVE Hidden
  BY <1>1, <1>7 DEF Handshake, AfterWait
<1>8. CASE UNCHANGED vars
  BY <1>8 DEF vars
<1> QED
  BY <1>2, <1>3, <1>4, <1>5, <1>6, <1>7, <1>8

LEMMA HiddenOrShown ==
  ASSUME TypeInv, [Next]_vars
  PROVE  Hidden \/ Shown
  BY ONLY TypeInv, [Next]_vars, EnqueueHidden, LaneHidden, OthersHidden
  DEF Next, ShutdownStep, Shown

LEMMA StepSnap ==
  ASSUME TypeInv, SnapInv, [Next]_vars
  PROVE  SnapInv'
<1>1. pc \in [Procs -> Labels] /\ snap \in [Stoppers -> (Handlers \X (SUBSET URLs)) \cup {None}]
  BY DEF TypeInv, TypeOK
<1>2. CASE Hidden
  BY <1>2 DEF Hidden, ReaderVars, SnapInv
<1>3. ASSUME NEW h \in Handlers, NEW u \in URLs, HandleResource(h, u) PROVE SnapInv'
  BY <1>3 DEF HandleResource, SnapInv, stopVars
<1>4. ASSUME NEW p \in Stoppers, Generate(p) PROVE SnapInv'
  BY <1>1, <1>4 DEF Generate, SnapInv, Goto, Procs
<1>5. ASSUME NEW p \in Stoppers, WriteFile(p) PROVE SnapInv'
  BY <1>1, <1>5 DEF WriteFile, SnapInv, Goto, Procs
<1>6. CASE Restart
  BY <1>6 DEF Restart, SnapInv
<1> QED
  BY <1>2, <1>3, <1>4, <1>5, <1>6, HiddenOrShown DEF Shown

\* A step of the coordinator is a step of the abstract crawl.
LEMMA StepImplements ==
  ASSUME TypeInv, SitemapInv, SnapInv, [Next]_vars
  PROVE  [Abstract!Next]_(Abstract!vars)
<1> USE DEF Abstract!Next, Abstract!vars
<1>1. /\ snap \in [Stoppers -> (Handlers \X (SUBSET URLs)) \cup {None}]
      /\ pc \in [Procs -> Labels]
  BY DEF TypeInv, TypeOK
<1>2. CASE Hidden
  <2>1. CASE Known' = Known
    BY <1>2, <2>1 DEF Hidden, ReaderVars
  <2>2. ASSUME NEW u \in URLs, Known' = Known \cup {u} PROVE Abstract!Request(u)
    BY <1>2, <2>2 DEF Hidden, ReaderVars, Abstract!Request
  <2> QED
    BY <1>2, <2>1, <2>2 DEF Hidden
<1>3. ASSUME NEW h \in Handlers, NEW u \in URLs, HandleResource(h, u)
      PROVE  Abstract!Record(h, u)
  <2>1. u \in NormKnown
    BY <1>3 DEF HandleResource, SitemapInv
  <2> QED
    BY <1>3, <2>1 DEF HandleResource, Abstract!Record, Abstract!Recordable, NormKnown,
         Known, stopVars
<1>4. ASSUME NEW p \in Stoppers, Generate(p)
      PROVE  \E h \in Handlers : Abstract!View(p, h)
  <2>1. PICK h \in left[p] : snap' = [snap EXCEPT ![p] = <<h, entries[h]>>]
    BY <1>4 DEF Generate
  <2>2. h \in Handlers
    BY DEF TypeInv, TypeOK
  <2>3. snap[p] = None
    BY <1>4 DEF Generate, SnapInv
  <2>4. Abstract!View(p, h)
    BY <1>4, <2>1, <2>3 DEF Generate, Abstract!View, Known, siteVars
  <2> QED
    BY <2>2, <2>4
<1>5. ASSUME NEW p \in Stoppers, WriteFile(p) PROVE Abstract!Publish(p)
  <2>1. snap[p] \in Handlers \X (SUBSET URLs)
    BY <1>5 DEF WriteFile, TypeInv, Locals
  <2>2. snap[p] # None
    BY <2>1, CrawlAssumption
  <2> QED
    BY <1>5, <2>2 DEF WriteFile, Abstract!Publish, Known
<1>6. CASE Restart
  BY <1>6 DEF Restart, Abstract!Crash, Known
<1> QED
  BY <1>2, <1>3, <1>4, <1>5, <1>6, HiddenOrShown DEF Shown

\* Whatever the lanes, the shutdowns and a restart do, a reader of the sitemaps
\* sees an abstract crawl.
THEOREM CoordinatorIsCrawl == Safety => ImplementsCrawl
<1>1. Init => SitemapInv /\ SnapInv /\ Abstract!Init
  BY DEF Init, SitemapInv, SnapInv, Abstract!Init, Known
<1>2. TypeInv /\ SitemapInv /\ SnapInv /\ [Next]_vars => SitemapInv' /\ SnapInv'
  BY StepInSitemap, StepSnap
<1>3. TypeInv /\ SitemapInv /\ SnapInv /\ [Next]_vars => [Abstract!Next]_(Abstract!vars)
  BY StepImplements
<1>4. Safety => []TypeInv
  BY CrawlTyped DEF TypeInv
<1> QED
  BY <1>1, <1>2, <1>3, <1>4, PTL DEF Safety, ImplementsCrawl, Abstract!Spec

Theory == INSTANCE CrawlTheorems
            WITH requested <- Known, recorded <- entries, views <- snap,
                 published <- output, Publishers <- Stoppers

\* A sitemap file, not only the record it is made from, lists only URLs that were
\* requested: what holds of every abstract crawl holds of this one.
THEOREM FilesOnlyRequested == Safety => []Abstract!PublishedRequested
<1>1. Theory!Spec => []Theory!PublishedRequested
  BY Theory!PublishedSound
<1>2. Theory!Init <=> Abstract!Init
  BY DEF Theory!Init, Abstract!Init
<1>3. [Theory!Next]_(Theory!vars) <=> [Abstract!Next]_(Abstract!vars)
  BY DEF Theory!Next, Abstract!Next, Theory!vars, Abstract!vars,
         Theory!Request, Abstract!Request, Theory!Record, Abstract!Record,
         Theory!View, Abstract!View, Theory!Publish, Abstract!Publish,
         Theory!Crash, Abstract!Crash, Theory!Recordable, Abstract!Recordable
<1>4. Theory!PublishedRequested <=> Abstract!PublishedRequested
  BY DEF Theory!PublishedRequested, Abstract!PublishedRequested,
         Theory!Recordable, Abstract!Recordable
<1> QED
  BY <1>1, <1>2, <1>3, <1>4, CoordinatorIsCrawl, PTL
  DEF ImplementsCrawl, Theory!Spec, Abstract!Spec

------------------------------------------------------------------------------
(***************************************************************************)
(* FileNeverShrinks.  With one goroutine that calls Shutdown, a sitemap    *)
(* that is about to be written is older than the record but younger than   *)
(* the file.  Two of them may write what they read in the other order.     *)
(***************************************************************************)
\* Who may call Shutdown: the signal handler, the done scan, or the lanes that
\* meet the stop URL.
MayStop ==
  {p \in Stoppers : \/ p = Signal /\ Signals
                    \/ p = Scanner /\ DoneScan
                    \/ p \in Lanes /\ StopURL \in URLs}

OneStopper == \A p, q \in MayStop : p = q

Shutting == {"flag", "len", "send", "cancel", "generate", "write"}

StopInv ==
  /\ pc[Scanner] \in {"tick", "scan"} => DoneScan
  /\ \A p \in Stoppers : pc[p] \in Shutting => p \in MayStop

LEMMA StepStops ==
  ASSUME TypeInv, StopInv, [Next]_vars
  PROVE  StopInv'
<1>1. /\ pc \in [Procs -> Labels] /\ ret \in [Callers -> {"seed", "sub", "links"}]
      /\ Procs = Lanes \cup {Seeder, Scanner, Signal} /\ Callers = Lanes \cup {Seeder}
      /\ Stoppers = Lanes \cup {Scanner, Signal}
      /\ {Seeder, Scanner, Signal} \cap Lanes = {}
      /\ Seeder # Scanner /\ Seeder # Signal /\ Scanner # Signal
  BY CrawlAssumption DEF TypeInv, TypeOK, Procs, Callers, Stoppers
<1> USE StopInv DEF StopInv, Shutting, Goto, Enqueue, EnqueueReturns
<1>2. ASSUME NEW w \in Workers, ForwardRequest(w) \/ Dispatch(w) PROVE StopInv'
  BY ONLY <1>2, StopInv DEF ForwardRequest, Dispatch
<1>3. ASSUME NEW p \in Callers, EnqueueStep(p) PROVE StopInv'
  <2>1. CASE ReadStopping(p) \/ PutQueued(p) \/ PushRequest(p)
    BY ONLY <1>1, <2>1, StopInv, p \in Callers DEF ReadStopping, PutQueued, PushRequest
  <2>2. CASE Reject(p) \/ CountUp(p)
    BY ONLY <1>1, <2>2, StopInv, p \in Callers DEF Reject, CountUp
  <2> QED
    BY ONLY <1>3, <2>1, <2>2 DEF EnqueueStep
<1>4. ASSUME NEW l \in Lanes, pc[l] \in {"settle", "wait"}, AfterWait(l) = "flag"
      PROVE  l \in MayStop
  <2>1. rsc[l].url \in URLs
    BY <1>4 DEF TypeInv, Locals, Resource
  <2> QED
    BY ONLY <1>1, <1>4, <2>1, l \in Lanes DEF AfterWait, MayStop
<1>5. ASSUME NEW l \in Lanes, LaneStep(l) PROVE StopInv'
  <2>1. CASE Take(l) \/ RecordRedirect(l) \/ Responded(l) \/ NotRequested(l)
    BY ONLY <1>1, <2>1, StopInv, l \in Lanes DEF Take, RecordRedirect, Responded, NotRequested
  <2>2. CASE FetchError(l) \/ Redirected(l) \/ Completed(l)
    BY ONLY <1>1, <2>2, StopInv, l \in Lanes
    DEF FetchError, Redirected, Completed, FollowRedirect, Land
  <2>3. CASE Succeed(l) \/ Retry(l) \/ OutOfAttempts(l) \/ GiveUp(l) \/ CountDown(l)
    BY ONLY <1>1, <2>3, StopInv, l \in Lanes
    DEF Succeed, Retry, OutOfAttempts, GiveUp, CountDown
  <2>4. CASE Settle(l)
    <3>1. AfterWait(l) \in {"flag", "links"}
      BY DEF AfterWait
    <3> QED
      BY ONLY <1>1, <1>4, <2>4, <3>1, StopInv, l \in Lanes DEF Settle
  <2>5. CASE CheckLink(l)
    BY ONLY <1>1, <2>5, StopInv, l \in Lanes DEF CheckLink
  <2> QED
    BY ONLY <1>5, <2>1, <2>2, <2>3, <2>4, <2>5 DEF LaneStep
<1>6. CASE ReadSeed
  BY ONLY <1>1, <1>6, StopInv DEF ReadSeed
<1>7. CASE ScanQueue \/ ScanProcessing
  BY ONLY <1>1, <1>7, StopInv DEF ScanQueue, ScanProcessing, MayStop
<1>8. CASE Interrupt
  BY ONLY <1>1, <1>8, StopInv DEF Interrupt, MayStop
<1>9. CASE Count
  BY ONLY <1>9, StopInv DEF Count
<1>10. CASE Restart
  BY ONLY <1>1, <1>10 DEF Restart, Started
<1>11. ASSUME NEW h \in Handlers, NEW u \in URLs, HandleResource(h, u) PROVE StopInv'
  BY ONLY <1>11, StopInv DEF HandleResource
<1>12. ASSUME NEW p \in Stoppers, ShutdownStep(p) PROVE StopInv'
  BY ONLY <1>1, <1>12, StopInv, p \in Stoppers DEF ShutdownStep, SetStopping, MeasureQueue,
       Cancel, Generate, WriteFile, ShutdownReturns
<1>13. ASSUME NEW p \in Stoppers, NEW l \in Lanes, Handshake(p, l) PROVE StopInv'
  <2>1. AfterWait(l) \in {"flag", "links"}
    BY DEF AfterWait
  <2> QED
    BY ONLY <1>1, <1>4, <1>13, <2>1, StopInv, p \in Stoppers, l \in Lanes DEF Handshake
<1>14. CASE UNCHANGED vars
  BY ONLY <1>14, StopInv DEF vars
<1> QED
  BY ONLY [Next]_vars, <1>2, <1>3, <1>5, <1>6, <1>7, <1>8, <1>9, <1>10, <1>11, <1>12, <1>13,
          <1>14 DEF Next

\* A file is part of the sitemap read last, which is part of the record.
FileInv ==
  /\ \A h \in Handlers : output[h] # None => output[h] \subseteq entries[h]
  /\ \A p \in Stoppers, h \in Handlers : \A read \in SUBSET URLs :
       pc[p] = "write" /\ snap[p] = <<h, read>> =>
         read \subseteq entries[h] /\ (output[h] # None => output[h] \subseteq read)

LEMMA StepInFile ==
  ASSUME OneStopper, TypeInv, StopInv, FileInv, [Next]_vars
  PROVE  FileInv' /\ \A h \in Handlers : output[h] # None => output[h] \subseteq output'[h]
<1> DEFINE Grows == \A h \in Handlers : output[h] # None => output[h] \subseteq output'[h]
<1>1. /\ snap \in [Stoppers -> (Handlers \X (SUBSET URLs)) \cup {None}]
      /\ entries \in [Handlers -> SUBSET URLs]
      /\ output \in [Handlers -> (SUBSET URLs) \cup {None}]
      /\ pc \in [Procs -> Labels] /\ Stoppers \subseteq Procs
      /\ left \in [Stoppers -> SUBSET Handlers]
  BY DEF TypeInv, TypeOK, Procs
<1>2. CASE Hidden
  <2>1. /\ UNCHANGED <<entries, snap, output>>
        /\ \A p \in Stoppers : pc'[p] = "write" => pc[p] = "write"
    BY <1>2 DEF Hidden, ReaderVars
  <2> QED
    BY ONLY <2>1, FileInv DEF FileInv
<1>3. ASSUME NEW h \in Handlers, NEW u \in URLs, HandleResource(h, u) PROVE FileInv' /\ Grows
  <2>1. /\ entries' = [entries EXCEPT ![h] = @ \cup {u}] /\ UNCHANGED <<output, snap, pc>>
    BY <1>3 DEF HandleResource, stopVars
  <2>2. \A g \in Handlers : entries[g] \subseteq entries'[g]
    BY <1>1, <2>1
  <2> QED
    BY ONLY <2>1, <2>2, FileInv DEF FileInv
<1>4. ASSUME NEW p \in Stoppers, Generate(p) PROVE FileInv' /\ Grows
  <2>1. PICK h \in left[p] : snap' = [snap EXCEPT ![p] = <<h, entries[h]>>]
    BY <1>4 DEF Generate
  <2>2. h \in Handlers /\ UNCHANGED <<entries, output>> /\ pc' = [pc EXCEPT ![p] = "write"]
    BY <1>1, <1>4 DEF Generate, siteVars, Goto
  <2>3. snap'[p] = <<h, entries[h]>> /\ \A q \in Stoppers \ {p} : snap'[q] = snap[q] /\ pc'[q] = pc[q]
    BY <1>1, <2>1, <2>2
  <2> QED
    BY ONLY <2>2, <2>3, FileInv DEF FileInv
<1>5. ASSUME NEW p \in Stoppers, WriteFile(p) PROVE FileInv' /\ Grows
  <2>1. pc[p] = "write"
    BY <1>5 DEF WriteFile
  <2>2. PICK h \in Handlers, read \in SUBSET URLs : snap[p] = <<h, read>>
    BY <2>1 DEF TypeInv, Locals
  <2>3. /\ output' = [output EXCEPT ![h] = read] /\ entries' = entries
        /\ snap' = [snap EXCEPT ![p] = None] /\ pc' = [pc EXCEPT ![p] = "generate"]
    BY <1>5, <2>2 DEF WriteFile, Goto
  <2>4. \A q \in Stoppers : pc'[q] # "write"
    <3>1. \A q \in Stoppers : pc[q] = "write" => q = p
      BY ONLY <2>1, StopInv, OneStopper, p \in Stoppers DEF StopInv, OneStopper, Shutting
    <3> QED
      BY <1>1, <2>3, <3>1
  <2>5. read \subseteq entries[h] /\ (output[h] # None => output[h] \subseteq read)
    BY <2>1, <2>2 DEF FileInv
  <2>6. output'[h] = read /\ \A g \in Handlers \ {h} : output'[g] = output[g]
    BY <1>1, <2>3
  <2>7. FileInv'
    BY ONLY <2>3, <2>4, <2>5, <2>6, FileInv DEF FileInv
  <2>8. Grows
    BY ONLY <2>5, <2>6
  <2> QED
    BY <2>7, <2>8
<1>6. CASE Restart
  <2>1. \A p \in Stoppers : snap'[p] = None
    BY <1>6 DEF Restart
  <2>2. \A p \in Stoppers : pc'[p] # "write"
    BY <1>6 DEF Restart, Started, Procs
  <2> QED
    BY <1>6, <2>2 DEF Restart, FileInv
<1> QED
  BY <1>2, <1>3, <1>4, <1>5, <1>6, HiddenOrShown DEF Shown

\* If only one goroutine calls Shutdown, whichever it is, a file that is written
\* again has lost nothing: neither handlers that are still recording nor a crash
\* between reading the sitemap and writing it take an entry away.
THEOREM FilesNeverShrink ==
  ASSUME OneStopper
  PROVE  Safety => FileNeverShrinks
<1>1. Init => StopInv /\ FileInv
  BY CrawlAssumption
  DEF Init, StopInv, FileInv, Started, Stoppers, Procs, Callers, Shutting
<1>2. TypeInv /\ StopInv /\ FileInv /\ [Next]_vars =>
        StopInv' /\ FileInv'
        /\ [\A h \in Handlers : output[h] # None => output[h] \subseteq output'[h]]_vars
  BY StepStops, StepInFile
<1>3. Safety => []TypeInv
  BY CrawlTyped DEF TypeInv
<1> QED
  BY <1>1, <1>2, <1>3, PTL DEF Safety, FileNeverShrinks
==============================================================================
