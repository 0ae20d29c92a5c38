----------------------------- MODULE ClaimProofs -----------------------------
(***************************************************************************)
(* QueuedOnce and GaveUpIsFinal.  Neither is inductive: a URL is in the    *)
(* pipeline twice only after two callers have decided to put it there.     *)
(* Whoever is to put u in the queue, holds it there or is about to settle  *)
(* it has a claim on u.  A claim moves from one place to the next; a new   *)
(* one is made by a link and by a seed only, and then nobody has one.      *)
(***************************************************************************)
EXTENDS PipelineProofs

Claim(p, u) ==
  \/ pc[p] \in {"check", "reject", "put", "push", "giveup"} /\ fr[p].url = u
  \/ p \in Lanes /\ pc[p] \in {"fetch", "get"} /\ flight[p].cmd = u

Claimants(u) == {p \in Callers : Claim(p, u)}

Claims(u) == Waiting({u}) + Cardinality(Claimants(u))

\* The pages a lane fetches, and the only lane that finds links to a URL.
OneFinder(pages, finder) ==
  /\ \A w \in Workers : \A i \in 0 .. Parallelism[w] - 1, u \in URLs :
       LaneFor[w][i][u] # None => u \in pages[LaneFor[w][i][u]]
  /\ \A l \in Lanes : \A u \in pages[l] :
       /\ RedirectOf[u] # None => RedirectOf[u] \in pages[l]
       /\ \A v \in DocLinks(u) \cap Candidates : finder[v] = l

\* The seed is not in the queue yet, and then nothing is.
Fallow == seeds # << >> \/ pc[Seeder] \in {"check", "reject", "put", "push"}

EmptyQueue ==
  /\ channel = << >> /\ \A w \in Workers : hand[w] = None
  /\ \A l \in Lanes : fbq[l] = << >> /\ pc[l] = "idle"

SeedInv ==
  /\ Len(seeds) <= 1 /\ pc[Seeder] # "giveup"
  /\ pc[Seeder] \in InCall => seeds = << >>
  /\ Fallow => EmptyQueue

\* What a lane fetches and finds.
FinderInv(pages, finder) ==
  \A l \in Lanes :
    /\ \A i \in DOMAIN fbq[l] : fbq[l][i] \in pages[l]
    /\ pc[l] # "idle" => flight[l].at \in pages[l]
    /\ \A u \in todo[l] : finder[u] = l
    /\ pc[l] \in {"check", "reject", "put", "giveup"} =>
         fr[l].url \in Known \/ (pc[l] # "giveup" /\ finder[fr[l].url] = l)

ClaimsInv == \A u \in URLs : Claims(u) <= 1

\* What has failed is over.
FailedInv ==
  /\ \A u \in URLs : store[u].status = "failed" => Claims(u) = 0
  /\ seeds # << >> => Known = {}

LEMMA ClaimantsAfter ==
  ASSUME NEW u, NEW p \in Callers, \A q \in Callers \ {p} : Claim(q, u)' <=> Claim(q, u)
  PROVE  /\ Cardinality(Claimants(u)) \in Nat /\ Cardinality(Claimants(u))' \in Nat
         /\ (Claim(p, u)' => Claim(p, u)) =>
              Cardinality(Claimants(u))' <= Cardinality(Claimants(u))
         /\ ~Claim(p, u) => Cardinality(Claimants(u))' <= Cardinality(Claimants(u)) + 1
         /\ Claim(p, u) /\ ~Claim(p, u)' =>
              Cardinality(Claimants(u))' = Cardinality(Claimants(u)) - 1
<1>1. /\ IsFiniteSet(Claimants(u)) /\ Cardinality(Claimants(u)) \in Nat
      /\ IsFiniteSet(Claimants(u)') /\ Cardinality(Claimants(u)') \in Nat
  <2>1. Claimants(u) \in SUBSET Callers /\ Claimants(u)' \in SUBSET Callers
    BY DEF Claimants
  <2> QED
    BY ONLY <2>1, CallersFinite
<1>2. (Claim(p, u)' => Claim(p, u)) => Claimants(u)' \subseteq Claimants(u)
  BY DEF Claimants
<1>3. ~Claim(p, u) =>
        p \notin Claimants(u) /\ (Claimants(u)' = Claimants(u) \/ Claimants(u)' = Claimants(u) \cup {p})
  BY DEF Claimants
<1>4. Claim(p, u) /\ ~Claim(p, u)' => p \in Claimants(u) /\ Claimants(u)' = Claimants(u) \ {p}
  BY DEF Claimants
<1> HIDE DEF Claimants
<1>5. Claimants(u)' \subseteq Claimants(u) => Cardinality(Claimants(u)') <= Cardinality(Claimants(u))
  BY <1>1, FS_Subset
<1>6. p \notin Claimants(u) => Cardinality(Claimants(u) \cup {p}) = Cardinality(Claimants(u)) + 1
  BY <1>1, OneMore
<1>7. p \in Claimants(u) => Cardinality(Claimants(u) \ {p}) = Cardinality(Claimants(u)) - 1
  BY <1>1, OneLess
<1>8. ~Claim(p, u) => Cardinality(Claimants(u)') <= Cardinality(Claimants(u)) + 1
  <2> SUFFICES ASSUME ~Claim(p, u)
               PROVE  Cardinality(Claimants(u)') <= Cardinality(Claimants(u)) + 1
    OBVIOUS
  <2>1. CASE Claimants(u)' = Claimants(u)
    BY ONLY <1>1, <2>1
  <2>2. CASE Claimants(u)' = Claimants(u) \cup {p}
    BY ONLY <1>1, <1>3, <1>6, <2>2, ~Claim(p, u)
  <2> QED
    BY <1>3, <2>1, <2>2
<1> QED
  BY ONLY <1>1, <1>2, <1>4, <1>5, <1>7, <1>8

LEMMA ClaimsTyped ==
  ASSUME TypeInv, FiniteInv, NEW u
  PROVE  /\ Waiting({u}) \in Nat /\ Cardinality(Claimants(u)) \in Nat
         /\ Claims(u) = Waiting({u}) + Cardinality(Claimants(u)) /\ Claims(u) \in Nat
<1>1. Claimants(u) \in SUBSET Callers
  BY DEF Claimants
<1>2. Cardinality(Claimants(u)) \in Nat
  BY ONLY <1>1, CallersFinite
<1> QED
  BY <1>2, WaitingTyped DEF Claims

\* A step that makes no claim on u and moves none.
Unclaimed(u) ==
  /\ UNCHANGED <<channel, hand, fbq>>
  /\ \A p \in Callers : Claim(p, u)' => Claim(p, u)

\* A claim is made by a link that is not known, and by a seed.
NewLink(l, u) == CheckLink(l) /\ u \in todo[l] \ Known /\ Enqueue(l, u, 0, "links")

NewSeed(u) == ReadSeed /\ seeds # << >> /\ u = Head(seeds)

\* A crawl whose responses carry the URL that was requested.
SameURLs == ~RecordRedirects /\ \A u \in URLs : Canon[u] = u

LEMMA LaneUnclaimed ==
  ASSUME SameURLs, TypeInv, ResponseInv, NEW u \in URLs, NEW l \in Lanes, LaneStep(l)
  PROVE  Unclaimed(u) \/ Take(l) \/ NewLink(l, u)
<1> USE DEF Unclaimed, Claim, Goto, Enqueue, queueVars, fetchVars, laneVars
<1>1. /\ pc \in [Procs -> Labels] /\ Callers = Lanes \cup {Seeder} /\ Callers \subseteq Procs
      /\ Lanes \subseteq Procs /\ Seeder \notin Lanes /\ l \in Callers
      /\ fr \in [Callers -> Request \cup {None}] /\ flight \in [Lanes -> Flight \cup {None}]
  BY CrawlAssumption DEF TypeInv, TypeOK, Procs, Callers
<1>2. pc[l] = "get" => rsc[l].url = flight[l].cmd
  BY DEF ResponseInv, SameURLs, TypeInv, Locals, Flight
<1>3. CASE FetchError(l) \/ Redirected(l)
  BY ONLY <1>1, <1>3, l \in Lanes DEF FetchError, Redirected, FollowRedirect, Land
<1>4. CASE RecordRedirect(l) \/ Responded(l)
  BY ONLY <1>1, <1>4, l \in Lanes DEF RecordRedirect, Responded
<1>5. CASE NotRequested(l) \/ Succeed(l) \/ CountDown(l)
  BY ONLY <1>1, <1>5, l \in Lanes DEF NotRequested, Succeed, CountDown
<1>6. CASE Settle(l)
  BY ONLY <1>1, <1>6, l \in Lanes DEF Settle, AfterWait
<1>7. CASE Retry(l) \/ OutOfAttempts(l)
  BY ONLY <1>1, <1>2, <1>7, l \in Lanes DEF Retry, OutOfAttempts
<1>8. CASE GiveUp(l)
  BY ONLY <1>1, <1>8, l \in Lanes DEF GiveUp
<1>9. CASE CheckLink(l)
  <2>1. PICK v \in todo[l] : IF v \in Known THEN UNCHANGED <<pc, ret, fr>>
                                           ELSE Enqueue(l, v, 0, "links")
    BY ONLY <1>9 DEF CheckLink
  <2>2. UNCHANGED <<channel, hand, fbq, flight>> /\ pc[l] = "links"
    BY <1>9 DEF CheckLink
  <2>3. CASE v \in Known
    BY ONLY <2>1, <2>2, <2>3
  <2>4. CASE v \notin Known /\ v # u
    BY ONLY <1>1, <2>1, <2>2, <2>4, l \in Lanes
  <2>5. CASE v \notin Known /\ v = u
    <3>1. NewLink(l, u)
      BY ONLY <1>9, <2>1, <2>5 DEF NewLink
    <3> QED
      BY <3>1
  <2> QED
    BY ONLY <2>3, <2>4, <2>5
<1>10. CASE Completed(l)
  <2>1. pc[l] = "links" /\ rsc[l].kind # "redirect"
    BY <1>10 DEF Completed, ResponseInv
  <2> QED
    BY ONLY <1>1, <1>10, <2>1, l \in Lanes DEF Completed, Land
<1> HIDE DEF Unclaimed, Claim
<1> QED
  BY ONLY LaneStep(l), <1>3, <1>4, <1>5, <1>6, <1>7, <1>8, <1>9, <1>10 DEF LaneStep

\* The steps that make a claim on u, or move one.
ClaimMoves(u) ==
  \/ \E w \in Workers : ForwardRequest(w) \/ Dispatch(w)
  \/ \E p \in Callers : PushRequest(p)
  \/ \E l \in Lanes : Take(l) \/ NewLink(l, u)
  \/ NewSeed(u) \/ Restart

LEMMA UnclaimedOrNot ==
  ASSUME SameURLs, TypeInv, ResponseInv, [Next]_vars, NEW u \in URLs
  PROVE  Unclaimed(u) \/ ClaimMoves(u)
<1> USE DEF Goto, Enqueue, EnqueueReturns, queueVars, fetchVars, laneVars
<1>1. /\ pc \in [Procs -> Labels] /\ Lanes \subseteq Callers /\ Callers \subseteq Procs
      /\ ret \in [Callers -> {"seed", "sub", "links"}] /\ Procs = Callers \cup {Scanner, Signal}
      /\ Callers \cap {Scanner, Signal} = {} /\ Seeder \in Callers \ Lanes
      /\ fr \in [Callers -> Request \cup {None}]
  BY CrawlAssumption DEF TypeInv, TypeOK, Procs, Callers, Stoppers
<1>2. ASSUME NEW p \in Callers, EnqueueStep(p) PROVE Unclaimed(u) \/ PushRequest(p)
  <2> USE DEF Unclaimed, Claim
  <2>1. CASE ReadStopping(p) \/ PutQueued(p)
    BY ONLY <1>1, <2>1, p \in Callers DEF ReadStopping, PutQueued
  <2>2. CASE Reject(p) \/ CountUp(p)
    BY ONLY <1>1, <2>2, p \in Callers DEF Reject, CountUp
  <2> HIDE DEF Unclaimed
  <2> QED
    BY ONLY <1>2, <2>1, <2>2 DEF EnqueueStep
<1>3. ASSUME ReadSeed PROVE Unclaimed(u) \/ NewSeed(u)
  <2> USE DEF Unclaimed, Claim
  <2>1. CASE seeds = << >>
    BY ONLY <1>1, <1>3, <2>1 DEF ReadSeed
  <2>2. CASE seeds # << >> /\ u # Head(seeds)
    BY ONLY <1>1, <1>3, <2>2 DEF ReadSeed
  <2> QED
    BY ONLY <1>3, <2>1, <2>2 DEF NewSeed
<1>4. CASE ScanQueue \/ ScanProcessing \/ Interrupt \/ Count
  BY ONLY <1>1, <1>4 DEF ScanQueue, ScanProcessing, Interrupt, Count, Unclaimed, Claim
<1>5. ASSUME NEW h \in Handlers, NEW v \in URLs, HandleResource(h, v) PROVE Unclaimed(u)
  BY ONLY <1>5 DEF HandleResource, Unclaimed, Claim
<1>6. ASSUME NEW p \in Stoppers, ShutdownStep(p) PROVE Unclaimed(u)
  <2>1. p \in Procs
    BY DEF Procs
  <2> QED
    BY ONLY <1>1, <1>6, <2>1 DEF ShutdownStep, SetStopping, MeasureQueue, Cancel,
       Generate, WriteFile, ShutdownReturns, Unclaimed, Claim
<1>7. ASSUME NEW p \in Stoppers, NEW l \in Lanes, Handshake(p, l) PROVE Unclaimed(u)
  <2>1. p \in Procs
    BY DEF Procs
  <2> QED
    BY ONLY <1>1, <1>7, <2>1, l \in Lanes DEF Handshake, AfterWait, Unclaimed, Claim
<1>8. CASE UNCHANGED vars
  BY ONLY <1>8 DEF vars, Unclaimed, Claim
<1>9. ASSUME NEW l \in Lanes, LaneStep(l) PROVE Unclaimed(u) \/ ClaimMoves(u)
  BY ONLY SameURLs, TypeInv, ResponseInv, u \in URLs, <1>9, LaneUnclaimed DEF ClaimMoves
<1>10. ASSUME \/ \E w \in Workers : ForwardRequest(w) \/ Dispatch(w)
              \/ \E p \in Callers : PushRequest(p)
              \/ NewSeed(u) \/ Restart
       PROVE  ClaimMoves(u)
  BY ONLY <1>10 DEF ClaimMoves
<1>11. CASE Next
  BY ONLY <1>11, <1>2, <1>3, <1>4, <1>5, <1>6, <1>7, <1>9, <1>10 DEF Next
<1> QED
  BY <1>8, <1>11

\* A request that moves takes its claim along.
LEMMA PipeClaims ==
  ASSUME TypeInv, FiniteInv, NEW u \in URLs, NEW w \in Workers, ForwardRequest(w) \/ Dispatch(w)
  PROVE  Claims(u)' <= Claims(u)
<1>1. Cardinality(Claimants(u)') = Cardinality(Claimants(u))
  BY DEF ForwardRequest, Dispatch, Claimants, Claim, laneVars
<1>2. Waiting({u})' <= Waiting({u}) /\ Waiting({u})' \in Int
  <2>1. PICK lost \in {0, 1} : Waiting({u})' = Waiting({u}) - lost
    <3>1. CASE ForwardRequest(w)
      <4>1. Waiting({u})' = Waiting({u})
        BY <3>1, ForwardWaits
      <4> QED
        BY <4>1, WaitingTyped
    <3>2. CASE Dispatch(w)
      BY <3>2, DispatchWaits DEF Is
    <3> QED
      BY <3>1, <3>2
  <2> QED
    BY <2>1, WaitingTyped
<1>3. Claims(u)' = Waiting({u})' + Cardinality(Claimants(u)')
  BY DEF Claims
<1> QED
  BY ONLY TypeInv, FiniteInv, <1>1, <1>2, <1>3, ClaimsTyped

LEMMA PushClaims ==
  ASSUME TypeInv, FiniteInv, NEW u \in URLs, NEW p \in Callers, PushRequest(p)
  PROVE  Claims(u)' <= Claims(u)
<1>1. /\ pc[p] = "push" /\ pc' = [pc EXCEPT ![p] = "add"] /\ UNCHANGED <<fr, flight>>
      /\ pc \in [Procs -> Labels] /\ Callers \subseteq Procs
  BY DEF PushRequest, Goto, laneVars, TypeInv, TypeOK, Procs
<1>2. /\ ~Claim(p, u)' /\ (Claim(p, u) <=> fr[p].url = u)
      /\ \A q \in Callers \ {p} : Claim(q, u)' <=> Claim(q, u)
  BY ONLY <1>1, p \in Callers DEF Claim
<1>3. Waiting({u})' = Waiting({u}) + Is(fr[p].url, {u})
  BY PushWaits
<1>4. Is(fr[p].url, {u}) = IF fr[p].url = u THEN 1 ELSE 0
  BY DEF Is
<1>5. /\ Cardinality(Claimants(u))' \in Nat
      /\ Cardinality(Claimants(u))' <= Cardinality(Claimants(u))
      /\ fr[p].url = u => Cardinality(Claimants(u))' = Cardinality(Claimants(u)) - 1
  BY ONLY <1>2, p \in Callers, ClaimantsAfter
<1>6. Claims(u)' = Waiting({u})' + Cardinality(Claimants(u))'
  BY DEF Claims
<1>7. /\ Waiting({u}) \in Nat /\ Cardinality(Claimants(u)) \in Nat
      /\ Claims(u) = Waiting({u}) + Cardinality(Claimants(u))
  BY ClaimsTyped
<1>8. CASE fr[p].url = u
  BY ONLY <1>3, <1>4, <1>5, <1>6, <1>7, <1>8
<1>9. CASE fr[p].url # u
  BY ONLY <1>3, <1>4, <1>5, <1>6, <1>7, <1>9
<1> QED
  BY <1>8, <1>9

LEMMA TakeClaims ==
  ASSUME TypeInv, FiniteInv, NEW u \in URLs, NEW l \in Lanes, Take(l)
  PROVE  Claims(u)' <= Claims(u)
<1> DEFINE v == Head(fbq[l])
<1>1. /\ pc[l] = "idle" /\ pc' = [pc EXCEPT ![l] = "fetch"] /\ fr' = fr
      /\ flight' = [flight EXCEPT ![l] = [cmd |-> v, at |-> v, via |-> 1]]
      /\ pc \in [Procs -> Labels] /\ Callers \subseteq Procs /\ l \in Callers
      /\ flight \in [Lanes -> Flight \cup {None}]
  BY DEF Take, Goto, laneVars, TypeInv, TypeOK, Procs, Callers
<1> HIDE DEF v
<1>2. /\ ~Claim(l, u) /\ (Claim(l, u)' <=> v = u)
      /\ \A q \in Callers \ {l} : Claim(q, u)' <=> Claim(q, u)
  BY ONLY <1>1, l \in Lanes DEF Claim
<1>3. Waiting({u})' = Waiting({u}) - Is(v, {u})
  BY TakeWaits DEF v
<1>4. Is(v, {u}) = IF v = u THEN 1 ELSE 0
  BY DEF Is
<1>5. /\ Cardinality(Claimants(u))' \in Nat
      /\ Cardinality(Claimants(u))' <= Cardinality(Claimants(u)) + 1
      /\ v # u => Cardinality(Claimants(u))' <= Cardinality(Claimants(u))
  BY ONLY <1>1, <1>2, ClaimantsAfter
<1>6. Claims(u)' = Waiting({u})' + Cardinality(Claimants(u))'
  BY DEF Claims
<1>7. /\ Waiting({u}) \in Nat /\ Cardinality(Claimants(u)) \in Nat
      /\ Claims(u) = Waiting({u}) + Cardinality(Claimants(u))
  BY ClaimsTyped
<1>8. CASE v = u
  BY ONLY <1>3, <1>4, <1>5, <1>6, <1>7, <1>8
<1>9. CASE v # u
  BY ONLY <1>3, <1>4, <1>5, <1>6, <1>7, <1>9
<1> QED
  BY <1>8, <1>9

\* A step at which nobody makes a claim on u adds none.
LEMMA CallClaims ==
  ASSUME TypeInv, FiniteInv, NEW u \in URLs, NEW p \in Callers,
         pc[p] \in {"links", "seed"}, NEW n, NEW back, Enqueue(p, u, n, back),
         UNCHANGED <<channel, hand, fbq, flight>>
  PROVE  Claims(u)' <= Claims(u) + 1
<1>1. ~Claim(p, u) /\ \A q \in Callers \ {p} : Claim(q, u)' <=> Claim(q, u)
  BY DEF Claim, Enqueue, Goto, TypeInv, TypeOK, Procs
<1>2. /\ Cardinality(Claimants(u))' \in Nat
      /\ Cardinality(Claimants(u))' <= Cardinality(Claimants(u)) + 1
  BY ONLY <1>1, p \in Callers, ClaimantsAfter
<1>3. Waiting({u})' = Waiting({u})
  BY StayWaits
<1>4. Claims(u)' = Waiting({u})' + Cardinality(Claimants(u))'
  BY DEF Claims
<1> QED
  BY ONLY TypeInv, FiniteInv, <1>2, <1>3, <1>4, ClaimsTyped

LEMMA ClaimStep ==
  ASSUME SameURLs, TypeInv, FiniteInv, ResponseInv, [Next]_vars, NEW u \in URLs
  PROVE  \/ Claims(u)' <= Claims(u)
         \/ Claims(u)' <= Claims(u) + 1 /\ (NewSeed(u) \/ \E l \in Lanes : NewLink(l, u))
<1>0. Lanes \subseteq Callers /\ Seeder \in Callers
  BY DEF Callers
<1>1. ASSUME Unclaimed(u) PROVE Claims(u)' <= Claims(u)
  <2>1. Claimants(u)' \subseteq Claimants(u) /\ Claimants(u) \in SUBSET Callers
    BY <1>1 DEF Unclaimed, Claimants
  <2>2. IsFiniteSet(Claimants(u))
    BY ONLY <2>1, CallersFinite
  <2>3. Cardinality(Claimants(u)') <= Cardinality(Claimants(u)) /\ Cardinality(Claimants(u)') \in Nat
    BY ONLY <2>1, <2>2, FS_Subset, FS_CardinalityType
  <2>4. Waiting({u})' = Waiting({u})
    BY <1>1, StayWaits DEF Unclaimed
  <2>5. Claims(u)' = Waiting({u})' + Cardinality(Claimants(u)')
    BY DEF Claims
  <2> QED
    BY ONLY TypeInv, FiniteInv, <2>3, <2>4, <2>5, ClaimsTyped
<1>2. ASSUME NEW l \in Lanes, NewLink(l, u) PROVE Claims(u)' <= Claims(u) + 1
  <2>1. /\ pc[l] = "links" /\ Enqueue(l, u, 0, "links")
        /\ UNCHANGED <<channel, hand, fbq, flight>>
    BY <1>2 DEF NewLink, CheckLink, queueVars, fetchVars
  <2> QED
    BY ONLY TypeInv, FiniteInv, u \in URLs, l \in Lanes, <1>0, <2>1, CallClaims
<1>3. ASSUME NewSeed(u) PROVE Claims(u)' <= Claims(u) + 1
  <2>1. /\ pc[Seeder] = "seed" /\ Enqueue(Seeder, u, 0, "seed")
        /\ UNCHANGED <<channel, hand, fbq, flight>>
    BY <1>3 DEF NewSeed, ReadSeed, queueVars, fetchVars, laneVars
  <2> QED
    BY ONLY TypeInv, FiniteInv, u \in URLs, <1>0, <2>1, CallClaims
<1>4. ASSUME Restart PROVE Claims(u)' <= Claims(u)
  <2>1. Fresh' /\ pc' = Started
    BY <1>4 DEF Restart, Fresh
  <2>2. Waiting({u})' = 0
    BY <2>1, FreshWaits
  <2>3. Claimants(u)' = {}
    BY <2>1, CrawlAssumption DEF Claimants, Claim, Started, Procs, Callers
  <2>4. Claims(u)' = Waiting({u})' + Cardinality(Claimants(u)')
    BY DEF Claims
  <2> QED
    BY ONLY TypeInv, FiniteInv, <2>2, <2>3, <2>4, FS_EmptySet, ClaimsTyped
<1> QED
  BY ONLY SameURLs, TypeInv, FiniteInv, ResponseInv, [Next]_vars, u \in URLs, <1>1, <1>2,
          <1>3, <1>4, UnclaimedOrNot, PipeClaims, PushClaims, TakeClaims DEF ClaimMoves

\* A URL that does not wait and that nobody claims.
LEMMA NoClaims ==
  ASSUME NEW u \in URLs, Claimants(u) = {},
         \A i \in DOMAIN channel : channel[i] # u,
         \A w \in Workers : hand[w] # u,
         \A l \in Lanes : \A i \in DOMAIN fbq[l] : fbq[l][i] # u
  PROVE  Claims(u) = 0
<1>1. At(channel, {u}) = {} /\ Handed({u}) = {}
  BY DEF At, Handed
<1>2. \A l \in Lanes : At(fbq[l], {u}) = {}
  BY DEF At
<1>3. Commands({u}) = {}
  BY <1>2 DEF Commands
<1> QED
  BY <1>1, <1>3, FS_EmptySet DEF Claims, Waiting

\* Nobody claims a seed that is read, ...
LEMMA SeedUnclaimed ==
  ASSUME TypeInv, SeedInv, NEW u \in URLs, NewSeed(u)
  PROVE  Claims(u) = 0
<1>1. EmptyQueue /\ pc[Seeder] = "seed"
  BY DEF NewSeed, ReadSeed, SeedInv, Fallow
<1>2. Claimants(u) = {}
  BY <1>1 DEF EmptyQueue, Claimants, Claim, Callers
<1>3. /\ \A i \in DOMAIN channel : channel[i] # u
      /\ \A w \in Workers : hand[w] # u
      /\ \A l \in Lanes : \A i \in DOMAIN fbq[l] : fbq[l][i] # u
  BY <1>1, CrawlAssumption DEF EmptyQueue
<1> QED
  BY ONLY u \in URLs, <1>2, <1>3, NoClaims

\* ... or a link that is found and is not known.
LEMMA LinkUnclaimed ==
  ASSUME TypeInv, RecordInv, SeedInv, NEW pages, NEW finder, FinderInv(pages, finder),
         NEW l \in Lanes, NEW u \in URLs, NewLink(l, u)
  PROVE  Claims(u) = 0
<1>1. pc[l] = "links" /\ u \in todo[l] /\ u \notin Known
  BY DEF NewLink, CheckLink
<1>2. finder[u] = l
  BY <1>1 DEF FinderInv
<1>3. ASSUME NEW p \in Callers, Claim(p, u) PROVE FALSE
  <2>1. CASE p \in Lanes /\ pc[p] \in {"fetch", "get"} /\ flight[p].cmd = u
    BY <1>1, <2>1 DEF RecordInv, RequestsRecorded
  <2>2. CASE pc[p] = "push" /\ fr[p].url = u
    BY <1>1, <2>2 DEF RecordInv
  <2>3. CASE p \in Lanes /\ pc[p] \in {"check", "reject", "put", "giveup"} /\ fr[p].url = u
    BY <1>1, <1>2, <2>3 DEF FinderInv
  <2>4. CASE p = Seeder /\ pc[p] \in {"check", "reject", "put", "giveup"}
    BY <1>1, <2>4 DEF SeedInv, Fallow, EmptyQueue
  <2> QED
    BY ONLY <1>3, <2>1, <2>2, <2>3, <2>4 DEF Claim, Callers
<1>4. Claimants(u) = {}
  BY <1>3 DEF Claimants
<1>5. /\ \A i \in DOMAIN channel : channel[i] # u
      /\ \A w \in Workers : hand[w] # u
      /\ \A m \in Lanes : \A i \in DOMAIN fbq[m] : fbq[m][i] # u
  BY <1>1, CrawlAssumption DEF RecordInv, RequestsRecorded
<1> QED
  BY ONLY u \in URLs, <1>4, <1>5, NoClaims

\* With one seed, the queue stays empty until it is pushed.
LEMMA EmptyStays ==
  ASSUME TypeInv, EmptyQueue, [Next]_vars
  PROVE  EmptyQueue' \/ PushRequest(Seeder)
<1>1. CASE Unmoved
  BY <1>1 DEF Unmoved, EmptyQueue
<1>2. ASSUME NEW w \in Workers, ForwardRequest(w) \/ Dispatch(w) PROVE FALSE
  BY <1>2 DEF EmptyQueue, ForwardRequest, Dispatch, Queue!Forward, Queue!Deliver
<1>3. ASSUME NEW p \in Callers, PushRequest(p) PROVE PushRequest(Seeder)
  BY <1>3 DEF EmptyQueue, PushRequest, Callers
<1>4. ASSUME NEW l \in Lanes, Take(l) \/ FetchError(l) \/ Redirected(l) \/ Completed(l)
      PROVE  FALSE
  BY <1>4 DEF EmptyQueue, Take, FetchError, Redirected, Completed
<1>5. ASSUME Restart PROVE EmptyQueue'
  BY <1>5 DEF Restart, EmptyQueue, Started, Procs, Callers
<1> QED
  BY ONLY TypeInv, [Next]_vars, <1>1, <1>2, <1>3, <1>4, <1>5, MovedOrNot DEF Moved

\* Who changes what is left of the seeds, and where the seeder is in a call.
LEMMA SeederOrNot ==
  ASSUME TypeInv, [Next]_vars
  PROVE  \/ /\ UNCHANGED seeds
            /\ pc'[Seeder] = pc[Seeder] \/ pc'[Seeder] \notin InCall \cup {"giveup"}
         \/ UNCHANGED seeds /\ EnqueueStep(Seeder)
         \/ ReadSeed \/ Restart
<1>1. UNCHANGED seeds \/ ReadSeed \/ Restart
  BY ONLY [Next]_vars
  DEF Next, vars, ForwardRequest, Dispatch, EnqueueStep, ReadStopping, Reject, PutQueued,
      PushRequest, CountUp, LaneStep, Take, FetchError, Redirected, RecordRedirect, Responded,
      NotRequested, Succeed, Retry, OutOfAttempts, GiveUp, CountDown, Settle, CheckLink,
      Completed, ScanQueue, ScanProcessing, Interrupt, Count, HandleResource, ShutdownStep,
      SetStopping, MeasureQueue, Handshake, Cancel, Generate, WriteFile, ShutdownReturns
<1>2. /\ pc \in [Procs -> Labels] /\ Callers \subseteq Procs /\ Lanes \subseteq Procs
      /\ Seeder \in Callers \ Lanes
  BY CrawlAssumption DEF TypeInv, TypeOK, Procs, Callers
<1>3. CASE Aside
  BY <1>1, <1>2, <1>3 DEF Aside
<1>4. ASSUME NEW p \in Callers, p # Seeder, EnqueueStep(p) PROVE pc'[Seeder] = pc[Seeder]
  BY ONLY <1>2, <1>4 DEF EnqueueStep, ReadStopping, Reject, PutQueued, PushRequest, CountUp,
       EnqueueReturns, Goto
<1>5. ASSUME NEW l \in Lanes, Retry(l) \/ OutOfAttempts(l) \/ GiveUp(l) \/ CheckLink(l)
      PROVE  pc'[Seeder] = pc[Seeder]
  BY ONLY <1>2, <1>5 DEF Retry, OutOfAttempts, GiveUp, CheckLink, Enqueue, Goto
<1> QED
  BY ONLY TypeInv, [Next]_vars, <1>1, <1>3, <1>4, <1>5, AsideOrNot

LEMMA OneLeft ==
  ASSUME NEW S, NEW s \in Seq(S), s # << >>, Len(s) <= 1
  PROVE  Tail(s) = << >>
<1>1. Tail(s) \in Seq(S) /\ Len(Tail(s)) = Len(s) - 1
  BY HeadTailProperties
<1>2. Len(s) \in Nat /\ Len(s) # 0
  BY ONLY s \in Seq(S), s # << >>, EmptySeq
<1>3. Len(Tail(s)) = 0
  BY ONLY <1>1, <1>2, Len(s) <= 1
<1> QED
  BY ONLY <1>1, <1>3, EmptySeq

LEMMA StepSeed ==
  ASSUME Len(Seeds) <= 1, TypeInv, SeedInv, [Next]_vars
  PROVE  SeedInv'
<1>1. /\ pc \in [Procs -> Labels] /\ Callers \subseteq Procs /\ Seeder \in Callers \ Lanes
      /\ ret \in [Callers -> {"seed", "sub", "links"}] /\ seeds \in Seq(URLs)
  BY CrawlAssumption DEF TypeInv, TypeOK, Procs, Callers
<1>2. /\ Len(seeds') <= 1 /\ pc'[Seeder] # "giveup"
      /\ pc'[Seeder] \in InCall => seeds' = << >>
      /\ Fallow' => Fallow \/ Restart
  <2>1. CASE /\ UNCHANGED seeds
             /\ pc'[Seeder] = pc[Seeder] \/ pc'[Seeder] \notin InCall \cup {"giveup"}
    BY <2>1 DEF SeedInv, Fallow, InCall
  <2>2. CASE UNCHANGED seeds /\ EnqueueStep(Seeder)
    <3>1. /\ pc[Seeder] \in InCall
          /\ pc'[Seeder] \in {"reject", "put", "push"} => pc[Seeder] \in {"check", "reject", "put"}
          /\ pc'[Seeder] \notin {"check", "giveup"}
      BY ONLY <1>1, <2>2 DEF EnqueueStep, ReadStopping, Reject, PutQueued, PushRequest, CountUp,
           EnqueueReturns, Goto, InCall
    <3> QED
      BY <2>2, <3>1 DEF SeedInv, Fallow
  <2>3. CASE ReadSeed /\ seeds = << >>
    BY <1>1, <2>3 DEF ReadSeed, Goto, SeedInv, Fallow, InCall
  <2>4. CASE ReadSeed /\ seeds # << >>
    <3>1. seeds' = Tail(seeds) /\ pc'[Seeder] = "check"
      BY <1>1, <2>4 DEF ReadSeed, Enqueue, Goto
    <3>2. seeds' = << >>
      BY <1>1, <2>4, <3>1, OneLeft DEF SeedInv
    <3>3. Len(seeds') = 0
      BY ONLY <3>2, EmptySeq
    <3> QED
      BY ONLY <2>4, <3>1, <3>2, <3>3 DEF Fallow
  <2>5. CASE Restart
    BY <1>1, <2>5, CrawlAssumption DEF Restart, Started, InCall
  <2> QED
    BY ONLY TypeInv, [Next]_vars, <2>1, <2>2, <2>3, <2>4, <2>5, SeederOrNot
<1>3. ASSUME Fallow' PROVE EmptyQueue'
  <2>1. CASE Fallow
    <3>1. EmptyQueue
      BY <2>1 DEF SeedInv
    <3>2. ASSUME PushRequest(Seeder) PROVE FALSE
      <4>1. pc[Seeder] = "push" /\ pc'[Seeder] = "add" /\ seeds' = seeds
        BY <1>1, <3>2 DEF PushRequest, Goto
      <4>2. seeds = << >>
        BY <4>1 DEF SeedInv, InCall
      <4> QED
        BY <1>3, <4>1, <4>2 DEF Fallow
    <3> QED
      BY ONLY TypeInv, [Next]_vars, <3>1, <3>2, EmptyStays
  <2>2. CASE Restart
    BY <2>2 DEF Restart, EmptyQueue, Started, Procs, Callers
  <2> QED
    BY <1>2, <1>3, <2>1, <2>2
<1> QED
  BY ONLY <1>2, <1>3 DEF SeedInv

\* A lane fetches what it is given, and what it is redirected to.
LEMMA StepFetches ==
  ASSUME NEW pages, NEW finder, OneFinder(pages, finder),
         TypeInv, ResponseInv, FinderInv(pages, finder), [Next]_vars, NEW l \in Lanes
  PROVE  /\ \A i \in DOMAIN fbq'[l] : fbq'[l][i] \in pages[l]
         /\ pc'[l] # "idle" => flight'[l].at \in pages[l]
<1> DEFINE Own == /\ \A i \in DOMAIN fbq'[l] : fbq'[l][i] \in pages[l]
                  /\ pc'[l] # "idle" => flight'[l].at \in pages[l]
<1>1. /\ fbq \in [Lanes -> Seq(URLs)] /\ flight \in [Lanes -> Flight \cup {None}]
      /\ pc \in [Procs -> Labels] /\ Lanes \subseteq Procs
      /\ \A i \in DOMAIN fbq[l] : fbq[l][i] \in pages[l]
      /\ pc[l] # "idle" => flight[l].at \in pages[l]
  BY DEF TypeInv, TypeOK, Procs, Callers, FinderInv
<1>2. ASSUME Unmoved PROVE Own
  BY <1>1, <1>2 DEF Unmoved
<1>3. ASSUME NEW w \in Workers, ForwardRequest(w) PROVE Own
  BY <1>1, <1>3 DEF ForwardRequest, fetchVars, laneVars
<1>4. ASSUME NEW w \in Workers, Dispatch(w) PROVE Own
  <2> DEFINE v == hand[w]
             lane == LaneFor[w][slot[w]][v]
  <2>1. /\ hand \in [Workers -> URLs \cup {None}] /\ slot \in [Workers -> Nat]
        /\ slot[w] < Parallelism[w] /\ v # None
    BY <1>4 DEF TypeInv, TypeOK, Locals, Queue!TypeOK, Dispatch, Queue!Deliver
  <2>2. v \in URLs /\ slot[w] \in 0 .. Parallelism[w] - 1
    BY <2>1, CrawlAssumption
  <2>3. lane # None => lane \in Lanes /\ v \in pages[lane]
    BY <2>2, CrawlAssumption DEF OneFinder
  <2>4. /\ UNCHANGED <<pc, flight>>
        /\ IF lane = None THEN fbq' = fbq
           ELSE fbq' = [fbq EXCEPT ![lane] = Append(@, v)]
    BY <1>4 DEF Dispatch, fetchVars, laneVars
  <2> HIDE DEF lane, v
  <2>5. CASE lane # l
    BY <1>1, <2>3, <2>4, <2>5
  <2>6. CASE lane = l
    <3>1. l # None
      BY CrawlAssumption
    <3>2. fbq'[l] = Append(fbq[l], v) /\ v \in pages[l]
      BY <1>1, <2>3, <2>4, <2>6, <3>1
    <3>3. fbq[l] \in Seq(URLs)
      BY <1>1
    <3> QED
      BY ONLY <1>1, <2>2, <2>4, <3>2, <3>3
  <2> QED
    BY <2>5, <2>6
<1>5. ASSUME NEW p \in Callers, PushRequest(p) PROVE Own
  BY <1>1, <1>5 DEF PushRequest, Goto, fetchVars, laneVars
<1>6. ASSUME NEW m \in Lanes, Take(m) PROVE Own
  <2>1. CASE m # l
    BY <1>1, <1>6, <2>1 DEF Take, Goto
  <2>2. CASE m = l
    <3>1. /\ fbq[l] # << >> /\ fbq'[l] = Tail(fbq[l]) /\ flight'[l].at = Head(fbq[l])
      BY <1>1, <1>6, <2>2 DEF Take
    <3> QED
      BY <1>1, <3>1
  <2> QED
    BY <2>1, <2>2
<1>7. ASSUME NEW m \in Lanes, FetchError(m) \/ Redirected(m) \/ Completed(m) PROVE Own
  <2>1. fbq' = fbq
    BY <1>7 DEF FetchError, Redirected, Completed, fetchVars
  <2>2. CASE m # l
    BY <1>1, <1>7, <2>1, <2>2
    DEF FetchError, Redirected, Completed, FollowRedirect, Land, Goto
  <2>3. CASE m = l
    <3>1. Completed(l) => rsc[l].kind # "redirect"
      BY DEF Completed, ResponseInv
    <3>2. \/ pc'[l] = "idle"
          \/ /\ pc[l] = "fetch" /\ RedirectOf[flight[l].at] # None
             /\ flight'[l].at = RedirectOf[flight[l].at]
      BY <1>1, <1>7, <2>3, <3>1
      DEF FetchError, Redirected, Completed, FollowRedirect, Land, Goto
    <3> QED
      BY <1>1, <2>1, <3>2 DEF OneFinder
  <2> QED
    BY <2>2, <2>3
<1>8. ASSUME Restart PROVE Own
  BY <1>8 DEF Restart, Started, Procs, Callers
<1> HIDE DEF Own
<1>9. Own
  BY ONLY TypeInv, [Next]_vars, <1>2, <1>3, <1>4, <1>5, <1>6, <1>7, <1>8, MovedOrNot DEF Moved
<1> QED
  BY <1>9 DEF Own

\* What it finds is on the pages it fetches.
LEMMA StepFinds ==
  ASSUME NEW pages, NEW finder, OneFinder(pages, finder),
         TypeInv, FinderInv(pages, finder), [Next]_vars, NEW l \in Lanes
  PROVE  \A u \in todo'[l] : finder[u] = l
<1>1. /\ todo \in [Lanes -> SUBSET URLs]
      /\ \A u \in todo[l] : finder[u] = l
      /\ pc[l] # "idle" => flight[l].at \in pages[l]
  BY DEF TypeInv, TypeOK, FinderInv
<1>2. \/ UNCHANGED todo \/ \E m \in Lanes : Responded(m) \/ CheckLink(m)
      \/ Restart
  BY ONLY [Next]_vars
  DEF Next, vars, laneVars, ForwardRequest, Dispatch, EnqueueStep, ReadStopping, Reject,
      PutQueued, PushRequest, CountUp, LaneStep, Take, FetchError, Redirected, RecordRedirect,
      NotRequested, Succeed, Retry, OutOfAttempts, GiveUp, CountDown, Settle,
      Completed, ReadSeed, ScanQueue, ScanProcessing, Interrupt, Count, HandleResource,
      ShutdownStep, SetStopping, MeasureQueue, Handshake, Cancel, Generate, WriteFile,
      ShutdownReturns
<1>3. CASE UNCHANGED todo
  BY <1>1, <1>3
<1>4. ASSUME NEW m \in Lanes, Responded(m) PROVE \A u \in todo'[l] : finder[u] = l
  <2>1. pc[m] = "fetch" /\ todo' = [todo EXCEPT ![m] = DocLinks(flight[m].at) \cap Candidates]
    BY <1>4 DEF Responded
  <2>2. CASE m = l
    <3>1. flight[l].at \in pages[l] /\ todo'[l] = DocLinks(flight[l].at) \cap Candidates
      BY <1>1, <2>1, <2>2
    <3> QED
      BY <3>1 DEF OneFinder
  <2>3. CASE m # l
    BY <1>1, <2>1, <2>3
  <2> QED
    BY <2>2, <2>3
<1>5. ASSUME NEW m \in Lanes, CheckLink(m) PROVE \A u \in todo'[l] : finder[u] = l
  BY <1>1, <1>5 DEF CheckLink
<1>6. ASSUME Restart PROVE \A u \in todo'[l] : finder[u] = l
  BY <1>6 DEF Restart
<1> QED
  BY <1>2, <1>3, <1>4, <1>5, <1>6

\* A request that a lane has in hand is on record, or is a link of its own.
LEMMA StepLinks ==
  ASSUME SameURLs, NEW pages, NEW finder, TypeInv, ResponseInv, RecordInv,
         FinderInv(pages, finder), [Next]_vars, NEW l \in Lanes,
         pc'[l] \in {"check", "reject", "put", "giveup"}
  PROVE  fr'[l].url \in Known' \/ (pc'[l] # "giveup" /\ finder[fr'[l].url] = l)
<1> DEFINE Fine == fr'[l].url \in Known' \/ (pc'[l] # "giveup" /\ finder[fr'[l].url] = l)
<1>1. /\ pc \in [Procs -> Labels] /\ Callers \subseteq Procs /\ Lanes \subseteq Callers
      /\ ret \in [Callers -> {"seed", "sub", "links"}] /\ Seeder \in Callers \ Lanes
      /\ fr \in [Callers -> Request \cup {None}]
  BY CrawlAssumption DEF TypeInv, TypeOK, Procs, Callers
<1>2. Known \subseteq Known'
  BY KnownGrows
<1>3. pc[l] \in {"check", "reject", "put", "giveup"} =>
        fr[l].url \in Known \/ (pc[l] # "giveup" /\ finder[fr[l].url] = l)
  BY DEF FinderInv
<1>4. ASSUME fr'[l] = fr[l], pc[l] \in {"check", "reject", "put", "giveup"},
             pc'[l] = "giveup" => pc[l] = "giveup"
      PROVE  Fine
  BY ONLY <1>2, <1>3, <1>4
<1>5. CASE Aside
  <2>1. fr'[l] = fr[l] /\ pc'[l] = pc[l]
    BY <1>1, <1>5 DEF Aside, InCall
  <2> HIDE DEF Fine
  <2>2. Fine
    BY <1>4, <2>1
  <2> QED
    BY <2>2 DEF Fine
<1>6. ASSUME NEW p \in Callers, EnqueueStep(p) PROVE Fine
  <2>1. CASE p # l
    <3>1. fr'[l] = fr[l] /\ pc'[l] = pc[l]
      BY ONLY <1>1, <1>6, <2>1 DEF EnqueueStep, ReadStopping, Reject, PutQueued, PushRequest,
           CountUp, EnqueueReturns, Goto
    <3> HIDE DEF Fine
    <3> QED
      BY <1>4, <3>1
  <2>2. CASE p = l
    <3>1. fr'[l] = fr[l] /\ pc[l] = "check" /\ pc'[l] # "giveup"
      BY ONLY <1>1, <1>6, <2>2, pc'[l] \in {"check", "reject", "put", "giveup"}
      DEF EnqueueStep, ReadStopping, Reject, PutQueued, PushRequest,
          CountUp, EnqueueReturns, Goto
    <3> HIDE DEF Fine
    <3> QED
      BY <1>4, <3>1
  <2> QED
    BY <2>1, <2>2
<1>7. ASSUME NEW m \in Lanes, Retry(m) \/ OutOfAttempts(m) \/ GiveUp(m) PROVE Fine
  <2>1. CASE m # l
    <3>1. fr'[l] = fr[l] /\ pc'[l] = pc[l]
      BY <1>1, <1>7, <2>1 DEF Retry, OutOfAttempts, GiveUp, Enqueue, Goto
    <3> HIDE DEF Fine
    <3> QED
      BY <1>4, <3>1
  <2>2. CASE m = l
    <3>1. CASE GiveUp(l)
      BY <1>1, <3>1 DEF GiveUp, Goto
    <3>2. CASE Retry(l) \/ OutOfAttempts(l)
      <4>1. fr'[l].url = rsc[l].url /\ rsc[l].url \in Known
        BY <1>1, <3>2 DEF Retry, OutOfAttempts, Enqueue
      <4> QED
        BY <1>2, <4>1
    <3> QED
      BY <1>7, <2>2, <3>1, <3>2
  <2> QED
    BY <2>1, <2>2
<1>8. ASSUME NEW m \in Lanes, CheckLink(m) PROVE Fine
  <2>1. PICK u \in todo[m] : IF u \in Known THEN UNCHANGED <<pc, ret, fr>>
                                           ELSE Enqueue(m, u, 0, "links")
    BY ONLY <1>8 DEF CheckLink
  <2>2. CASE u \notin Known /\ m = l
    <3>1. fr'[l].url = u /\ pc'[l] = "check" /\ finder[u] = l
      BY <1>1, <2>1, <2>2 DEF Enqueue, Goto, FinderInv
    <3> QED
      BY <3>1
  <2>3. CASE u \in Known \/ m # l
    <3>1. fr'[l] = fr[l] /\ pc'[l] = pc[l]
      BY <1>1, <2>1, <2>3 DEF Enqueue, Goto
    <3> HIDE DEF Fine
    <3> QED
      BY <1>4, <3>1
  <2> QED
    BY <2>2, <2>3
<1>9. ASSUME ReadSeed PROVE Fine
  <2>1. fr'[l] = fr[l] /\ pc'[l] = pc[l]
    BY <1>1, <1>9 DEF ReadSeed, Enqueue, Goto
  <2> HIDE DEF Fine
  <2> QED
    BY <1>4, <2>1
<1>10. ASSUME Restart PROVE Fine
  BY <1>1, <1>10 DEF Restart, Started, Procs
<1> HIDE DEF Fine
<1>11. Fine
  BY ONLY TypeInv, [Next]_vars, <1>5, <1>6, <1>7, <1>8, <1>9, <1>10, AsideOrNot DEF Fine
<1> QED
  BY <1>11 DEF Fine

LEMMA StepFinder ==
  ASSUME SameURLs, NEW pages, NEW finder, OneFinder(pages, finder),
         TypeInv, ResponseInv, RecordInv, FinderInv(pages, finder), [Next]_vars
  PROVE  FinderInv(pages, finder)'
<1>1. ASSUME NEW l \in Lanes
      PROVE  /\ \A i \in DOMAIN fbq'[l] : fbq'[l][i] \in pages[l]
             /\ pc'[l] # "idle" => flight'[l].at \in pages[l]
             /\ \A u \in todo'[l] : finder[u] = l
             /\ pc'[l] \in {"check", "reject", "put", "giveup"} =>
                  fr'[l].url \in Known' \/ (pc'[l] # "giveup" /\ finder[fr'[l].url] = l)
  BY ONLY SameURLs, OneFinder(pages, finder), TypeInv, ResponseInv, RecordInv,
          FinderInv(pages, finder), [Next]_vars, l \in Lanes, StepFetches, StepFinds, StepLinks
<1> QED
  BY ONLY <1>1 DEF FinderInv

\* Every copy has a claim.
LEMMA CopiesClaimed ==
  ASSUME TypeInv, FiniteInv, NEW u \in URLs
  PROVE  Copies(u) <= Claims(u)
<1> DEFINE Q == Queuing({u})
           F == Fetching({u})
<1>1. Q \cup F \subseteq Claimants(u) /\ Q \cap F = {}
  BY DEF Queuing, Fetching, Claimants, Claim, Callers
<1>2. Claimants(u) \in SUBSET Callers /\ Q \in SUBSET Callers /\ F \in SUBSET Lanes
  BY DEF Claimants, Queuing, Fetching
<1>3. /\ IsFiniteSet(Claimants(u)) /\ Cardinality(Claimants(u)) \in Nat
      /\ IsFiniteSet(Q) /\ Cardinality(Q) \in Nat /\ IsFiniteSet(F) /\ Cardinality(F) \in Nat
  BY ONLY <1>2, CallersFinite, LanesFinite
<1>4. Copies(u) = Waiting({u}) + Cardinality(Q) + Cardinality(F)
  BY DEF Copies
<1> HIDE DEF Q, F
<1>5. Cardinality(Q \cup F) = Cardinality(Q) + Cardinality(F) - Cardinality(Q \cap F)
  BY ONLY <1>3, FS_Union
<1>6. Cardinality(Q \cup F) <= Cardinality(Claimants(u))
  BY ONLY <1>1, <1>3, FS_Subset
<1>7. Cardinality(Q \cap F) = 0
  BY ONLY <1>1, FS_EmptySet
<1> QED
  BY ONLY TypeInv, FiniteInv, <1>3, <1>4, <1>5, <1>6, <1>7, ClaimsTyped

OnceInv(pages, finder) ==
  FiniteInv /\ ResponseInv /\ RecordInv /\ SeedInv /\ FinderInv(pages, finder) /\ ClaimsInv

\* A URL that is claimed anew was claimed by nobody.
LEMMA NewClaims ==
  ASSUME SameURLs, NEW pages, NEW finder, TypeInv, OnceInv(pages, finder), [Next]_vars,
         NEW u \in URLs
  PROVE  \/ Claims(u)' <= Claims(u)
         \/ /\ Claims(u) = 0 /\ Claims(u)' <= 1
            /\ seeds # << >> \/ u \notin Known
<1>1. FiniteInv /\ ResponseInv /\ RecordInv /\ SeedInv /\ FinderInv(pages, finder)
  BY DEF OnceInv
<1>2. CASE Claims(u)' <= Claims(u)
  BY <1>2
<1>3. CASE Claims(u)' <= Claims(u) + 1 /\ (NewSeed(u) \/ \E l \in Lanes : NewLink(l, u))
  <2>1. NewSeed(u) => Claims(u) = 0 /\ seeds # << >>
    BY <1>1, SeedUnclaimed DEF NewSeed
  <2>2. ASSUME NEW l \in Lanes, NewLink(l, u) PROVE Claims(u) = 0 /\ u \notin Known
    <3>1. Claims(u) = 0
      BY ONLY TypeInv, <1>1, u \in URLs, l \in Lanes, <2>2, LinkUnclaimed
    <3> QED
      BY <2>2, <3>1 DEF NewLink
  <2>3. Claims(u) = 0 /\ (seeds # << >> \/ u \notin Known)
    BY ONLY <1>3, <2>1, <2>2
  <2> QED
    BY ONLY <1>3, <2>3
<1> QED
  BY ONLY SameURLs, TypeInv, <1>1, [Next]_vars, u \in URLs, <1>2, <1>3, ClaimStep

LEMMA ClaimsStayTyped ==
  ASSUME NEW u
  PROVE  TypeInv' /\ FiniteInv' => Claims(u)' \in Nat
<1>1. TypeInv /\ FiniteInv => Claims(u) \in Nat
  BY ClaimsTyped
<1>2. (TypeInv /\ FiniteInv => Claims(u) \in Nat)'
  BY <1>1, PTL
<1> QED
  BY <1>2

LEMMA OnceStep ==
  ASSUME SameURLs, Len(Seeds) <= 1, NEW pages, NEW finder, OneFinder(pages, finder),
         TypeInv, OnceInv(pages, finder), [Next]_vars
  PROVE  OnceInv(pages, finder)'
<1>1. /\ FiniteInv /\ ResponseInv /\ RecordInv /\ SeedInv /\ FinderInv(pages, finder)
      /\ ClaimsInv /\ ~RecordRedirects
  BY DEF OnceInv, SameURLs
<1>2. FiniteInv' /\ ResponseInv' /\ SeedInv'
  BY <1>1, FiniteStep, StepResponds, StepSeed
<1>3. RecordInv'
  BY <1>1, PushRecorded, MovesRecorded DEF RecordInv
<1>4. FinderInv(pages, finder)'
  BY ONLY SameURLs, OneFinder(pages, finder), TypeInv, <1>1, [Next]_vars, StepFinder
<1>5. ClaimsInv'
  <2> SUFFICES ASSUME NEW u \in URLs PROVE Claims(u)' <= 1
    BY DEF ClaimsInv
  <2>1. Claims(u) \in Nat /\ Claims(u)' \in Nat /\ Claims(u) <= 1
    BY <1>1, <1>2, StepTyped, ClaimsTyped, ClaimsStayTyped DEF ClaimsInv
  <2>2. Claims(u)' <= Claims(u) \/ Claims(u)' <= 1
    BY ONLY SameURLs, TypeInv, OnceInv(pages, finder), [Next]_vars, u \in URLs, NewClaims
  <2> QED
    BY ONLY <2>1, <2>2
<1> QED
  BY <1>2, <1>3, <1>4, <1>5 DEF OnceInv

LEMMA InitOnce ==
  ASSUME Len(Seeds) <= 1, NEW pages, NEW finder, Init
  PROVE  OnceInv(pages, finder) /\ FailedInv
<1>1. FiniteInv /\ ResponseInv
  BY InitGauge
<1>2. RecordInv
  BY CrawlAssumption DEF Init, RecordInv, RequestsRecorded, Queue!Init, Started, Callers, Procs
<1>3. SeedInv /\ FinderInv(pages, finder)
  BY CrawlAssumption DEF Init, Queue!Init, Started, Callers, Procs, InCall, SeedInv,
                         EmptyQueue, FinderInv
<1>4. ASSUME NEW u \in URLs PROVE Claims(u) = 0
  <2>1. Claimants(u) = {}
    BY CrawlAssumption DEF Init, Claimants, Claim, Started, Procs, Callers
  <2>2. /\ \A i \in DOMAIN channel : channel[i] # u
        /\ \A w \in Workers : hand[w] # u
        /\ \A l \in Lanes : \A i \in DOMAIN fbq[l] : fbq[l][i] # u
    BY CrawlAssumption DEF Init, Queue!Init
  <2> QED
    BY ONLY u \in URLs, <2>1, <2>2, NoClaims
<1>5. FailedInv
  BY <1>4 DEF Init, FailedInv, Known
<1> QED
  BY <1>1, <1>2, <1>3, <1>4, <1>5 DEF OnceInv, ClaimsInv

\* If one lane only finds links to a URL, and there is one seed, then whatever
\* the lanes, the retries and a shutdown do at the same time, and however often
\* the process is run again, no URL is in the pipeline twice.
THEOREM QueuedAtMostOnce ==
  ASSUME SameURLs, Len(Seeds) <= 1, NEW pages, NEW finder, OneFinder(pages, finder)
  PROVE  Safety => []QueuedOnce
<1>1. Init => OnceInv(pages, finder)
  BY InitOnce
<1>2. TypeInv /\ OnceInv(pages, finder) /\ [Next]_vars => OnceInv(pages, finder)'
  BY OnceStep
<1>3. TypeInv /\ OnceInv(pages, finder) => QueuedOnce
  <2> SUFFICES ASSUME TypeInv, OnceInv(pages, finder), NEW u \in URLs PROVE Copies(u) <= 1
    BY DEF QueuedOnce
  <2>1. Copies(u) <= Claims(u) /\ Claims(u) <= 1 /\ Claims(u) \in Nat /\ Copies(u) \in Int
    <3>1. FiniteInv /\ ClaimsInv
      BY DEF OnceInv
    <3>2. Cardinality(Queuing({u})) \in Nat /\ Cardinality(Fetching({u})) \in Nat
      BY LanesFinite, CallersFinite DEF Queuing, Fetching
    <3>3. Copies(u) <= Claims(u) /\ Claims(u) <= 1
      BY <3>1, CopiesClaimed DEF ClaimsInv
    <3>4. Waiting({u}) \in Nat /\ Claims(u) \in Nat
      BY <3>1, ClaimsTyped
    <3> QED
      BY ONLY <3>2, <3>3, <3>4 DEF Copies
  <2> QED
    BY ONLY <2>1
<1>4. Safety => []TypeInv
  BY CrawlTyped DEF TypeInv
<1> QED
  BY <1>1, <1>2, <1>3, <1>4, PTL DEF Safety

------------------------------------------------------------------------------
\* A step that stores something of u: its caller gives its claim up, or goes on
\* to push it.
Stores(p, u) ==
  /\ fr[p].url = u
  /\ PutQueued(p) \/ Reject(p) \/ (p \in Lanes /\ GiveUp(p))

LEMMA StoreOrNot ==
  ASSUME TypeInv, [Next]_vars, NEW u \in URLs
  PROVE  store'[u] = store[u] \/ \E p \in Callers : Stores(p, u)
<1>1. store \in [URLs -> Record] /\ Lanes \subseteq Callers
  BY DEF TypeInv, TypeOK, Callers
<1>2. CASE Aside
  BY <1>2 DEF Aside
<1>3. ASSUME NEW p \in Callers, EnqueueStep(p) PROVE store'[u] = store[u] \/ Stores(p, u)
  BY ONLY <1>1, <1>3, u \in URLs DEF EnqueueStep, ReadStopping, Reject, PutQueued, PushRequest,
       CountUp, PutRequest, Stores
<1>4. ASSUME NEW l \in Lanes, Retry(l) \/ OutOfAttempts(l) \/ GiveUp(l) \/ CheckLink(l)
      PROVE  store'[u] = store[u] \/ Stores(l, u)
  BY ONLY <1>1, <1>4, u \in URLs DEF Retry, OutOfAttempts, GiveUp, CheckLink, PutRequest, Stores
<1>5. CASE ReadSeed \/ Restart
  BY <1>5 DEF ReadSeed, Restart
<1> QED
  BY ONLY TypeInv, [Next]_vars, <1>1, <1>2, <1>3, <1>4, <1>5, AsideOrNot

\* A caller that records a failure gives up its claim.
LEMMA StoreClaims ==
  ASSUME TypeInv, FiniteInv, NEW u \in URLs, NEW p \in Callers, Stores(p, u)
  PROVE  /\ Claims(u) >= 1
         /\ store'[u].status = "failed" => Claims(u)' = Claims(u) - 1
<1>1. /\ pc \in [Procs -> Labels] /\ Callers \subseteq Procs
      /\ ret \in [Callers -> {"seed", "sub", "links"}] /\ store \in [URLs -> Record]
      /\ fr \in [Callers -> Request \cup {None}]
  BY DEF TypeInv, TypeOK, Procs
<1>2. Claim(p, u)
  BY DEF Stores, PutQueued, Reject, GiveUp, Claim
<1>3. Cardinality(Claimants(u)) >= 1
  <2>1. Claimants(u) \in SUBSET Callers /\ p \in Claimants(u)
    BY <1>2 DEF Claimants
  <2>2. IsFiniteSet(Claimants(u)) /\ Cardinality(Claimants(u)) \in Nat
    BY ONLY <2>1, CallersFinite
  <2>3. Cardinality(Claimants(u)) # 0
    BY ONLY <2>1, <2>2, FS_EmptySet
  <2> QED
    BY ONLY <2>2, <2>3
<1>4. ASSUME store'[u].status = "failed" PROVE Claims(u)' = Claims(u) - 1
  <2>1. ~PutQueued(p)
    BY ONLY <1>1, <1>4, Stores(p, u), u \in URLs DEF PutQueued, PutRequest, Stores
  <2>2. /\ UNCHANGED <<channel, hand, fbq, flight>>
        /\ pc'[p] \in {"seed", "sub", "links"}
        /\ \A q \in Callers \ {p} : pc'[q] = pc[q] /\ fr'[q] = fr[q]
    BY ONLY <1>1, <2>1, Stores(p, u), p \in Callers
    DEF Stores, Reject, GiveUp, EnqueueReturns, Goto, queueVars, fetchVars, laneVars
  <2>3. ~Claim(p, u)' /\ \A q \in Callers \ {p} : Claim(q, u)' <=> Claim(q, u)
    BY ONLY <2>2 DEF Claim
  <2>4. Cardinality(Claimants(u))' = Cardinality(Claimants(u)) - 1
    BY ONLY <1>2, <2>3, p \in Callers, ClaimantsAfter
  <2>5. Waiting({u})' = Waiting({u})
    BY <2>2, StayWaits
  <2>6. Claims(u)' = Waiting({u})' + Cardinality(Claimants(u))'
    BY DEF Claims
  <2> QED
    BY ONLY TypeInv, FiniteInv, <2>4, <2>5, <2>6, ClaimsTyped
<1>5. Claims(u) >= 1
  <2>1. /\ Waiting({u}) \in Nat /\ Cardinality(Claimants(u)) \in Nat
        /\ Claims(u) = Waiting({u}) + Cardinality(Claimants(u))
    BY ClaimsTyped
  <2> QED
    BY ONLY <1>3, <2>1
<1> QED
  BY ONLY <1>4, <1>5

LEMMA FailedStep ==
  ASSUME SameURLs, Len(Seeds) <= 1, MaxBoots = 0, NEW pages, NEW finder,
         OneFinder(pages, finder), TypeInv, OnceInv(pages, finder), FailedInv, [Next]_vars
  PROVE  FailedInv'
<1>1. /\ FiniteInv /\ SeedInv /\ ClaimsInv /\ store \in [URLs -> Record] /\ seeds \in Seq(URLs)
      /\ FiniteInv' /\ TypeInv'
  BY StepTyped, FiniteStep DEF OnceInv, TypeInv, TypeOK
<1>2. ASSUME NEW u \in URLs, store'[u].status = "failed" PROVE Claims(u)' = 0
  <2>1. Claims(u) \in Nat /\ Claims(u)' \in Nat /\ Claims(u) <= 1
    BY <1>1, ClaimsTyped, ClaimsStayTyped DEF ClaimsInv
  <2>2. CASE store'[u] = store[u]
    <3>1. Claims(u) = 0 /\ u \in Known /\ seeds = << >>
      BY <1>2, <2>2 DEF FailedInv, Known
    <3>2. Claims(u)' <= Claims(u)
      BY ONLY SameURLs, TypeInv, OnceInv(pages, finder), [Next]_vars, u \in URLs, <3>1, NewClaims
    <3> QED
      BY ONLY <2>1, <3>1, <3>2
  <2>3. ASSUME NEW p \in Callers, Stores(p, u) PROVE Claims(u)' = 0
    <3>1. Claims(u) >= 1 /\ Claims(u)' = Claims(u) - 1
      BY ONLY TypeInv, <1>1, <1>2, <2>3, StoreClaims
    <3> QED
      BY ONLY <2>1, <3>1
  <2> QED
    BY ONLY TypeInv, [Next]_vars, u \in URLs, <2>2, <2>3, StoreOrNot
<1>3. ASSUME seeds' # << >> PROVE Known' = {}
  <2>1. ~Restart
    BY DEF Restart, TypeInv, TypeOK
  <2>2. ~(UNCHANGED seeds /\ EnqueueStep(Seeder))
    BY <1>1, <1>3 DEF SeedInv, InCall, EnqueueStep, ReadStopping, Reject, PutQueued, PushRequest,
                      CountUp
  <2>3. ~ReadSeed
    <3>1. seeds # << >> => Tail(seeds) = << >>
      BY <1>1, OneLeft DEF SeedInv
    <3> QED
      BY <1>3, <3>1 DEF ReadSeed
  <2>4. seeds # << >> /\ (pc'[Seeder] = pc[Seeder] \/ pc'[Seeder] \notin InCall \cup {"giveup"})
    BY ONLY TypeInv, [Next]_vars, <1>3, <2>1, <2>2, <2>3, SeederOrNot
  <2>5. Known = {} /\ EmptyQueue /\ pc[Seeder] \notin InCall \cup {"giveup"}
    BY <1>1, <2>4 DEF FailedInv, SeedInv, Fallow
  <2>6. \A p \in Callers : pc[p] \notin {"put", "reject", "giveup"}
    BY <2>5 DEF EmptyQueue, Callers, InCall
  <2>7. \A u \in URLs : store'[u] = store[u]
    BY <2>6, StoreOrNot DEF Stores, PutQueued, Reject, GiveUp
  <2> QED
    BY <2>5, <2>7 DEF Known
<1> QED
  BY ONLY <1>2, <1>3 DEF FailedInv

\* Under the same conditions nothing that has failed is stored again while the
\* process runs: whoever could do it would have a claim on the URL.  (A second
\* run of the program starts by queuing its seeds again, failed or not.)
THEOREM GivingUpIsFinal ==
  ASSUME SameURLs, Len(Seeds) <= 1, MaxBoots = 0, NEW pages, NEW finder,
         OneFinder(pages, finder)
  PROVE  Safety => GaveUpIsFinal
<1>1. Init => OnceInv(pages, finder) /\ FailedInv
  BY InitOnce
<1>2. TypeInv /\ OnceInv(pages, finder) /\ FailedInv /\ [Next]_vars =>
        OnceInv(pages, finder)' /\ FailedInv'
  BY OnceStep, FailedStep
<1>3. TypeInv /\ OnceInv(pages, finder) /\ FailedInv /\ [Next]_vars =>
        [\A u \in URLs : store[u].status = "failed" => store'[u] = store[u]]_vars
  <2> SUFFICES ASSUME TypeInv, OnceInv(pages, finder), FailedInv, [Next]_vars,
                      NEW u \in URLs, store[u].status = "failed"
               PROVE  store'[u] = store[u]
    OBVIOUS
  <2>1. FiniteInv /\ Claims(u) = 0
    BY DEF OnceInv, FailedInv
  <2>2. ASSUME NEW p \in Callers, Stores(p, u) PROVE FALSE
    <3>1. Claims(u) >= 1
      BY ONLY TypeInv, u \in URLs, <2>1, <2>2, StoreClaims
    <3> QED
      BY ONLY <2>1, <3>1
  <2> QED
    BY ONLY TypeInv, [Next]_vars, u \in URLs, <2>2, StoreOrNot
<1>4. Safety => []TypeInv
  BY CrawlTyped DEF TypeInv
<1> QED
  BY <1>1, <1>2, <1>3, <1>4, PTL DEF Safety, GaveUpIsFinal

\* A worker of one fetcher on one host fulfils the condition: its lane finds
\* every link.
LEMMA OneLaneFinds ==
  ASSUME \A l, m \in Lanes : l = m
  PROVE  OneFinder([l \in Lanes |-> URLs], [u \in URLs |-> CHOOSE l \in Lanes : TRUE])
<1> DEFINE pages == [l \in Lanes |-> URLs]
           finder == [u \in URLs |-> CHOOSE l \in Lanes : TRUE]
<1>1. ASSUME NEW w \in Workers, NEW i \in 0 .. Parallelism[w] - 1, NEW u \in URLs,
             LaneFor[w][i][u] # None
      PROVE  u \in pages[LaneFor[w][i][u]]
  <2>1. LaneFor[w][i][u] \in Lanes
    BY <1>1, CrawlAssumption
  <2> QED
    BY <2>1
<1>2. ASSUME NEW l \in Lanes, NEW u \in pages[l]
      PROVE  /\ RedirectOf[u] # None => RedirectOf[u] \in pages[l]
             /\ \A v \in DocLinks(u) \cap Candidates : finder[v] = l
  <2>1. (CHOOSE m \in Lanes : TRUE) = l
    OBVIOUS
  <2> QED
    BY <2>1, CrawlAssumption
<1> QED
  BY <1>1, <1>2 DEF OneFinder

\* So in such a crawl of one seed nothing is queued twice, and what has failed
\* stays so while the process runs.
THEOREM OneLaneQueuesOnce ==
  ASSUME SameURLs, Len(Seeds) <= 1, \A l, m \in Lanes : l = m
  PROVE  /\ Safety => []QueuedOnce
         /\ MaxBoots = 0 => (Safety => GaveUpIsFinal)
  BY OneLaneFinds, QueuedAtMostOnce, GivingUpIsFinal
==============================================================================
