-------------------------- MODULE ScopedCrawlProofs --------------------------
(***************************************************************************)
(* Proof that a crawl stays within the domains of its job.  What enters is *)
(* a seed or passed urlStringIsCandidate; what is queued again, or given   *)
(* up, was in the store before.                                            *)
(***************************************************************************)
EXTENDS ScopedCrawl, CoordinatorProofs

Seeded(u) == \E i \in DOMAIN Seeds : Seeds[i] = u
Allowed(u) == Seeded(u) \/ u \in Candidates

ScopeInv ==
  /\ \A u \in Known : Allowed(u)
  /\ \A p \in Callers : pc[p] \in InCall \cup {"giveup"} => Allowed(fr[p].url)
  /\ \A l \in Lanes : todo[l] \subseteq Candidates
  /\ \A i \in DOMAIN seeds : Seeded(seeds[i])

\* Every candidate lies in some domain: the first of its host.
LEMMA CandidatesInScope == \A u \in Candidates : InScope(u)
  BY ScopeAssumption DEF urlStringIsCandidate, InScope

------------------------------------------------------------------------------
\* The links and seeds still to come only shrink, except that a response brings
\* candidates and a restart starts over.
Fed ==
  /\ \A l \in Lanes : todo'[l] \subseteq todo[l] \cup Candidates
  /\ seeds' \in {seeds, Seeds} \/ (seeds # << >> /\ seeds' = Tail(seeds))

LEMMA StepFeeds ==
  ASSUME TypeInv, [Next]_vars
  PROVE  Fed
<1> USE DEF Fed
<1>1. todo \in [Lanes -> SUBSET URLs]
  BY DEF TypeInv, TypeOK
<1>2. ASSUME UNCHANGED <<laneVars, seeds>> PROVE Fed
  BY <1>2 DEF laneVars
<1>3. ASSUME UNCHANGED <<todo, seeds>> PROVE Fed
  BY <1>3
<1> HIDE DEF Fed
<1>4. ASSUME NEW p \in Callers, EnqueueStep(p) PROVE Fed
  BY ONLY <1>2, <1>4 DEF EnqueueStep, ReadStopping, Reject, PutQueued, PushRequest, CountUp
<1>5. ASSUME NEW l \in Lanes, LaneStep(l) PROVE Fed
  <2>1. CASE Take(l) \/ FetchError(l) \/ Redirected(l) \/ RecordRedirect(l)
    BY ONLY <1>3, <2>1 DEF Take, FetchError, Redirected, RecordRedirect
  <2>2. CASE Responded(l) \/ CheckLink(l)
    BY ONLY <1>1, <2>2 DEF Fed, Responded, CheckLink
  <2>3. CASE NotRequested(l) \/ Succeed(l) \/ Retry(l) \/ OutOfAttempts(l) \/ GiveUp(l)
    BY ONLY <1>2, <2>3 DEF NotRequested, Succeed, Retry, OutOfAttempts, GiveUp
  <2>4. CASE CountDown(l) \/ Settle(l)
    BY ONLY <1>2, <2>4 DEF CountDown, Settle
  <2>5. CASE Completed(l)
    BY ONLY <1>3, <2>5 DEF Completed
  <2> QED
    BY ONLY <1>5, <2>1, <2>2, <2>3, <2>4, <2>5 DEF LaneStep
<1>6. ASSUME NEW w \in Workers, ForwardRequest(w) \/ Dispatch(w) PROVE Fed
  BY ONLY <1>2, <1>6 DEF ForwardRequest, Dispatch
<1>7. CASE ReadSeed
  BY ONLY <1>7 DEF Fed, ReadSeed, laneVars
<1>8. CASE Restart
  BY ONLY <1>8 DEF Fed, Restart
<1>9. ASSUME ScanQueue \/ ScanProcessing \/ Interrupt \/ Count PROVE Fed
  BY ONLY <1>2, <1>9 DEF ScanQueue, ScanProcessing, Interrupt, Count
<1>10. ASSUME NEW h \in Handlers, NEW u \in URLs, HandleResource(h, u) PROVE Fed
  BY ONLY <1>2, <1>10 DEF HandleResource
<1>11. ASSUME NEW p \in Stoppers, ShutdownStep(p) PROVE Fed
  BY ONLY <1>2, <1>11 DEF ShutdownStep, SetStopping, MeasureQueue, Cancel, Generate,
       WriteFile, ShutdownReturns
<1>12. ASSUME NEW p \in Stoppers, NEW l \in Lanes, Handshake(p, l) PROVE Fed
  BY ONLY <1>2, <1>12 DEF Handshake
<1>13. CASE UNCHANGED vars
  BY ONLY <1>2, <1>13 DEF vars
<1> QED
  BY ONLY [Next]_vars, <1>4, <1>5, <1>6, <1>7, <1>8, <1>9, <1>10, <1>11, <1>12, <1>13
  DEF Next

LEMMA FedInScope ==
  ASSUME TypeInv, ScopeInv, [Next]_vars
  PROVE  /\ \A l \in Lanes : todo'[l] \subseteq Candidates
         /\ \A i \in DOMAIN seeds' : Seeded(seeds'[i])
<1>1. Fed
  BY StepFeeds
<1>2. CASE seeds' = seeds
  BY <1>1, <1>2 DEF Fed, ScopeInv
<1>3. CASE seeds' = Seeds
  BY <1>1, <1>3 DEF Fed, ScopeInv, Seeded
<1>4. CASE seeds # << >> /\ seeds' = Tail(seeds)
  <2>1. ASSUME NEW i \in DOMAIN seeds' PROVE i + 1 \in DOMAIN seeds /\ seeds'[i] = seeds[i + 1]
    BY <1>4, <2>1 DEF TypeInv, TypeOK
  <2> QED
    BY <1>1, <2>1 DEF Fed, ScopeInv
<1> QED
  BY <1>1, <1>2, <1>3, <1>4 DEF Fed

------------------------------------------------------------------------------
\* What is stored, and what enqueue and dequeue are about to store.
Asked ==
  /\ \A u \in Known : Allowed(u)
  /\ \A p \in Callers : pc[p] \in InCall \cup {"giveup"} => Allowed(fr[p].url)

LEMMA EnqueueAsked ==
  ASSUME TypeInv, Asked, NEW p \in Callers, EnqueueStep(p)
  PROVE  Asked'
<1> USE DEF TypeInv, TypeOK, Asked, Known, Goto, InCall, Callers, Procs
<1>1. CASE ReadStopping(p)
  BY <1>1 DEF ReadStopping
<1>2. CASE Reject(p)
  BY <1>2 DEF Reject, PutRequest, EnqueueReturns
<1>3. CASE PutQueued(p)
  BY <1>3 DEF PutQueued, PutRequest
<1>4. CASE PushRequest(p)
  BY <1>4 DEF PushRequest
<1>5. CASE CountUp(p)
  BY <1>5 DEF CountUp, EnqueueReturns
<1> QED
  BY <1>1, <1>2, <1>3, <1>4, <1>5 DEF EnqueueStep

\* A call of enqueue, or of GiveUp, for a URL that may be requested.
LEMMA CallAsked ==
  ASSUME TypeInv, Asked, NEW p \in Callers, NEW u \in URLs, NEW n, Allowed(u),
         fr' = [fr EXCEPT ![p] = [url |-> u, attempts |-> n]],
         NEW label, pc' = [pc EXCEPT ![p] = label], UNCHANGED store
  PROVE  Asked'
<1>1. Known' = Known
  BY DEF Known
<1>2. ASSUME NEW q \in Callers, pc'[q] \in InCall \cup {"giveup"} PROVE Allowed(fr'[q].url)
  <2>1. CASE q = p
    BY <2>1 DEF TypeInv, TypeOK
  <2>2. CASE q # p
    <3>1. pc'[q] = pc[q] /\ fr'[q] = fr[q]
      BY <2>2 DEF TypeInv, TypeOK, Procs
    <3> QED
      BY <1>2, <3>1 DEF Asked
  <2> QED
    BY <2>1, <2>2
<1> QED
  BY <1>1, <1>2 DEF Asked, Allowed, Seeded, InCall

LEMMA CallsAsked ==
  ASSUME TypeInv, Asked, ScopeInv,
         \/ \E l \in Lanes : Retry(l) \/ OutOfAttempts(l) \/ GiveUp(l) \/ CheckLink(l)
         \/ ReadSeed \/ Restart
  PROVE  Asked'
<1>1. ASSUME NEW l \in Lanes, Retry(l) \/ OutOfAttempts(l) PROVE Asked'
  <2>1. rsc[l].url \in URLs /\ Allowed(rsc[l].url) /\ l \in Callers
    BY <1>1 DEF Retry, OutOfAttempts, Asked, Known, Callers
  <2>2. /\ fr' = [fr EXCEPT ![l] = [url |-> rsc[l].url, attempts |-> Attempts(l)]]
        /\ UNCHANGED store
        /\ pc' = [pc EXCEPT ![l] = IF Retry(l) THEN "check" ELSE "giveup"]
    BY <1>1 DEF Retry, OutOfAttempts, Enqueue, Goto
  <2> QED
    BY ONLY TypeInv, Asked, <2>1, <2>2, CallAsked
<1>2. ASSUME NEW l \in Lanes, GiveUp(l) PROVE Asked'
  BY <1>2 DEF GiveUp, PutRequest, Goto, TypeInv, TypeOK, Asked, Known, Callers, Procs, InCall
<1>3. ASSUME NEW l \in Lanes, CheckLink(l) PROVE Asked'
  <2>1. PICK u \in todo[l] : IF u \in Known THEN UNCHANGED <<pc, ret, fr>>
                                           ELSE Enqueue(l, u, 0, "links")
    BY ONLY <1>3 DEF CheckLink
  <2>2. u \in URLs /\ Allowed(u) /\ l \in Callers /\ UNCHANGED store
    BY <1>3 DEF CheckLink, TypeInv, TypeOK, ScopeInv, Allowed, Callers
  <2>3. CASE UNCHANGED <<pc, fr>>
    BY <2>2, <2>3 DEF Asked, Known, InCall
  <2>4. CASE Enqueue(l, u, 0, "links")
    <3>1. /\ fr' = [fr EXCEPT ![l] = [url |-> u, attempts |-> 0]]
          /\ pc' = [pc EXCEPT ![l] = "check"]
      BY ONLY <2>4 DEF Enqueue, Goto
    <3> QED
      BY ONLY TypeInv, Asked, <2>2, <3>1, CallAsked
  <2> QED
    BY ONLY <2>1, <2>3, <2>4
<1>4. CASE ReadSeed
  <2>1. CASE seeds = << >>
    BY <1>4, <2>1 DEF ReadSeed, Goto, TypeInv, TypeOK, Asked, Known, Callers, Procs, InCall
  <2>2. CASE seeds # << >>
    <3>1. Head(seeds) \in URLs /\ Allowed(Head(seeds)) /\ Seeder \in Callers
      BY <2>2 DEF TypeInv, TypeOK, ScopeInv, Allowed, Callers
    <3>2. /\ fr' = [fr EXCEPT ![Seeder] = [url |-> Head(seeds), attempts |-> 0]]
          /\ pc' = [pc EXCEPT ![Seeder] = "check"] /\ UNCHANGED store
      BY ONLY <1>4, <2>2 DEF ReadSeed, Enqueue, Goto
    <3> QED
      BY ONLY TypeInv, Asked, <3>1, <3>2, CallAsked
  <2> QED
    BY ONLY <2>1, <2>2
<1>5. CASE Restart
  BY <1>5, CrawlAssumption DEF Restart, Started, Asked, Known, Callers, Procs, InCall
<1> QED
  BY <1>1, <1>2, <1>3, <1>4, <1>5

LEMMA StepInScope ==
  ASSUME TypeInv, ScopeInv, [Next]_vars
  PROVE  ScopeInv'
<1>1. Asked
  BY DEF ScopeInv, Asked
<1>2. ASSUME Aside PROVE Asked'
  BY <1>1, <1>2 DEF Aside, Asked, Known, InCall
<1>3. Asked'
  BY ONLY TypeInv, ScopeInv, [Next]_vars, <1>1, <1>2, AsideOrNot, EnqueueAsked, CallsAsked
<1> QED
  BY <1>3, FedInScope DEF ScopeInv, Asked

\* For every site, set of domains and interleaving: all that is ever requested
\* is a seed or within the domains, whatever redirects, retries, shutdowns and
\* restarts do.
THEOREM CrawlStaysInScope == Safety => []LinksStayInScope
<1>1. Init => ScopeInv
  BY CrawlAssumption DEF Init, ScopeInv, Known, Started, Callers, Procs, InCall, Seeded
<1>2. TypeInv /\ ScopeInv /\ [Next]_vars => ScopeInv'
  BY StepInScope
<1>3. ScopeInv => LinksStayInScope
  BY CandidatesInScope DEF ScopeInv, LinksStayInScope, Allowed, Seeded
<1>4. Safety => []TypeInv
  BY CrawlTyped DEF TypeInv
<1> QED
  BY <1>1, <1>2, <1>3, <1>4, PTL DEF Safety
==============================================================================
