----------------------------- MODULE JobsProofs -----------------------------
(***************************************************************************)
(* What holds of the jobs whatever the number of jobs and of goroutines    *)
(* that start and complete them.  Both properties rest on what a StartJob  *)
(* has found: a job that is still new had its workers and handlers when it *)
(* was made, and no later NewJob takes them away.                          *)
(***************************************************************************)
EXTENDS Jobs, SequenceTheorems, TLAPS

Begun(s) == start[s] # "idle" /\ start[s] # "failed"

\* The maps hold something as soon as a job is new; only the first is started.
NewInv ==
  \A n \in 1 .. Len(jobs) : status[n] = "new" => jobWorkers # 0 /\ jobHandlers # 0
BegunInv == \A s \in Starters : Begun(s) => jobs # <<>>
\* The worker that a StartJob has met, and the requests that it has made.
WorkerInv ==
  \A s \in Starters :
    /\ start[s] = "fetchers" => worker[s] # 0
    /\ start[s] = "seeds" /\ status[1] = "new" => worker[s] # 0
\* Only the first job has a channel, and who has sent has released a StartJob.
StopInv ==
  /\ \A n \in Numbers : stop[n] # None => n = 1
  /\ \A c \in Completers : sends[c][2] # None => sends[c][1] = 1
SentInv ==
  (\E c \in Completers : complete[c] = "sent") \/ (\E n \in Numbers : status[n] = "complete")
    => \E s \in Starters : start[s] = "returned"
MarkInv ==
  /\ \A c \in Completers : complete[c] = "sent" => sends[c][1] = 1
  /\ \A n \in Numbers : status[n] = "complete" => n = 1

JobsInv ==
  /\ TypeOK /\ NewInv /\ BegunInv /\ WorkerInv
  /\ SeededIsServed /\ StopInv /\ SentInv /\ MarkInv

LEMMA InitJobs == Init => JobsInv
<1> SUFFICES ASSUME Init PROVE JobsInv
  OBVIOUS
<1> USE JobsAssumption DEF Init
<1>1. TypeOK
  <2>1. jobs \in Seq(Configs) /\ Len(jobs) = 0 /\ 1 \in Numbers
    BY DEF Numbers
  <2>2. request \in [Starters \X Urls -> {"none"}]
    BY ONLY Init DEF Init
  <2>3. request \in [Starters \X Urls ->
                      {"none", "read", "queued", "fetching", "done", "failed"}]
    BY <2>2
  <2>4. sends \in [Completers -> Numbers \X Channels]
    BY <2>1 DEF Channels
  <2>5. 0 \in 0 .. MaxJobs /\ Len(jobs) <= MaxJobs
    BY <2>1
  <2>6. worker \in [Starters -> 0 .. MaxJobs] /\ jobWorkers \in 0 .. MaxJobs
        /\ jobHandlers \in 0 .. MaxJobs
    BY <2>5
  <2> QED
    BY <2>1, <2>3, <2>4, <2>5, <2>6 DEF TypeOK, Channels
<1>2. NewInv /\ BegunInv /\ WorkerInv
  BY DEF NewInv, BegunInv, WorkerInv, Begun
<1>3. SeededIsServed /\ StopInv /\ SentInv /\ MarkInv
  BY DEF SeededIsServed, StopInv, SentInv, MarkInv
<1> QED
  BY <1>1, <1>2, <1>3 DEF JobsInv

LEMMA FirstJob ==
  ASSUME JobsInv, jobs # <<>>
  PROVE  1 \in 1 .. Len(jobs)
<1>1. jobs \in Seq(Configs)
  BY DEF JobsInv, TypeOK
<1> QED
  BY <1>1, EmptySeq

\* A new job goes to the end of the list.
LEMMA NewJobInv ==
  ASSUME JobsInv, NEW cfg \in Configs, NewJob(cfg)
  PROVE  JobsInv'
<1> USE JobsAssumption DEF fields, maps, starting, completing, rest
<1> DEFINE n == Len(jobs) + 1
<1>1. /\ n \in Numbers /\ n <= MaxJobs /\ jobs' = Append(jobs, cfg)
      /\ \/ status' = [status EXCEPT ![n] = "new"] /\ jobWorkers' = n /\ jobHandlers' = n
         \/ /\ status' = [status EXCEPT ![n] = "errored"]
            /\ jobWorkers' \in {jobWorkers, n} /\ jobHandlers' = jobHandlers
      /\ UNCHANGED <<stop, queues, starting, completing, rest>>
  BY DEF NewJob, Add, JobsInv, TypeOK, Numbers
<1>2. /\ jobs' \in Seq(Configs) /\ Len(jobs') = n /\ jobs' # <<>>
      /\ jobs # <<>> => n # 1
  <2>1. jobs \in Seq(Configs)
    BY DEF JobsInv, TypeOK
  <2>2. Append(jobs, cfg) \in Seq(Configs) /\ Append(jobs, cfg) # <<>>
        /\ Len(Append(jobs, cfg)) = n
    BY <2>1, AppendProperties
  <2>3. jobs # <<>> => n # 1
    BY <2>1, EmptySeq
  <2> QED
    BY <1>1, <2>2, <2>3
<1>3. TypeOK'
  <2>1. status' \in [Numbers -> {"new", "complete", "errored"}]
        /\ jobWorkers' \in 0 .. MaxJobs /\ jobHandlers' \in 0 .. MaxJobs
    <3>1. n \in 0 .. MaxJobs
      BY <1>1 DEF Numbers
    <3>2. status' \in [Numbers -> {"new", "complete", "errored"}]
      BY <1>1 DEF JobsInv, TypeOK
    <3>3. jobWorkers \in 0 .. MaxJobs /\ jobHandlers \in 0 .. MaxJobs
      BY DEF JobsInv, TypeOK
    <3> HIDE DEF n
    <3> QED
      BY <1>1, <3>1, <3>2, <3>3
  <2>2. UNCHANGED <<stop, queues, start, worker, scan, waitsOn, complete, sends, request,
                    stopping, panicked>>
    BY <1>1
  <2> QED
    BY <1>1, <1>2, <2>1, <2>2 DEF JobsInv, TypeOK
<1>4. NewInv'
  BY <1>1, <1>2 DEF JobsInv, TypeOK, NewInv, Numbers
<1>5. BegunInv' /\ SeededIsServed'
  BY <1>1, <1>2 DEF JobsInv, TypeOK, BegunInv, Begun, SeededIsServed, Dispatching, Numbers
<1>6. WorkerInv'
  <2>1. jobs # <<>> => status'[1] = status[1]
    BY <1>1, <1>2 DEF JobsInv, TypeOK, Numbers
  <2> QED
    BY <1>1, <2>1 DEF JobsInv, WorkerInv, BegunInv, Begun
<1>7. StopInv' /\ MarkInv' /\ SentInv'
  BY <1>1 DEF JobsInv, TypeOK, StopInv, MarkInv, SentInv, Numbers
<1> QED
  BY <1>3, <1>4, <1>5, <1>6, <1>7 DEF JobsInv

\* The steps of a StartJob, none of which releases it.
LEMMA StartInv ==
  ASSUME JobsInv, NEW s \in Starters, StartJob(s) \/ StartStep(s)
  PROVE  JobsInv'
<1> USE JobsAssumption DEF Goes, StartStep, fields, maps, starting, completing
<1>1. 1 \in Numbers
  BY DEF Numbers
<1>2. CASE StartJob(s)
  <2>1. TypeOK'
    BY <1>2 DEF StartJob, JobsInv, TypeOK
  <2>2. NewInv' /\ BegunInv' /\ WorkerInv'
    BY <1>2 DEF StartJob, JobsInv, TypeOK, NewInv, BegunInv, WorkerInv, Begun
  <2>3. SeededIsServed' /\ StopInv' /\ SentInv' /\ MarkInv'
    BY <1>2 DEF StartJob, JobsInv, TypeOK, SeededIsServed, Dispatching, StopInv, SentInv, MarkInv
  <2> QED
    BY <2>1, <2>2, <2>3 DEF JobsInv
<1>3. CASE MakeQueues(s)
  <2>1. TypeOK'
    <3>1. jobWorkers # 0 => jobWorkers \in Numbers
      BY DEF JobsInv, TypeOK, Numbers
    <3>2. queues' \in [Numbers -> {"nil", "open"}] /\ worker' \in [Starters -> 0 .. MaxJobs]
          /\ start' \in [Starters -> {"idle", "workers", "fetchers", "seeds", "start",
                                       "receive", "waiting", "returned", "failed"}]
      <4>1. jobWorkers \in 0 .. MaxJobs
        BY DEF JobsInv, TypeOK
      <4>2. queues' \in [Numbers -> {"nil", "open"}]
        BY <1>3, <3>1 DEF MakeQueues, JobsInv, TypeOK
      <4>3. worker' \in [Starters -> 0 .. MaxJobs]
        BY <1>3, <4>1 DEF MakeQueues, JobsInv, TypeOK
      <4>4. start' \in [Starters -> {"idle", "workers", "fetchers", "seeds", "start",
                                     "receive", "waiting", "returned", "failed"}]
        BY <1>3 DEF MakeQueues, JobsInv, TypeOK
      <4> QED
        BY <4>2, <4>3, <4>4
    <3> QED
      BY <1>3, <3>2 DEF MakeQueues, JobsInv, TypeOK
  <2>2. NewInv' /\ BegunInv'
    BY <1>3 DEF MakeQueues, JobsInv, TypeOK, NewInv, BegunInv, Begun
  <2>3. WorkerInv'
    <3>1. jobs # <<>> /\ (status[1] = "new" => jobWorkers # 0)
      <4>1. jobs # <<>>
        BY <1>3 DEF MakeQueues, JobsInv, BegunInv, Begun
      <4> QED
        BY <4>1, FirstJob DEF JobsInv, NewInv
    <3> QED
      BY <1>3, <3>1 DEF MakeQueues, JobsInv, TypeOK, WorkerInv
  <2>4. SeededIsServed' /\ StopInv' /\ SentInv' /\ MarkInv'
    BY <1>3 DEF MakeQueues, JobsInv, TypeOK, SeededIsServed, Dispatching, StopInv, SentInv, MarkInv
  <2> QED
    BY <2>1, <2>2, <2>3, <2>4 DEF JobsInv
<1>4. CASE StartFetchers(s)
  <2>1. TypeOK'
    BY <1>4 DEF StartFetchers, JobsInv, TypeOK
  <2>2. NewInv' /\ BegunInv' /\ WorkerInv'
    BY <1>4 DEF StartFetchers, JobsInv, TypeOK, NewInv, BegunInv, WorkerInv, Begun
  <2>3. SeededIsServed' /\ StopInv' /\ SentInv' /\ MarkInv'
    BY <1>4 DEF StartFetchers, JobsInv, TypeOK, SeededIsServed, Dispatching, StopInv, SentInv, MarkInv
  <2> QED
    BY <2>1, <2>2, <2>3 DEF JobsInv
<1>5. CASE ReadSeeds(s)
  <2>1. TypeOK'
    BY <1>5 DEF ReadSeeds, JobsInv, TypeOK
  <2>2. NewInv' /\ BegunInv' /\ WorkerInv'
    BY <1>5 DEF ReadSeeds, JobsInv, TypeOK, NewInv, BegunInv, WorkerInv, Begun
  <2>3. SeededIsServed'
    <3>1. jobs # <<>>
      BY <1>5 DEF ReadSeeds, JobsInv, BegunInv, Begun
    <3>2. status[1] = "new" => worker[s] # 0 /\ jobHandlers # 0
      BY <1>5, <3>1 DEF ReadSeeds, JobsInv, TypeOK, WorkerInv, NewInv
    <3>3. \A r \in Starters \X Urls :
            request'[r] # "none" => \/ request[r] # "none"
                                    \/ r[1] = s /\ status[1] = "new"
      BY <1>5 DEF ReadSeeds, JobsInv, TypeOK
    <3> QED
      BY <1>5, <3>2, <3>3 DEF ReadSeeds, JobsInv, TypeOK, SeededIsServed, Dispatching
  <2>4. StopInv' /\ SentInv' /\ MarkInv'
    BY <1>5 DEF ReadSeeds, JobsInv, TypeOK, StopInv, SentInv, MarkInv
  <2> QED
    BY <2>1, <2>2, <2>3, <2>4 DEF JobsInv
<1>6. CASE SeedsFail(s)
  <2>1. TypeOK'
    BY <1>6, <1>1 DEF SeedsFail, JobsInv, TypeOK
  <2>2. NewInv' /\ BegunInv' /\ WorkerInv'
    BY <1>6, <1>1 DEF SeedsFail, JobsInv, TypeOK, NewInv, BegunInv, WorkerInv, Begun, Numbers
  <2>3. SeededIsServed' /\ StopInv' /\ SentInv' /\ MarkInv'
    BY <1>6, <1>1 DEF SeedsFail, JobsInv, TypeOK, SeededIsServed, Dispatching, StopInv, SentInv, MarkInv
  <2> QED
    BY <2>1, <2>2, <2>3 DEF JobsInv
<1>7. CASE MakeStop(s)
  <2>1. TypeOK'
    BY <1>7, <1>1 DEF MakeStop, JobsInv, TypeOK, Channels
  <2>2. NewInv' /\ BegunInv' /\ WorkerInv'
    BY <1>7 DEF MakeStop, JobsInv, TypeOK, NewInv, BegunInv, WorkerInv, Begun
  <2>3. SeededIsServed' /\ StopInv' /\ SentInv' /\ MarkInv'
    BY <1>7, <1>1 DEF MakeStop, JobsInv, TypeOK, SeededIsServed, Dispatching, StopInv, SentInv, MarkInv
  <2> QED
    BY <2>1, <2>2, <2>3 DEF JobsInv
<1>8. CASE Receive(s)
  <2>1. TypeOK'
    BY <1>8, <1>1 DEF Receive, JobsInv, TypeOK
  <2>2. NewInv' /\ BegunInv' /\ WorkerInv'
    BY <1>8 DEF Receive, JobsInv, TypeOK, NewInv, BegunInv, WorkerInv, Begun
  <2>3. SeededIsServed' /\ StopInv' /\ SentInv' /\ MarkInv'
    BY <1>8 DEF Receive, JobsInv, TypeOK, SeededIsServed, Dispatching, StopInv, SentInv, MarkInv
  <2> QED
    BY <2>1, <2>2, <2>3 DEF JobsInv
<1> QED
  BY <1>2, <1>3, <1>4, <1>5, <1>6, <1>7, <1>8

\* A Complete that has found a channel is of the first job.
LEMMA CompleteInv ==
  ASSUME JobsInv, NEW c \in Completers,
         CompleteStep(c) \/ \E n \in Numbers : Complete(c, n)
  PROVE  JobsInv'
<1> USE JobsAssumption DEF CompleteStep, fields, maps, starting, completing, rest
<1>1. CASE \E n \in Numbers : Complete(c, n)
  <2>1. TypeOK'
    BY <1>1 DEF Complete, JobsInv, TypeOK
  <2>2. NewInv' /\ BegunInv' /\ WorkerInv' /\ SeededIsServed'
    BY <1>1 DEF Complete, JobsInv, NewInv, BegunInv, WorkerInv, Begun, SeededIsServed, Dispatching
  <2>3. StopInv' /\ SentInv' /\ MarkInv'
    BY <1>1 DEF Complete, JobsInv, TypeOK, StopInv, SentInv, MarkInv
  <2> QED
    BY <2>1, <2>2, <2>3 DEF JobsInv
<1>2. ASSUME NEW s \in Starters, Release(c, s)
      PROVE  JobsInv'
  <2>1. TypeOK'
    BY <1>2 DEF Release, JobsInv, TypeOK
  <2>2. NewInv' /\ BegunInv' /\ WorkerInv' /\ SeededIsServed'
    BY <1>2 DEF Release, JobsInv, TypeOK, NewInv, BegunInv, WorkerInv, Begun, SeededIsServed,
                Dispatching
  <2>3. start'[s] = "returned"
    BY <1>2 DEF Release, JobsInv, TypeOK
  <2>4. StopInv' /\ SentInv' /\ MarkInv'
    BY <1>2, <2>3 DEF Release, JobsInv, TypeOK, StopInv, SentInv, MarkInv
  <2> QED
    BY <2>1, <2>2, <2>4 DEF JobsInv
<1>3. CASE MarkComplete(c)
  <2>1. sends[c][1] = 1 /\ 1 \in Numbers
    BY <1>3 DEF MarkComplete, JobsInv, MarkInv, Numbers
  <2>2. TypeOK'
    BY <1>3, <2>1 DEF MarkComplete, JobsInv, TypeOK
  <2>3. NewInv' /\ BegunInv' /\ WorkerInv' /\ SeededIsServed'
    BY <1>3, <2>1 DEF MarkComplete, JobsInv, TypeOK, NewInv, BegunInv, WorkerInv, Begun,
                      SeededIsServed, Dispatching, Numbers
  <2>4. StopInv' /\ SentInv' /\ MarkInv'
    BY <1>3, <2>1 DEF MarkComplete, JobsInv, TypeOK, StopInv, SentInv, MarkInv
  <2> QED
    BY <2>2, <2>3, <2>4 DEF JobsInv
<1> QED
  BY <1>1, <1>2, <1>3

\* What goes on in the background leaves jobs and StartJobs alone, and requests
\* nothing that was not requested before.
LEMMA BackgroundInv ==
  ASSUME JobsInv,
         UNCHANGED <<jobs, fields, maps, queues, start, worker, waitsOn, completing>>,
         scan' \in [Starters -> {"off", "on", "done"}],
         stopping' \in BOOLEAN, panicked' \in BOOLEAN,
         request' \in [Starters \X Urls ->
                         {"none", "read", "queued", "fetching", "done", "failed"}],
         \A r \in Starters \X Urls : request'[r] # "none" => request[r] # "none"
  PROVE  JobsInv'
<1> USE DEF fields, maps, completing
<1>1. TypeOK'
  BY DEF JobsInv, TypeOK
<1>2. NewInv' /\ BegunInv' /\ WorkerInv' /\ StopInv' /\ SentInv' /\ MarkInv'
  BY DEF JobsInv, NewInv, BegunInv, Begun, WorkerInv, StopInv, SentInv, MarkInv
<1>3. SeededIsServed'
  BY DEF JobsInv, SeededIsServed, Dispatching
<1> QED
  BY <1>1, <1>2, <1>3 DEF JobsInv

LEMMA ScanInv == ASSUME JobsInv, NEW s \in Starters, Scan(s) PROVE JobsInv'
<1>1. stopping' \in BOOLEAN /\ panicked' \in BOOLEAN
  <2>1. panicked \in BOOLEAN
    BY DEF JobsInv, TypeOK
  <2> QED
    BY <2>1 DEF Scan
<1>2. UNCHANGED <<jobs, fields, maps, queues, start, worker, waitsOn, completing, request>>
  BY DEF Scan
<1>3. scan' \in [Starters -> {"off", "on", "done"}]
  BY DEF Scan, JobsInv, TypeOK
<1>4. request' \in [Starters \X Urls ->
                      {"none", "read", "queued", "fetching", "done", "failed"}]
  BY <1>2 DEF JobsInv, TypeOK
<1> QED
  BY <1>1, <1>2, <1>3, <1>4, BackgroundInv

LEMMA TurnsInv ==
  ASSUME JobsInv, NEW r \in Starters \X Urls,
         NEW from, NEW to \in {"queued", "fetching", "done", "failed"},
         from # "none", Turns(r, from, to)
  PROVE  JobsInv'
<1>1. UNCHANGED <<jobs, fields, maps, queues, starting, completing, stopping, panicked>>
  BY DEF Turns
<1>2. scan' = scan /\ start' = start /\ worker' = worker /\ waitsOn' = waitsOn
  BY <1>1 DEF starting
<1>3. stopping' \in BOOLEAN /\ panicked' \in BOOLEAN
      /\ scan' \in [Starters -> {"off", "on", "done"}]
  BY <1>1, <1>2 DEF JobsInv, TypeOK
<1>4. /\ request' \in [Starters \X Urls ->
                         {"none", "read", "queued", "fetching", "done", "failed"}]
      /\ \A q \in Starters \X Urls : request'[q] # "none" => request[q] # "none"
  BY DEF Turns, JobsInv, TypeOK
<1> QED
  BY <1>1, <1>2, <1>3, <1>4, BackgroundInv

LEMMA RequestInv ==
  ASSUME JobsInv, NEW r \in Starters \X Urls, RequestStep(r)
  PROVE  JobsInv'
<1>1. CASE Enqueue(r)
  BY <1>1, TurnsInv DEF Enqueue
<1>2. CASE Fetched(r)
  BY <1>2, TurnsInv DEF Fetched
<1>3. CASE \E s \in Starters : Dispatch(s, r)
  BY <1>3, TurnsInv DEF Dispatch
<1>4. CASE \E s \in Starters : DispatchToNil(s, r)
  <2>1. UNCHANGED <<jobs, fields, maps, queues, starting, completing, request, stopping>>
        /\ panicked' = TRUE
    BY <1>4 DEF DispatchToNil
  <2>2. stopping' \in BOOLEAN /\ panicked' \in BOOLEAN
        /\ scan' \in [Starters -> {"off", "on", "done"}]
    BY <2>1 DEF JobsInv, TypeOK, starting
  <2>3. request' \in [Starters \X Urls ->
                        {"none", "read", "queued", "fetching", "done", "failed"}]
    BY <2>1 DEF JobsInv, TypeOK
  <2>4. UNCHANGED <<jobs, fields, maps, queues, start, worker, waitsOn, completing>>
    BY <2>1 DEF starting
  <2> QED
    BY <2>1, <2>2, <2>3, <2>4, BackgroundInv
<1> QED
  BY <1>1, <1>2, <1>3, <1>4 DEF RequestStep

LEMMA StutterInv == JobsInv /\ UNCHANGED vars => JobsInv'
<1> SUFFICES ASSUME JobsInv, UNCHANGED vars PROVE JobsInv'
  OBVIOUS
<1>1. UNCHANGED <<jobs, fields, maps, queues, start, worker, waitsOn, completing>>
      /\ UNCHANGED <<scan, request, stopping, panicked>>
  BY DEF vars, starting, rest
<1>2. stopping' \in BOOLEAN /\ panicked' \in BOOLEAN
      /\ scan' \in [Starters -> {"off", "on", "done"}]
  BY <1>1 DEF JobsInv, TypeOK
<1>3. request' \in [Starters \X Urls ->
                      {"none", "read", "queued", "fetching", "done", "failed"}]
  BY <1>1 DEF JobsInv, TypeOK
<1> QED
  BY <1>1, <1>2, <1>3, BackgroundInv

LEMMA NextJobs == JobsInv /\ [Next]_vars => JobsInv'
  BY NewJobInv, StartInv, CompleteInv, ScanInv, RequestInv, StutterInv DEF Next

LEMMA InvComplete == JobsInv => CompleteMeansReleased
  BY JobsAssumption DEF JobsInv, TypeOK, MarkInv, SentInv, CompleteMeansReleased, Numbers

\* Every seed that is requested has a dispatcher to take it and handlers to go
\* to, whatever jobs have failed to be made.
THEOREM SeedsAreServed == Safety => []SeededIsServed
<1>1. JobsInv => SeededIsServed
  BY DEF JobsInv
<1> QED
  BY <1>1, InitJobs, NextJobs, PTL DEF Safety

\* Only the first job can be marked complete, after a StartJob has returned.
THEOREM CompletesAfterRelease == Safety => []CompleteMeansReleased
  BY InitJobs, NextJobs, InvComplete, PTL DEF Safety
==============================================================================
