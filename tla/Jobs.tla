-------------------------------- MODULE Jobs --------------------------------
(***************************************************************************)
(* The jobs of one coordinator: NewJob and StartJob (lib/coordinator.go),  *)
(* Start, Seeds and Complete of a job (lib/job.go), and the start of its   *)
(* workers (lib/worker.go).                                                *)
(*                                                                         *)
(* A client calls NewJob, and StartJob in a goroutine of its own, because  *)
(* StartJob returns only when the job completes.  Every job gets the same  *)
(* ID: the maps of workers and handlers have one entry, which the latest   *)
(* NewJob overwrites, and Job finds the first job only.  Go leaves calls   *)
(* of NewJob and StartJob that use those maps at the same time undefined;  *)
(* the client is assumed not to make them.  A crawl is reduced to its      *)
(* seeds, all well-formed, and a worker to one fetcher; the rest is in     *)
(* module Coordinator.                                                     *)
(***************************************************************************)
EXTENDS Integers, Sequences

CONSTANTS
  Configs, Urls,
  SeedsOf,      \* the seeds of a configuration
  DoneScan,     \* the configurations with a DoneScanMilli
  Starters,     \* goroutines, each of which calls StartJob once
  Completers,   \* goroutines, each of which calls Complete once
  MaxJobs,      \* bound on the jobs
  None

ASSUME JobsAssumption ==
  /\ SeedsOf \in [Configs -> SUBSET Urls]
  /\ DoneScan \subseteq Configs
  /\ None \notin Starters
  /\ MaxJobs \in Nat \ {0}

VARIABLES
  jobs,         \* the configurations of the jobs, in the order of NewJob
  status, stop, \* fields of the jobs; a channel is named after its maker
  jobWorkers,   \* the job whose workers the map holds, 0 when it is empty
  jobHandlers,
  queues,       \* the fetcher queue of each job's worker: "nil" or "open"
  start,        \* the next step of a StartJob
  worker,       \* the job whose worker it has started, or 0
  scan,         \* its done scan
  waitsOn,      \* the channel it receives from
  complete,     \* the next step of a Complete
  sends,        \* its job and the channel it sends on
  request,      \* the request of a seed that a StartJob has read
  stopping,
  panicked      \* the process has died

fields == <<status, stop>>
maps == <<jobWorkers, jobHandlers>>
starting == <<start, worker, scan, waitsOn>>
completing == <<complete, sends>>
rest == <<request, stopping, panicked>>
vars == <<jobs, fields, maps, queues, starting, completing, rest>>

Numbers == 1 .. MaxJobs
Channels == Starters \cup {None}

TypeOK ==
  /\ jobs \in Seq(Configs) /\ Len(jobs) <= MaxJobs
  /\ status \in [Numbers -> {"new", "complete", "errored"}]
  /\ stop \in [Numbers -> Channels]
  /\ jobWorkers \in 0 .. MaxJobs /\ jobHandlers \in 0 .. MaxJobs
  /\ queues \in [Numbers -> {"nil", "open"}]
  /\ start \in [Starters -> {"idle", "workers", "fetchers", "seeds", "start", "receive",
                             "waiting", "returned", "failed"}]
  /\ worker \in [Starters -> 0 .. MaxJobs]
  /\ scan \in [Starters -> {"off", "on", "done"}]
  /\ waitsOn \in [Starters -> Channels]
  /\ complete \in [Completers -> {"idle", "sending", "sent", "done"}]
  /\ sends \in [Completers -> Numbers \X Channels]
  /\ request \in [Starters \X Urls -> {"none", "read", "queued", "fetching", "done", "failed"}]
  /\ stopping \in BOOLEAN /\ panicked \in BOOLEAN

Init ==
  /\ jobs = <<>>
  /\ status = [n \in Numbers |-> "new"] /\ stop = [n \in Numbers |-> None]
  /\ jobWorkers = 0 /\ jobHandlers = 0
  /\ queues = [n \in Numbers |-> "nil"]
  /\ start = [s \in Starters |-> "idle"] /\ worker = [s \in Starters |-> 0]
  /\ scan = [s \in Starters |-> "off"] /\ waitsOn = [s \in Starters |-> None]
  /\ complete = [c \in Completers |-> "idle"] /\ sends = [c \in Completers |-> <<1, None>>]
  /\ request = [r \in Starters \X Urls |-> "none"]
  /\ stopping = FALSE /\ panicked = FALSE

------------------------------------------------------------------------------
(***************************************************************************)
(* NewJob.                                                                 *)
(***************************************************************************)
\* A job is listed even when its workers, or its handlers, cannot be made.
Add(cfg, outcome) ==
  LET n == Len(jobs) + 1 IN
  /\ ~panicked /\ n <= MaxJobs
  /\ jobs' = Append(jobs, cfg)
  /\ status' = [status EXCEPT ![n] = outcome]
  /\ UNCHANGED <<stop, queues, starting, completing, rest>>

\* Mutant: a job whose workers cannot be made is not marked errored.
NewJobUnmarked(cfg) ==
  LET n == Len(jobs) + 1 IN
  \/ Add(cfg, "new") /\ jobWorkers' = n /\ jobHandlers' = n
  \/ Add(cfg, "new") /\ UNCHANGED maps
  \/ Add(cfg, "errored") /\ jobWorkers' = n /\ UNCHANGED jobHandlers

NewJob(cfg) ==
  LET n == Len(jobs) + 1 IN
  \/ Add(cfg, "new") /\ jobWorkers' = n /\ jobHandlers' = n
  \/ Add(cfg, "errored") /\ UNCHANGED maps
  \/ Add(cfg, "errored") /\ jobWorkers' = n /\ UNCHANGED jobHandlers

------------------------------------------------------------------------------
(***************************************************************************)
(* StartJob in goroutine s, on the first job.                              *)
(***************************************************************************)
Goes(s, from, to) ==
  /\ ~panicked /\ start[s] = from
  /\ start' = [start EXCEPT ![s] = to]
  /\ UNCHANGED <<jobs, maps, completing, stopping, panicked>>

StartJob(s) ==
  /\ Goes(s, "idle", IF jobs = <<>> THEN "failed" ELSE "workers")
  /\ UNCHANGED <<fields, queues, worker, scan, waitsOn, request>>

\* Worker.Start begins with empty queues, also when the worker is running.
MakeQueues(s) ==
  /\ \/ /\ jobWorkers = 0
        /\ Goes(s, "workers", "seeds")
        /\ UNCHANGED <<queues, worker>>
     \/ /\ jobWorkers # 0
        /\ Goes(s, "workers", "fetchers")
        /\ queues' = [queues EXCEPT ![jobWorkers] = "nil"]
        /\ worker' = [worker EXCEPT ![s] = jobWorkers]
  /\ UNCHANGED <<fields, scan, waitsOn, request>>

\* It starts the fetchers and a goroutine that dispatches requests to them.
StartFetchers(s) ==
  /\ Goes(s, "fetchers", "seeds")
  /\ queues' = [queues EXCEPT ![worker[s]] = "open"]
  /\ UNCHANGED <<fields, worker, scan, waitsOn, request>>

\* A new job stays new, and every StartJob reads its seeds again.  The seeds
\* and the done scan are left to goroutines.
ReadSeeds(s) ==
  /\ Goes(s, "seeds", "start")
  /\ request' = IF status[1] # "new" THEN request
                ELSE [r \in Starters \X Urls |->
                        IF r[1] = s /\ r[2] \in SeedsOf[jobs[1]] THEN "read" ELSE request[r]]
  /\ scan' = [scan EXCEPT ![s] = IF jobs[1] \in DoneScan THEN "on" ELSE "off"]
  /\ UNCHANGED <<fields, queues, worker, waitsOn>>

\* The seeds' file or address cannot be read.
SeedsFail(s) ==
  /\ status[1] = "new"
  /\ Goes(s, "seeds", "failed")
  /\ status' = [status EXCEPT ![1] = "errored"]
  /\ UNCHANGED <<stop, queues, worker, scan, waitsOn, request>>

\* Mutant: Start receives from the channel that was in the field before.
MakeStopLate(s) ==
  /\ Goes(s, "start", "waiting")
  /\ waitsOn' = [waitsOn EXCEPT ![s] = stop[1]]
  /\ stop' = [stop EXCEPT ![1] = s]
  /\ UNCHANGED <<status, queues, worker, scan, request>>

\* Job.Start makes a channel, whether or not another Start waits on one ...
MakeStop(s) ==
  /\ Goes(s, "start", "receive")
  /\ stop' = [stop EXCEPT ![1] = s]
  /\ UNCHANGED <<status, queues, worker, scan, waitsOn, request>>

\* ... and receives from the one that is in the field by then.
Receive(s) ==
  /\ Goes(s, "receive", "waiting")
  /\ waitsOn' = [waitsOn EXCEPT ![s] = stop[1]]
  /\ UNCHANGED <<fields, queues, worker, scan, request>>

------------------------------------------------------------------------------
(***************************************************************************)
(* Complete of job n, in goroutine c.                                      *)
(***************************************************************************)
\* Mutant: the job is marked before the send.
CompleteMarksFirst(c, n) ==
  /\ ~panicked /\ complete[c] = "idle" /\ n \in 1 .. Len(jobs)
  /\ complete' = [complete EXCEPT ![c] = "sending"]
  /\ sends' = [sends EXCEPT ![c] = <<n, stop[n]>>]
  /\ status' = [status EXCEPT ![n] = "complete"]
  /\ UNCHANGED <<jobs, stop, maps, queues, starting, rest>>

\* A job that was never started has no channel; a send on none blocks for ever.
Complete(c, n) ==
  /\ ~panicked /\ complete[c] = "idle" /\ n \in 1 .. Len(jobs)
  /\ complete' = [complete EXCEPT ![c] = "sending"]
  /\ sends' = [sends EXCEPT ![c] = <<n, stop[n]>>]
  /\ UNCHANGED <<jobs, fields, maps, queues, starting, rest>>

\* The send meets the receive of StartJob s, which returns.
Release(c, s) ==
  /\ ~panicked /\ complete[c] = "sending" /\ start[s] = "waiting"
  /\ sends[c][2] = waitsOn[s] /\ waitsOn[s] # None
  /\ complete' = [complete EXCEPT ![c] = "sent"]
  /\ start' = [start EXCEPT ![s] = "returned"]
  /\ UNCHANGED <<jobs, fields, maps, queues, worker, scan, waitsOn, sends, rest>>

MarkComplete(c) ==
  /\ ~panicked /\ complete[c] = "sent"
  /\ complete' = [complete EXCEPT ![c] = "done"]
  /\ status' = [status EXCEPT ![sends[c][1]] = "complete"]
  /\ UNCHANGED <<jobs, stop, maps, queues, starting, sends, rest>>

------------------------------------------------------------------------------
(***************************************************************************)
(* The goroutines that a StartJob leaves: the seeds', the workers'         *)
(* dispatchers and the done scan.                                          *)
(***************************************************************************)
Turns(r, from, to) ==
  /\ ~panicked /\ request[r] = from
  /\ request' = [request EXCEPT ![r] = to]
  /\ UNCHANGED <<jobs, fields, maps, queues, starting, completing, stopping, panicked>>

Enqueue(r) == Turns(r, "read", IF stopping THEN "failed" ELSE "queued")

\* The dispatcher that StartJob s has started; it outlives the StartJob.
Dispatching(s) == worker[s] # 0 /\ start[s] \notin {"idle", "workers", "fetchers"}

Dispatch(s, r) ==
  /\ Dispatching(s) /\ queues[worker[s]] = "open"
  /\ Turns(r, "queued", "fetching")

\* The dispatcher of an earlier StartJob meets a queue that a later one has not
\* made yet: a nil pointer, of which the process dies.
DispatchToNil(s, r) ==
  /\ ~panicked /\ request[r] = "queued"
  /\ Dispatching(s) /\ queues[worker[s]] = "nil"
  /\ panicked' = TRUE
  /\ UNCHANGED <<jobs, fields, maps, queues, starting, completing, request, stopping>>

Fetched(r) == Turns(r, "fetching", "done")

\* The done scan shuts the coordinator down when nothing is queued and nothing
\* is processed.  Shutdown does not touch the jobs.
Scan(s) ==
  /\ ~panicked /\ scan[s] = "on"
  /\ \A r \in Starters \X Urls : request[r] \notin {"queued", "fetching"}
  /\ stopping' = TRUE
  /\ scan' = [scan EXCEPT ![s] = "done"]
  /\ UNCHANGED <<jobs, fields, maps, queues, start, worker, waitsOn, completing, request,
                 panicked>>

------------------------------------------------------------------------------
StartStep(s) ==
  \/ MakeQueues(s) \/ StartFetchers(s) \/ ReadSeeds(s) \/ SeedsFail(s)
  \/ MakeStop(s) \/ Receive(s)

RequestStep(r) ==
  \/ Enqueue(r) \/ Fetched(r)
  \/ \E s \in Starters : Dispatch(s, r) \/ DispatchToNil(s, r)

CompleteStep(c) == MarkComplete(c) \/ \E s \in Starters : Release(c, s)

Next ==
  \/ \E cfg \in Configs : NewJob(cfg)
  \/ \E s \in Starters : StartJob(s) \/ StartStep(s) \/ Scan(s)
  \/ \E c \in Completers : CompleteStep(c) \/ \E n \in Numbers : Complete(c, n)
  \/ \E r \in Starters \X Urls : RequestStep(r)

Safety == Init /\ [][Next]_vars

\* Clients call when they like; what they have started goes on, and the done
\* scan's ticker keeps ticking.
Fairness ==
  /\ \A s \in Starters : WF_vars(StartStep(s)) /\ WF_vars(Scan(s))
  /\ \A c \in Completers : WF_vars(CompleteStep(c))
  /\ \A r \in Starters \X Urls : WF_vars(RequestStep(r))

Spec == Safety /\ Fairness

------------------------------------------------------------------------------
\* A seed is only requested when a worker's dispatcher and handlers are there
\* for it, although jobs whose workers or handlers could not be made stay
\* listed, and are found before the ones that were made later.
SeededIsServed ==
  \A r \in Starters \X Urls :
    request[r] # "none" => Dispatching(r[1]) /\ jobHandlers # 0

\* "Complete marks the job as finished": a job that is marked is the one that
\* StartJob can find, and a StartJob has been released.
CompleteMeansReleased ==
  \A n \in 1 .. Len(jobs) :
    status[n] = "complete" => n = 1 /\ \E s \in Starters : start[s] = "returned"

\* Whatever jobs follow, fail or are started again, a seed that was read is
\* fetched, or failed because the coordinator is stopping, unless the process
\* dies.
SeedsSettle ==
  \A r \in Starters \X Urls :
    request[r] = "read" ~> request[r] \in {"done", "failed"} \/ panicked

\* The job is started once more while a Start of it is under way, or after it.
Restarted ==
  \E s, t \in Starters :
    s # t /\ {start[s], start[t]} \subseteq {"receive", "waiting", "returned"}

\* A Complete that finds a channel returns, and so does the StartJob it ends,
\* unless another Complete was first or the job is started once more: the
\* channel in the field is then not the one that is waited on.
CompleteReturns ==
  \A c \in Completers :
    (/\ complete[c] = "sending" /\ sends[c][2] # None
     /\ \A d \in Completers : d # c => complete[d] = "idle")
      ~> \/ complete[c] = "done" /\ start[sends[c][2]] = "returned"
         \/ \E d \in Completers : d # c /\ complete[d] # "idle"
         \/ Restarted \/ panicked

\* "Shutdown stopts the coordinator, closing any jobs it owns": a StartJob
\* returns when the done scan has shut the coordinator down.
ShutdownClosesJobs ==
  \A s \in Starters :
    scan[s] = "done" /\ start[s] = "waiting" ~> start[s] = "returned"
==============================================================================
