-------------------------- MODULE ProcessingCounter --------------------------
(***************************************************************************)
(* coordinator.processing, "number of urls currently being processed": the *)
(* goroutines that queue and finish requests send +1 and -1 over a         *)
(* buffered channel to one goroutine that adds them up until the           *)
(* coordinator's context is cancelled.                                     *)
(***************************************************************************)
EXTENDS Integers, Sequences

CONSTANT ChangesCap    \* buffer size of processingChanges (8 in the code)

VARIABLES changes,     \* coordinator.processingChanges
          processing,  \* coordinator.processing
          counting     \* the adding goroutine is still running

counterVars == <<changes, processing, counting>>

TypeOK ==
  /\ changes \in Seq({1, -1})
  /\ Len(changes) <= ChangesCap
  /\ processing \in Int
  /\ counting \in BOOLEAN

Init ==
  /\ changes = << >>
  /\ processing = 0
  /\ counting = TRUE

\* A send blocks while the buffer is full.
Send(d) ==
  /\ Len(changes) < ChangesCap
  /\ changes' = Append(changes, d)
  /\ UNCHANGED <<processing, counting>>

Apply ==
  /\ counting
  /\ changes # << >>
  /\ processing' = processing + Head(changes)
  /\ changes' = Tail(changes)
  /\ UNCHANGED counting

\* Go's select takes either ready case, so changes may still be applied
\* after the context is cancelled; once the goroutine returns, none is.
Stop(cancelled) ==
  /\ counting
  /\ cancelled
  /\ counting' = FALSE
  /\ UNCHANGED <<changes, processing>>
==============================================================================
