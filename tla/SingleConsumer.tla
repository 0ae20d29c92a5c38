--------------------------- MODULE SingleConsumer ----------------------------
(***************************************************************************)
(* A queue used by one worker is the FIFO queue its interface promises,    *)
(* whatever is pushed and as long as the worker keeps receiving.  With two *)
(* forwarders a worker may receive a request after a younger one was       *)
(* received elsewhere.                                                     *)
(***************************************************************************)
EXTENDS MemQueue

CONSTANT consumer

ASSUME ConsumerAssumption == Consumers = {consumer}

VARIABLE got  \* the request the worker's loop received last (fr)

vars == <<queueVars, got>>

ConsumerTypeOK == TypeOK /\ got \in Requests \cup {None}

Start == Init /\ got = None

Receive ==
  /\ Deliver(consumer)
  /\ got' = hand[consumer]

Next ==
  \/ (\E r \in Requests : Push(r)) /\ UNCHANGED got
  \/ Forward(consumer) /\ UNCHANGED got
  \/ Receive

Fairness == WF_vars(Forward(consumer) /\ UNCHANGED got) /\ WF_vars(Receive)

Spec == Start /\ [][Next]_vars /\ Fairness

\* The request in the forwarder's hand is the oldest one.
InTransit == (IF hand[consumer] = None THEN << >> ELSE <<hand[consumer]>>) \o channel

Forwarded == INSTANCE FIFOQueue
               WITH items <- InTransit, taken <- got, Bound <- Capacity + 1

\* A worker takes requests in the order they were pushed and none is lost or
\* duplicated: the goroutine of Chan() is only one more place in the queue.
ForwardedInOrder == Forwarded!Safe

\* It takes every one of them.
ForwardedAll == Forwarded!Live
==============================================================================
