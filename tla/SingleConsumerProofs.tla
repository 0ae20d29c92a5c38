------------------------ MODULE SingleConsumerProofs -------------------------
(***************************************************************************)
(* The queue of one worker implements the safety of a FIFO queue, for every *)
(* set of requests and every capacity.                                     *)
(***************************************************************************)
EXTENDS SingleConsumer, SequenceTheorems, TLAPS

\* Requests are not the empty hand, and there is one hand.
USE QueueAssumption, ConsumerAssumption

\* The queue's state stays in its domain: no push overfills the channel, and
\* what the worker receives is a request.
THEOREM QueueTyped == Spec => []ConsumerTypeOK
<1>1. Start => ConsumerTypeOK
  BY DEF Start, Init, TypeOK, ConsumerTypeOK
<1>2. ConsumerTypeOK /\ [Next]_vars => ConsumerTypeOK'
  <2> SUFFICES ASSUME ConsumerTypeOK, [Next]_vars PROVE ConsumerTypeOK'
    OBVIOUS
  <2> USE DEF ConsumerTypeOK, TypeOK
  <2>1. ASSUME NEW r \in Requests, Push(r), UNCHANGED got PROVE ConsumerTypeOK'
    BY <2>1, AppendProperties DEF Push, QueueLen
  <2>2. CASE Forward(consumer) /\ UNCHANGED got
    BY <2>2, HeadTailProperties DEF Forward
  <2>3. CASE Receive
    BY <2>3 DEF Receive, Deliver
  <2>4. CASE UNCHANGED vars
    BY <2>4 DEF vars, queueVars
  <2> QED
    BY <2>1, <2>2, <2>3, <2>4 DEF Next
<1> QED
  BY <1>1, <1>2, PTL DEF Spec

\* A step of the queue is a step of the FIFO queue, or invisible to it: a push
\* appends, a delivery pops, and moving the oldest request to the forwarder's
\* hand changes nothing.
LEMMA StepSimulation ==
  ASSUME ConsumerTypeOK, Next
  PROVE  Forwarded!Next \/ UNCHANGED <<InTransit, got>>
<1>1. hand[consumer] \in Requests \cup {None} /\ channel \in Seq(Requests)
  BY DEF ConsumerTypeOK, TypeOK
<1>2. ASSUME NEW r \in Requests, Push(r), UNCHANGED got PROVE Forwarded!Push(r)
  <2>1. InTransit' = Append(InTransit, r)
    BY <1>1, <1>2 DEF Push, InTransit
  <2>2. Len(InTransit) < Capacity + 1
    BY <1>1, <1>2, ConcatProperties DEF Push, QueueLen, InTransit
  <2> QED
    BY <1>2, <2>1, <2>2 DEF Forwarded!Push
<1>3. ASSUME Forward(consumer) PROVE UNCHANGED InTransit
  <2>1. hand[consumer] = None /\ channel # << >>
    BY <1>3 DEF Forward
  <2>2. Head(channel) \in Requests /\ channel = <<Head(channel)>> \o Tail(channel)
    BY <1>1, <2>1
  <2>3. hand'[consumer] = Head(channel) /\ channel' = Tail(channel)
    BY <1>3, <2>1 DEF Forward, ConsumerTypeOK, TypeOK
  <2>4. InTransit' = <<Head(channel)>> \o Tail(channel)
    BY <2>2, <2>3 DEF InTransit
  <2>5. InTransit = channel
    BY <1>1, <2>1 DEF InTransit
  <2> QED
    BY <2>2, <2>4, <2>5
<1>4. ASSUME Receive PROVE Forwarded!Pop
  <2>1. hand[consumer] \in Requests /\ got' = hand[consumer]
    BY <1>1, <1>4 DEF Receive, Deliver
  <2>2. InTransit = <<hand[consumer]>> \o channel
    BY <2>1 DEF InTransit
  <2>3. InTransit' = channel
    BY <1>1, <1>4, <2>1 DEF InTransit, Receive, Deliver, ConsumerTypeOK, TypeOK
  <2>4. /\ InTransit # << >> /\ Head(InTransit) = hand[consumer]
        /\ Tail(InTransit) = channel
    BY <1>1, <2>1, <2>2
  <2> QED
    BY <2>1, <2>3, <2>4 DEF Forwarded!Pop
<1> QED
  BY <1>2, <1>3, <1>4 DEF Next, Forwarded!Next

\* Requests reach the worker in the order they were pushed: none is lost,
\* duplicated or overtaken between Push and the consumer of Chan().
THEOREM ForwardsInOrder == Spec => ForwardedInOrder
<1>1. Start => Forwarded!Init
  BY DEF Start, Init, Forwarded!Init, InTransit
<1>2. ConsumerTypeOK /\ [Next]_vars => [Forwarded!Next]_<<InTransit, got>>
  <2> SUFFICES ASSUME ConsumerTypeOK, [Next]_vars
               PROVE  [Forwarded!Next]_<<InTransit, got>>
    OBVIOUS
  <2>1. CASE UNCHANGED vars
    BY <2>1 DEF vars, queueVars, InTransit
  <2> QED
    BY <2>1, StepSimulation
<1> QED
  BY <1>1, <1>2, QueueTyped, PTL DEF Spec, ForwardedInOrder, Forwarded!Safe
==============================================================================
