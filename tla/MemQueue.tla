------------------------------ MODULE MemQueue -------------------------------
(***************************************************************************)
(* The in-memory request queue (lib/queue.go): a buffered Go channel that  *)
(* producers push onto, and one forwarding goroutine per call of Chan()    *)
(* that takes a request off the channel and then blocks until its consumer *)
(* receives it.  The request in a forwarder's hand is in no channel, so    *)
(* Len() does not count it.  Pop, which receives from the buffer directly,  *)
(* has no caller.                                                          *)
(***************************************************************************)
EXTENDS Integers, Sequences

CONSTANTS Requests,   \* the requests that may be pushed
          Consumers,  \* the callers of Chan(): one per worker
          Capacity,   \* buffer size of the channel (150 in the code)
          None        \* an empty hand

ASSUME QueueAssumption ==
  /\ Capacity \in Nat \ {0}
  /\ None \notin Requests

VARIABLES channel,    \* MemQueue.channel, oldest request first
          hand        \* the request each forwarder has taken and not handed on

queueVars == <<channel, hand>>

TypeOK ==
  /\ channel \in Seq(Requests)
  /\ Len(channel) <= Capacity
  /\ hand \in [Consumers -> Requests \cup {None}]

\* NewMemQueue, and one Chan() per consumer before anything is pushed.
Init ==
  /\ channel = << >>
  /\ hand = [c \in Consumers |-> None]

\* MemQueue.Len
QueueLen == Len(channel)

\* Mutant: a push never blocks.
PushUnbounded(r) ==
  /\ channel' = Append(channel, r)
  /\ UNCHANGED hand

\* MemQueue.Push: blocks while the buffer is full.
Push(r) ==
  /\ QueueLen < Capacity
  /\ channel' = Append(channel, r)
  /\ UNCHANGED hand

\* Mutant: the last request is left in the channel.
ForwardAllButOne(c) ==
  /\ hand[c] = None
  /\ Len(channel) > 1
  /\ hand' = [hand EXCEPT ![c] = Head(channel)]
  /\ channel' = Tail(channel)

\* Mutant: a forwarder does not wait for its consumer.
ForwardEager(c) ==
  /\ channel # << >>
  /\ hand' = [hand EXCEPT ![c] = Head(channel)]
  /\ channel' = Tail(channel)

\* The goroutine of Chan: receive from the buffer ...
Forward(c) ==
  /\ hand[c] = None
  /\ channel # << >>
  /\ hand' = [hand EXCEPT ![c] = Head(channel)]
  /\ channel' = Tail(channel)

\* ... and hand the request to the consumer, which must be receiving.
Deliver(c) ==
  /\ hand[c] # None
  /\ hand' = [hand EXCEPT ![c] = None]
  /\ UNCHANGED channel
==============================================================================
