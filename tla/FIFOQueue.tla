------------------------------ MODULE FIFOQueue ------------------------------
(***************************************************************************)
(* What the Queue interface of lib/queue.go promises its users: "it's      *)
(* expected that the queue operates in FIFO order, pushing requests that   *)
(* need processing onto one end, popping requests off the other".          *)
(* Nothing is lost, invented, duplicated or overtaken, and a request that  *)
(* is in the queue is eventually taken.                                    *)
(***************************************************************************)
EXTENDS Integers, Sequences

CONSTANTS Requests,  \* the requests that may be pushed
          Bound,     \* how many requests fit between a push and a pop, at least 1
          None       \* no request

VARIABLES items,     \* the queued requests, oldest first
          taken      \* the request popped last

Init ==
  /\ items = << >>
  /\ taken = None

Push(r) ==
  /\ Len(items) < Bound
  /\ items' = Append(items, r)
  /\ UNCHANGED taken

\* The popped request is the one its caller gets.
Pop ==
  /\ items # << >>
  /\ taken' = Head(items)
  /\ items' = Tail(items)

Next == Pop \/ \E r \in Requests : Push(r)

Safe == Init /\ [][Next]_<<items, taken>>

\* A queue that is not empty is eventually popped.
Live == WF_<<items, taken>>(Pop)

Spec == Safe /\ Live
==============================================================================
