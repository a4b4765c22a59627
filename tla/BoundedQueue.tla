---------------------------- MODULE BoundedQueue ----------------------------
(***************************************************************************)
(* What a message queue of this code base promises its users: a first-in   *)
(* first-out buffer of bounded length with any number of senders and one   *)
(* receiver.  A message that was accepted is received exactly once, and in *)
(* the order of acceptance.                                                *)
(***************************************************************************)
EXTENDS Naturals, Sequences

CONSTANTS Messages,     \* the messages that can be sent
          Capacity      \* how many the queue holds

VARIABLES queue,        \* the messages accepted and not yet received
          received      \* the messages received so far, in order

queueVars == <<queue, received>>

Init == queue = <<>> /\ received = <<>>

Enqueue(m) ==
  /\ Len(queue) < Capacity
  /\ queue' = Append(queue, m)
  /\ UNCHANGED received

Dequeue ==
  /\ queue # <<>>
  /\ queue' = Tail(queue)
  /\ received' = Append(received, Head(queue))

Next == Dequeue \/ \E m \in Messages : Enqueue(m)

Spec == Init /\ [][Next]_queueVars
=============================================================================
