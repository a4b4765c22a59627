-------------------------------- MODULE MsgQ --------------------------------
(***************************************************************************)
(* lib/msg_q/msg_q.c: a ring of fixed-size elements with many producers    *)
(* and one consumer.  Producers serialise on a spin lock; the consumer     *)
(* takes no lock and meets them only through the atomic size.  A producer  *)
(* that finds the queue empty posts sem_out after it has left the lock.    *)
(*                                                                         *)
(* Each access to size, sem_out or the lock is a step of its own, and so   *)
(* is each copy into or out of a slot.                                     *)
(***************************************************************************)
EXTENDS Naturals, Sequences

CONSTANTS Producers,    \* the threads that push
          Capacity,     \* msg_q_t.capacity
          MaxMsgs       \* bound: how many times each producer pushes

ASSUME CapacityPositive == Capacity \in Nat \ {0}
ASSUME MaxMsgsNat == MaxMsgs \in Nat

VARIABLES
  head, tail, size,     \* msg_q_t.head, .tail, .size
  ring,                 \* msg_q_t.ring_buffer, one entry per slot
  flag, spc,            \* msg_q_t.spinlock_in and the producers inside it
  sem,                  \* msg_q_t.sem_out
  ppc,                  \* where each producer is in _msg_q_push
  sent,                 \* how many messages each producer has pushed
  old,                  \* _msg_q_push's local size, per producer
  cpc,                  \* where the consumer is in _msg_q_pop
  mode,                 \* its wait_type
  got,                  \* its ctx, the message copied out
  received              \* the messages its calls have returned, in order

consVars == <<cpc, mode, got, received>>
prodVars == <<ppc, sent, old>>
vars == <<head, tail, size, ring, flag, spc, sem, prodVars, consVars>>

Lock == INSTANCE SpinLock WITH Threads <- Producers

Messages == Producers \X (1..MaxMsgs)
NoMsg == <<>>                           \* a slot no message was copied to
Slots == 0..Capacity-1

\* ++index, and back to 0 at the end of the ring.
Wrap(i) == IF i + 1 >= Capacity THEN 0 ELSE i + 1

Init ==
  /\ head = 0 /\ tail = 0 /\ size = 0 /\ sem = 0
  /\ ring = [i \in Slots |-> NoMsg]
  /\ Lock!Init
  /\ ppc = [p \in Producers |-> "idle"]
  /\ sent = [p \in Producers |-> 0]
  /\ old = [p \in Producers |-> 0]
  /\ cpc = "idle" /\ mode = "no_wait" /\ got = NoMsg /\ received = <<>>

-----------------------------------------------------------------------------
(* _msg_q_push *)

Goto(p, from, to) == ppc[p] = from /\ ppc' = [ppc EXCEPT ![p] = to]

\* The message that producer p is pushing.
Msg(p) == <<p, sent[p]>>

PushCall(p) ==
  /\ sent[p] < MaxMsgs
  /\ Goto(p, "idle", "lock")
  /\ sent' = [sent EXCEPT ![p] = @ + 1]
  /\ old' = [old EXCEPT ![p] = 0]
  /\ Lock!Call(p)
  /\ UNCHANGED <<head, tail, size, ring, sem, consVars>>

PushLock(p) ==
  /\ Goto(p, "lock", "check")
  /\ Lock!Acquire(p)
  /\ UNCHANGED <<head, tail, size, ring, sem, sent, old, consVars>>

PushCheck_OffByOne(p) ==        \* mutant: <= for <
  /\ Goto(p, "check", IF size <= Capacity THEN "write" ELSE "full")
  /\ UNCHANGED <<head, tail, size, ring, flag, spc, sem, sent, old, consVars>>

\* Is there room?  The consumer may make more at any time.
PushCheck(p) ==
  /\ Goto(p, "check", IF size < Capacity THEN "write" ELSE "full")
  /\ UNCHANGED <<head, tail, size, ring, flag, spc, sem, sent, old, consVars>>

\* memcpy into the slot at tail, and the advance of tail.
PushWrite(p) ==
  /\ Goto(p, "write", "publish")
  /\ ring' = [ring EXCEPT ![tail] = Msg(p)]
  /\ tail' = Wrap(tail)
  /\ UNCHANGED <<head, size, flag, spc, sem, sent, old, consVars>>

PushPublish_AddFetch(p) ==      \* mutant: the value after the addition
  /\ Goto(p, "publish", "unlock")
  /\ old' = [old EXCEPT ![p] = size + 1]
  /\ size' = size + 1
  /\ UNCHANGED <<head, tail, ring, flag, spc, sem, sent, consVars>>

PushPublish_NoIncrement(p) ==   \* mutant: size is not advanced
  /\ Goto(p, "publish", "unlock")
  /\ old' = [old EXCEPT ![p] = size]
  /\ UNCHANGED <<head, tail, size, ring, flag, spc, sem, sent, consVars>>

\* The atomic increment of size: from here on the consumer may take the slot.
PushPublish(p) ==
  /\ Goto(p, "publish", "unlock")
  /\ old' = [old EXCEPT ![p] = size]
  /\ size' = size + 1
  /\ UNCHANGED <<head, tail, ring, flag, spc, sem, sent, consVars>>

\* The block is left, by its end or by the return for a full queue, and the
\* cleanup releases the lock.  Only a push into an empty queue goes on to post.
PushUnlock(p) ==
  /\ ppc[p] \in {"unlock", "full"}
  /\ ppc' = [ppc EXCEPT ![p] =
               IF @ = "unlock" /\ old[p] = 0 THEN "post" ELSE "idle"]
  /\ Lock!Release(p)
  /\ UNCHANGED <<head, tail, size, ring, sem, sent, old, consVars>>

PushPost(p) ==
  /\ Goto(p, "post", "idle")
  /\ sem' = sem + 1
  /\ UNCHANGED <<head, tail, size, ring, flag, spc, sent, old, consVars>>

-----------------------------------------------------------------------------
(* _msg_q_pop *)

PopCall(m) ==
  /\ cpc = "idle" /\ cpc' = "check"
  /\ mode' = m
  /\ UNCHANGED <<head, tail, size, ring, flag, spc, sem, prodVars, got, received>>

\* The load of size at the head of the loop.  A no_wait call gives up on an
\* empty queue, the others wait on the semaphore.
PopCheck ==
  /\ cpc = "check"
  /\ cpc' = IF size > 0 THEN "read"
            ELSE IF mode = "no_wait" THEN "idle" ELSE "wait"
  /\ UNCHANGED <<head, tail, size, ring, flag, spc, sem, prodVars, mode, got,
                 received>>

PopWake_NoRecheck ==            \* mutant: if for while around the wait
  /\ cpc = "wait" /\ cpc' = "read"
  /\ sem > 0
  /\ sem' = sem - 1
  /\ UNCHANGED <<head, tail, size, ring, flag, spc, prodVars, mode, got, received>>

\* ev_sem_wait or ev_sem_wait_ms takes a token; the loop looks at size again.
PopWake ==
  /\ cpc = "wait" /\ cpc' = "check"
  /\ sem > 0
  /\ sem' = sem - 1
  /\ UNCHANGED <<head, tail, size, ring, flag, spc, prodVars, mode, got, received>>

\* ev_sem_wait_ms gives up: the call returns msg_q_ret_non_msg.
PopTimeout ==
  /\ cpc = "wait" /\ cpc' = "idle"
  /\ mode = "wait_timeout"
  /\ sem = 0
  /\ UNCHANGED <<head, tail, size, ring, flag, spc, sem, prodVars, mode, got,
                 received>>

PopRead_AdvanceFirst ==         \* mutant: ++head before the copy
  /\ cpc = "read" /\ cpc' = "release"
  /\ got' = ring[Wrap(head)]
  /\ head' = Wrap(head)
  /\ UNCHANGED <<tail, size, ring, flag, spc, sem, prodVars, mode, received>>

\* memcpy out of the slot at head, and the advance of head.
PopRead ==
  /\ cpc = "read" /\ cpc' = "release"
  /\ got' = ring[head]
  /\ head' = Wrap(head)
  /\ UNCHANGED <<tail, size, ring, flag, spc, sem, prodVars, mode, received>>

\* The atomic decrement of size gives the slot back; the call returns.
PopRelease ==
  /\ cpc = "release" /\ cpc' = "idle"
  /\ size' = size - 1
  /\ received' = Append(received, got)
  /\ UNCHANGED <<head, tail, ring, flag, spc, sem, prodVars, mode, got>>

-----------------------------------------------------------------------------
\* A push under way.
Pushing(p) ==
  \/ PushLock(p) \/ PushCheck(p) \/ PushWrite(p)
  \/ PushPublish(p) \/ PushUnlock(p) \/ PushPost(p)

WaitTypes == {"no_wait", "wait_forever", "wait_timeout"}

Consuming ==
  \/ \E m \in WaitTypes : PopCall(m)
  \/ PopCheck \/ PopWake \/ PopTimeout \/ PopRead \/ PopRelease

Next ==
  \/ \E p \in Producers : PushCall(p) \/ Pushing(p)
  \/ Consuming

Spec == Init /\ [][Next]_vars

\* A push under way goes on, and the consumer is a thread that pops in a loop
\* (the syslog consumer, the TFTP and CMCP machines, the FTX senders).
Fairness ==
  /\ \A p \in Producers : WF_vars(Pushing(p))
  /\ WF_vars(Consuming)

FairSpec == Spec /\ Fairness

-----------------------------------------------------------------------------
\* The oldest message's slot: head has already moved on while the consumer
\* still has to give the slot back.
First == IF cpc # "release" THEN head
         ELSE IF head = 0 THEN Capacity - 1 ELSE head - 1

\* The slot k places after slot i.
Ahead(i, k) == IF i + k >= Capacity THEN i + k - Capacity ELSE i + k

\* The messages accepted and not yet received, oldest first.
Contents == [k \in 1..size |-> ring[Ahead(First, k - 1)]]

Publishing == {p \in Producers : ppc[p] = "publish"}

TypeOK ==
  /\ head \in Slots /\ tail \in Slots /\ size \in 0..Capacity
  /\ ring \in [Slots -> Messages \cup {NoMsg}]
  /\ Lock!TypeOK
  /\ sem \in Nat
  /\ ppc \in [Producers -> {"idle", "lock", "check", "write", "publish",
                            "unlock", "full", "post"}]
  /\ sent \in [Producers -> 0..MaxMsgs]
  /\ old \in [Producers -> 0..Capacity]
  /\ cpc \in {"idle", "check", "wait", "read", "release"}
  /\ mode \in WaitTypes
  /\ got \in Messages \cup {NoMsg}
  /\ received \in Seq(Messages \cup {NoMsg})

\* The two indices and size, which three separate accesses of two threads keep,
\* always describe one ring: tail is size slots past the oldest message, one
\* more while a producer has written a slot it has not yet published.
RingConsistent ==
  LET used == IF Publishing = {} THEN size ELSE size + 1
  IN /\ used <= Capacity
     /\ tail = Ahead(First, used)

\* The producers' lock: at most one of them is inside, and its flag says so
\* (the unlock stores 0 whoever holds the lock).
MutualExclusion == Lock!MutualExclusion

\* No slot is copied into while the consumer copies it out, although the
\* consumer holds no lock.
NoSlotRace ==
  \A p \in Producers :
    ppc[p] = "write" /\ cpc \in {"read", "release"} => tail # First

\* The consumer reads size = 0 and waits in two steps, and a producer
\* publishes and posts in three: still, whenever the consumer sleeps on a
\* queue that holds a message, a token is there or its post is on the way.
NoLostWakeup ==
  cpc = "wait" /\ size > 0
    => \/ sem > 0
       \/ \E p \in Producers : ppc[p] \in {"unlock", "post"} /\ old[p] = 0

\* The queue is first in, first out, holds at most Capacity messages, loses
\* none it accepted and duplicates none (docs/msg_q/msg_q.md).
Queue == INSTANCE BoundedQueue WITH queue <- Contents
QueueSpec == Queue!Spec

\* Every accepted message is received, however the post and the consumer's
\* timeouts interleave.
AcceptedReceived ==
  \A m \in Messages :
    (\E k \in 1..size : Contents[k] = m)
      ~> (\E k \in 1..Len(received) : received[k] = m)
=============================================================================
