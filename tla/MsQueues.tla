------------------------------ MODULE MsQueues ------------------------------
(***************************************************************************)
(* A queue of lib/type/type_atom_queue.c as its users see it: created as   *)
(* an mpsc_atom_queue or as an mpmc_atom_queue, which have their own pops  *)
(* and the same list, push and node memory, under an allocator that either *)
(* does or does not reuse memory at once.                                  *)
(***************************************************************************)
EXTENDS MsQueue

CONSTANT MpmcPushes     \* bound: all pushes to an mpmc_atom_queue

VARIABLE kind           \* which of the two declare_..._atom_queue made it

Mpsc == INSTANCE MpscQueue
Mpmc == INSTANCE MpmcQueue

allVars == <<kind, vars>>

QueueInit == Init /\ kind \in {"mpsc", "mpmc"}

MpscNext == kind = "mpsc" /\ Mpsc!Next /\ kind' = kind
MpmcNext ==
  /\ kind = "mpmc" /\ Mpmc!Next /\ kind' = kind
  /\ Cardinality({m \in Messages : m[2] <= sent'[m[1]]}) <= MpmcPushes

QueueSpec == QueueInit /\ [][MpscNext \/ MpmcNext]_allVars
-----------------------------------------------------------------------------
TypeOK == IF kind = "mpsc" THEN Mpsc!TypeOK ELSE Mpmc!TypeOK

\* However soon memory is reused, and whatever stale pointers the calls under
\* way still follow: the two ends of the list are allocated nodes; the consumer
\* of an MPSC queue, which takes no care at all, follows no pointer to freed
\* memory; and a pop of an MPMC queue that does is one that a faster pop has
\* overtaken, whose compare-and-swap is going to fail.
MemorySafe ==
  /\ EndsAllocated
  /\ IF kind = "mpsc" THEN Mpsc!ConsumerSafe ELSE Mpmc!CurrentPopSafe

\* Messages come out in order, and each to one consumer.
QueueKept == TypeOK /\ Fifo /\ ReceivedOnce

\* A pop returns NULL only if there was a moment, after it was called, when
\* the queue held nothing.
EmptyIsTrue ==
  [][~reuse /\ (IF kind = "mpsc" THEN Mpsc!ReturnsNull ELSE Mpmc!ReturnsNull)
       => Contents = <<>>]_allVars
=============================================================================
