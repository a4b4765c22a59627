---------------------------- MODULE MsgQ_proofs ----------------------------
(* What the message queue and, below, the queue between one producer and    *)
(* one consumer keep, for every value of their constants.                    *)
EXTENDS MCMsgQ, SequenceTheorems, TLAPS

\* Where a producer is in _msg_q_push fixes where it is in the spin lock.
LockStage(p) ==
  CASE ppc[p] \in {"idle", "post"} -> "out"
    [] ppc[p] = "lock"             -> "spin"
    [] OTHER                       -> "in"

\* The room a producer found is still there, and the message a consumer found
\* is still there: the other side only ever adds to it.
Reserved ==
  /\ \A p \in Producers : ppc[p] = "write" => size < Capacity
  /\ cpc \in {"read", "release"} => size > 0

\* A push under way has a number of its own.
Numbered == \A p \in Producers : ppc[p] # "idle" => sent[p] > 0

\* What is in the slots the two sides are working on.
SlotContents ==
  /\ \A p \in Producers : ppc[p] = "publish" => ring[Ahead(First, size)] = Msg(p)
  /\ cpc = "release" => got = ring[First]

IInv ==
  /\ TypeOK
  /\ Lock!MutualExclusion
  /\ \A p \in Producers : spc[p] = LockStage(p)
  /\ Reserved
  /\ Numbered
  /\ RingConsistent

-----------------------------------------------------------------------------
\* The states in which a producer is inside the lock.
Inside == {"check", "write", "publish", "unlock", "full"}

LEMMA OneInside ==
  ASSUME IInv, NEW p \in Producers, NEW q \in Producers,
         ppc[p] \in Inside, ppc[q] \in Inside
  PROVE  p = q
BY DEF IInv, LockStage, Inside, Lock!MutualExclusion

LEMMA InitIInv == Init => IInv
<1> SUFFICES ASSUME Init PROVE IInv
  OBVIOUS
<1> USE CapacityPositive, MaxMsgsNat
<1>1. TypeOK
  BY DEF Init, TypeOK, Slots, WaitTypes, Lock!Init, Lock!TypeOK
<1>2. Lock!MutualExclusion /\ \A p \in Producers : spc[p] = LockStage(p)
  BY DEF Init, Lock!Init, Lock!MutualExclusion, LockStage
<1>3. Reserved /\ Numbered /\ RingConsistent
  BY DEF Init, Reserved, Numbered, RingConsistent, Publishing, First, Ahead
<1>4. QED
  BY <1>1, <1>2, <1>3 DEF IInv

\* Every step of the queue is a step of its spin lock, or leaves it alone.
LEMMA StepLock == [Next]_vars => [Lock!Next]_<<flag, spc>>
BY DEF Next, Pushing, Consuming, PushCall, PushLock, PushCheck, PushWrite,
   PushPublish, PushUnlock, PushPost, PopCall, PopCheck, PopWake, PopTimeout,
   PopRead, PopRelease, vars, prodVars, consVars, Lock!Next

LEMMA NextLock ==
  ASSUME IInv, [Next]_vars
  PROVE  Lock!MutualExclusion'
BY StepLock, Lock!SpinStep
   DEF IInv, TypeOK, Lock!TypeOK, Lock!spinVars

-----------------------------------------------------------------------------
LEMMA NextTypeOK ==
  ASSUME IInv, [Next]_vars
  PROVE  TypeOK'
<1> USE CapacityPositive, MaxMsgsNat DEF IInv, TypeOK, Slots, Messages
<1> USE DEF Goto, Lock!TypeOK, prodVars, consVars
<1>1. ASSUME NEW p \in Producers, PushCall(p) PROVE TypeOK'
  BY <1>1 DEF PushCall, Lock!Call
<1>2. ASSUME NEW p \in Producers, PushLock(p) PROVE TypeOK'
  BY <1>2 DEF PushLock, Lock!Acquire
<1>3. ASSUME NEW p \in Producers, PushCheck(p) PROVE TypeOK'
  BY <1>3 DEF PushCheck
<1>4. ASSUME NEW p \in Producers, PushWrite(p) PROVE TypeOK'
  <2>1. Msg(p) \in Messages
    BY <1>4 DEF PushWrite, Msg, Numbered
  <2>2. QED
    BY <1>4, <2>1 DEF PushWrite, Wrap
<1>5. ASSUME NEW p \in Producers, PushPublish(p) PROVE TypeOK'
  <2>1. Publishing # {}
    BY <1>5 DEF PushPublish, Publishing
  <2>2. size + 1 <= Capacity
    BY <2>1 DEF RingConsistent
  <2>3. QED
    BY <1>5, <2>2 DEF PushPublish
<1>6. ASSUME NEW p \in Producers, PushUnlock(p) PROVE TypeOK'
  BY <1>6 DEF PushUnlock, Lock!Release
<1>7. ASSUME NEW p \in Producers, PushPost(p) PROVE TypeOK'
  BY <1>7 DEF PushPost
<1>8. ASSUME NEW m \in WaitTypes, PopCall(m) PROVE TypeOK'
  BY <1>8 DEF PopCall
<1>9. ASSUME PopCheck PROVE TypeOK'
  BY <1>9 DEF PopCheck
<1>10. ASSUME PopWake PROVE TypeOK'
  BY <1>10 DEF PopWake
<1>11. ASSUME PopTimeout PROVE TypeOK'
  BY <1>11 DEF PopTimeout
<1>12. ASSUME PopRead PROVE TypeOK'
  BY <1>12 DEF PopRead, Wrap
<1>13. ASSUME PopRelease PROVE TypeOK'
  BY <1>13 DEF PopRelease, Reserved
<1>14. CASE UNCHANGED vars
  BY <1>14 DEF vars
<1>15. QED
  BY <1>1, <1>2, <1>3, <1>4, <1>5, <1>6, <1>7, <1>8, <1>9, <1>10, <1>11, <1>12, <1>13, <1>14
     DEF Next, Pushing, Consuming

\* A producer's place in the push and its place in the lock move together.
LEMMA NextStages ==
  ASSUME IInv, [Next]_vars
  PROVE  (\A p \in Producers : spc[p] = LockStage(p))' /\ Numbered'
<1> DEFINE Goal == (\A p \in Producers : spc[p] = LockStage(p))' /\ Numbered'
<1> USE DEF IInv, TypeOK, Goto, Lock!TypeOK, prodVars, consVars, LockStage, Numbered
<1>1. ASSUME NEW p \in Producers, PushCall(p) PROVE Goal
  BY <1>1 DEF PushCall, Lock!Call
<1>2. ASSUME NEW p \in Producers, PushLock(p) PROVE Goal
  BY <1>2 DEF PushLock, Lock!Acquire
<1>3. ASSUME NEW p \in Producers, PushCheck(p) PROVE Goal
  BY <1>3 DEF PushCheck
<1>4. ASSUME NEW p \in Producers, PushWrite(p) PROVE Goal
  BY <1>4 DEF PushWrite
<1>5. ASSUME NEW p \in Producers, PushPublish(p) PROVE Goal
  BY <1>5 DEF PushPublish
<1>6. ASSUME NEW p \in Producers, PushUnlock(p) PROVE Goal
  BY <1>6 DEF PushUnlock, Lock!Release
<1>7. ASSUME NEW p \in Producers, PushPost(p) PROVE Goal
  BY <1>7 DEF PushPost
<1>8. ASSUME Consuming \/ UNCHANGED vars PROVE Goal
  BY <1>8 DEF Consuming, PopCall, PopCheck, PopWake, PopTimeout, PopRead,
              PopRelease, vars
<1>9. QED
  BY <1>1, <1>2, <1>3, <1>4, <1>5, <1>6, <1>7, <1>8 DEF Next, Pushing

\* What one side found in size survives every step of the other.
LEMMA NextReserved ==
  ASSUME IInv, [Next]_vars
  PROVE  Reserved'
<1> USE CapacityPositive
    DEF IInv, TypeOK, Goto, prodVars, consVars, Reserved
<1>1. ASSUME NEW p \in Producers,
             PushCall(p) \/ PushLock(p) \/ PushCheck(p) \/ PushWrite(p)
               \/ PushUnlock(p) \/ PushPost(p)
      PROVE  Reserved'
  BY <1>1 DEF PushCall, PushLock, PushCheck, PushWrite, PushUnlock, PushPost
<1>2. ASSUME NEW p \in Producers, PushPublish(p)
      PROVE  Reserved'
  <2>1. \A q \in Producers : ppc[q] # "write"
    BY <1>2, OneInside DEF PushPublish, Inside
  <2>2. QED
    BY <1>2, <2>1 DEF PushPublish
<1>3. ASSUME Consuming \/ UNCHANGED vars
      PROVE  Reserved'
  BY <1>3 DEF Consuming, PopCall, PopCheck, PopWake, PopTimeout, PopRead,
              PopRelease, vars
<1>4. QED
  BY <1>1, <1>2, <1>3 DEF Next, Pushing

\* The indices and size go on describing one ring.
LEMMA NextRing ==
  ASSUME IInv, [Next]_vars
  PROVE  RingConsistent'
<1> USE CapacityPositive DEF IInv, TypeOK, Goto, Slots, prodVars, consVars
<1>1. ASSUME NEW p \in Producers,
             PushCall(p) \/ PushLock(p) \/ PushCheck(p) \/ PushUnlock(p)
               \/ PushPost(p)
      PROVE  RingConsistent'
  <2>1. Publishing' = Publishing /\ First' = First
    BY <1>1 DEF PushCall, PushLock, PushCheck, PushUnlock, PushPost,
                Publishing, First
  <2>2. QED
    BY <1>1, <2>1 DEF PushCall, PushLock, PushCheck, PushUnlock, PushPost,
                      RingConsistent, Ahead
<1>2. ASSUME NEW p \in Producers, PushWrite(p)
      PROVE  RingConsistent'
  <2>1. Publishing = {}
    BY <1>2, OneInside DEF PushWrite, Inside, Publishing
  <2>2. Publishing' # {} /\ First' = First
    BY <1>2 DEF PushWrite, Publishing, First
  <2>3. size < Capacity
    BY <1>2 DEF PushWrite, Reserved
  <2>4. First \in Slots
    BY DEF First
  <2>5. QED
    BY <1>2, <2>1, <2>2, <2>3, <2>4 DEF PushWrite, RingConsistent, Ahead, Wrap
<1>3. ASSUME NEW p \in Producers, PushPublish(p)
      PROVE  RingConsistent'
  <2>1. Publishing # {}
    BY <1>3 DEF PushPublish, Publishing
  <2>2. Publishing' = {} /\ First' = First
    BY <1>3, OneInside DEF PushPublish, Inside, Publishing, First
  <2>3. QED
    BY <1>3, <2>1, <2>2 DEF PushPublish, RingConsistent, Ahead
<1>4. ASSUME NEW m \in WaitTypes,
             PopCall(m) \/ PopCheck \/ PopWake \/ PopTimeout
      PROVE  RingConsistent'
  <2>1. Publishing' = Publishing /\ First' = First
    BY <1>4 DEF PopCall, PopCheck, PopWake, PopTimeout, Publishing, First
  <2>2. QED
    BY <1>4, <2>1 DEF PopCall, PopCheck, PopWake, PopTimeout, RingConsistent,
                      Ahead
<1>5. ASSUME PopRead
      PROVE  RingConsistent'
  <2>1. Publishing' = Publishing /\ First' = First
    BY <1>5 DEF PopRead, Publishing, First, Wrap
  <2>2. QED
    BY <1>5, <2>1 DEF PopRead, RingConsistent, Ahead
<1>6. ASSUME PopRelease
      PROVE  RingConsistent'
  <2>1. Publishing' = Publishing
    BY <1>6 DEF PopRelease, Publishing
  <2>2. First' = head /\ First = IF head = 0 THEN Capacity - 1 ELSE head - 1
    BY <1>6 DEF PopRelease, First
  <2>3. size > 0
    BY <1>6 DEF PopRelease, Reserved
  <2>4. QED
    BY <1>6, <2>1, <2>2, <2>3 DEF PopRelease, RingConsistent, Ahead
<1>7. CASE UNCHANGED vars
  BY <1>7 DEF vars, RingConsistent, Publishing, First, Ahead
<1>8. QED
  BY <1>1, <1>2, <1>3, <1>4, <1>5, <1>6, <1>7 DEF Next, Pushing, Consuming, WaitTypes

\* IInv holds of every behaviour of the queue.
LEMMA SpecIInv == Spec => []IInv
<1>1. IInv /\ [Next]_vars => IInv'
  BY NextTypeOK, NextLock, NextStages, NextReserved, NextRing DEF IInv
<1>2. QED
  BY <1>1, InitIInv, PTL DEF Spec

-----------------------------------------------------------------------------
\* Every index stays inside the ring and size between 0 and the capacity.
THEOREM MsgQTypeOK == Spec => []TypeOK
<1>1. IInv => TypeOK
  BY DEF IInv
<1>2. QED
  BY <1>1, SpecIInv, PTL

\* The producers exclude one another, for any number of them.
THEOREM MsgQMutualExclusion == Spec => []MutualExclusion
<1>1. IInv => MutualExclusion
  BY DEF IInv, MutualExclusion
<1>2. QED
  BY <1>1, SpecIInv, PTL

\* The producers' index, the consumer's index and size never disagree about
\* which slots are in use, for any number of producers and any capacity.
THEOREM MsgQRingConsistent == Spec => []RingConsistent
<1>1. IInv => RingConsistent
  BY DEF IInv
<1>2. QED
  BY <1>1, SpecIInv, PTL

\* The consumer, which takes no lock, never copies a slot that a producer is
\* copying into.
THEOREM MsgQNoSlotRace == Spec => []NoSlotRace
<1>1. IInv => NoSlotRace
  <2> SUFFICES ASSUME IInv, NEW p \in Producers, ppc[p] = "write",
                      cpc \in {"read", "release"}
               PROVE  tail # First
    BY DEF NoSlotRace
  <2>1. Publishing = {}
    BY OneInside DEF Inside, Publishing
  <2>2. size > 0 /\ size < Capacity
    BY DEF IInv, Reserved
  <2>3. QED
    BY <2>1, <2>2, CapacityPositive
       DEF IInv, TypeOK, Slots, RingConsistent, Ahead, First
<1>2. QED
  BY <1>1, SpecIInv, PTL

-----------------------------------------------------------------------------
\* One step keeps the wake-up on its way.
LEMMA NextNoLostWakeup ==
  ASSUME IInv, NoLostWakeup, [Next]_vars
  PROVE  NoLostWakeup'
<1> USE DEF IInv, TypeOK, Goto, prodVars, consVars, NoLostWakeup
<1>1. ASSUME NEW p \in Producers, PushCall(p) \/ PushLock(p)
      PROVE  NoLostWakeup'
  BY <1>1 DEF PushCall, PushLock
<1>2. ASSUME NEW p \in Producers, PushCheck(p) \/ PushWrite(p)
      PROVE  NoLostWakeup'
  BY <1>2 DEF PushCheck, PushWrite
<1>3. ASSUME NEW p \in Producers, PushPublish(p)
      PROVE  NoLostWakeup'
  BY <1>3 DEF PushPublish
<1>4. ASSUME NEW p \in Producers, PushUnlock(p)
      PROVE  NoLostWakeup'
  BY <1>4 DEF PushUnlock
<1>5. ASSUME NEW p \in Producers, PushPost(p)
      PROVE  NoLostWakeup'
  BY <1>5 DEF PushPost
<1>6. ASSUME Consuming \/ UNCHANGED vars
      PROVE  NoLostWakeup'
  BY <1>6 DEF Consuming, PopCall, PopCheck, PopWake, PopTimeout, PopRead,
              PopRelease, vars
<1>7. QED
  BY <1>1, <1>2, <1>3, <1>4, <1>5, <1>6 DEF Next, Pushing

\* The consumer is never left asleep on a queue that holds a message with no
\* token there and no post to come.
THEOREM MsgQNoLostWakeup == Spec => []NoLostWakeup
<1>1. Init => NoLostWakeup
  BY DEF Init, NoLostWakeup
<1>2. QED
  BY <1>1, SpecIInv, NextNoLostWakeup, PTL DEF Spec

-----------------------------------------------------------------------------
(* The refinement of BoundedQueue *)

\* Distinct messages of the ring are in distinct slots, and the next slot to
\* publish is none of them.
LEMMA AheadDistinct ==
  ASSUME CapacityPositive, NEW i \in Slots,
         NEW k \in 0..Capacity-1, NEW l \in 0..Capacity-1, k # l
  PROVE  Ahead(i, k) \in Slots /\ Ahead(i, k) # Ahead(i, l)
BY DEF Slots, Ahead

LEMMA FirstInSlots ==
  ASSUME IInv PROVE First \in Slots
BY CapacityPositive DEF IInv, TypeOK, Slots, First

LEMMA NextSlotContents ==
  ASSUME IInv, SlotContents, [Next]_vars
  PROVE  SlotContents'
<1> USE CapacityPositive
    DEF IInv, TypeOK, Slots, Goto, prodVars, consVars, SlotContents, Msg
<1>1. ASSUME NEW p \in Producers,
             PushCall(p) \/ PushLock(p) \/ PushCheck(p) \/ PushUnlock(p)
               \/ PushPost(p)
      PROVE  SlotContents'
  <2>1. First' = First
    BY <1>1 DEF PushCall, PushLock, PushCheck, PushUnlock, PushPost, First
  <2>2. QED
    BY <1>1, <2>1 DEF PushCall, PushLock, PushCheck, PushUnlock, PushPost, Ahead
<1>2. ASSUME NEW p \in Producers, PushWrite(p)
      PROVE  SlotContents'
  <2>1. Publishing = {} /\ \A q \in Producers : ppc'[q] = "publish" => q = p
    BY <1>2, OneInside DEF PushWrite, Inside, Publishing
  <2>2. tail = Ahead(First, size) /\ First' = First
    BY <1>2, <2>1 DEF PushWrite, RingConsistent, First
  <2>3. size < Capacity
    BY <1>2 DEF PushWrite, Reserved
  <2>4. cpc = "release" => tail # First
    BY <2>2, <2>3, FirstInSlots DEF Ahead, Reserved
  <2>5. QED
    BY <1>2, <2>1, <2>2, <2>4, FirstInSlots DEF PushWrite, Ahead
<1>3. ASSUME NEW p \in Producers, PushPublish(p)
      PROVE  SlotContents'
  <2>1. First' = First /\ \A q \in Producers : ppc'[q] # "publish"
    BY <1>3, OneInside DEF PushPublish, Inside, First
  <2>2. QED
    BY <1>3, <2>1 DEF PushPublish
<1>4. ASSUME NEW m \in WaitTypes,
             PopCall(m) \/ PopCheck \/ PopWake \/ PopTimeout
      PROVE  SlotContents'
  <2>1. First' = First
    BY <1>4 DEF PopCall, PopCheck, PopWake, PopTimeout, First
  <2>2. QED
    BY <1>4, <2>1 DEF PopCall, PopCheck, PopWake, PopTimeout, Ahead
<1>5. ASSUME PopRead
      PROVE  SlotContents'
  <2>1. First' = First /\ First = head
    BY <1>5 DEF PopRead, First, Wrap
  <2>2. QED
    BY <1>5, <2>1 DEF PopRead, Ahead
<1>6. ASSUME PopRelease
      PROVE  SlotContents'
  <2>1. First' = head /\ First = IF head = 0 THEN Capacity - 1 ELSE head - 1
    BY <1>6 DEF PopRelease, First
  <2>2. size > 0
    BY <1>6 DEF PopRelease, Reserved
  <2>3. Ahead(First', size') = Ahead(First, size)
    BY <1>6, <2>1, <2>2 DEF PopRelease, Ahead
  <2>4. QED
    BY <1>6, <2>3 DEF PopRelease
<1>7. CASE UNCHANGED vars
  BY <1>7 DEF vars, First, Ahead
<1>8. QED
  BY <1>1, <1>2, <1>3, <1>4, <1>5, <1>6, <1>7
     DEF Next, Pushing, Consuming, WaitTypes

\* The abstract queue is a sequence of size messages.
LEMMA ContentsSeq ==
  ASSUME IInv
  PROVE  /\ Contents \in Seq(Messages \cup {NoMsg})
         /\ Len(Contents) = size
         /\ \A k \in 1..size : Contents[k] = ring[Ahead(First, k - 1)]
<1>1. \A k \in 1..size : Ahead(First, k - 1) \in Slots
  BY CapacityPositive, FirstInSlots DEF IInv, TypeOK, Slots, Ahead
<1>2. Contents \in [1..size -> Messages \cup {NoMsg}]
  BY <1>1 DEF IInv, TypeOK, Contents
<1>3. size \in Nat
  BY CapacityPositive DEF IInv, TypeOK
<1>4. QED
  BY <1>2, <1>3 DEF Contents

\* Every step of the ring is a step of the bounded queue or leaves it alone:
\* the increment of size sends, the decrement receives.
LEMMA RefineStep ==
  ASSUME IInv, SlotContents, [Next]_vars
  PROVE  [Queue!Next]_<<Contents, received>>
<1> USE CapacityPositive DEF IInv, TypeOK, Goto, prodVars, consVars
<1>1. ASSUME NEW p \in Producers,
             PushCall(p) \/ PushLock(p) \/ PushCheck(p) \/ PushUnlock(p)
               \/ PushPost(p)
      PROVE  UNCHANGED <<Contents, received>>
  <2>1. First' = First
    BY <1>1 DEF PushCall, PushLock, PushCheck, PushUnlock, PushPost, First
  <2>2. QED
    BY <1>1, <2>1 DEF PushCall, PushLock, PushCheck, PushUnlock, PushPost,
                      Contents, Ahead
<1>2. ASSUME NEW p \in Producers, PushWrite(p)
      PROVE  UNCHANGED <<Contents, received>>
  <2>1. Publishing = {}
    BY <1>2, OneInside DEF PushWrite, Inside, Publishing
  <2>2. tail = Ahead(First, size) /\ First' = First
    BY <1>2, <2>1 DEF PushWrite, RingConsistent, First
  <2>3. size \in 0..Capacity-1
    BY <1>2 DEF PushWrite, Reserved
  <2>4. ASSUME NEW k \in 1..size
        PROVE  ring'[Ahead(First, k - 1)] = ring[Ahead(First, k - 1)]
    <3>1. k - 1 \in 0..Capacity-1 /\ k - 1 # size
      BY <2>3
    <3>2. Ahead(First, k - 1) \in Slots /\ Ahead(First, k - 1) # tail
      BY <3>1, <2>2, <2>3, FirstInSlots, AheadDistinct
    <3>3. QED
      BY <1>2, <3>2 DEF PushWrite
  <2>5. Contents' = Contents
    BY <1>2, <2>2, <2>4 DEF PushWrite, Contents, Ahead
  <2>6. QED
    BY <1>2, <2>5 DEF PushWrite
<1>3. ASSUME NEW p \in Producers, PushPublish(p)
      PROVE  Queue!Next
  <2>1. First' = First
    BY <1>3 DEF PushPublish, First
  <2>2. Msg(p) \in Messages /\ Msg(p) = ring[Ahead(First, size)]
    <3>1. ppc[p] = "publish"
      BY <1>3 DEF PushPublish
    <3>2. sent[p] \in 1..MaxMsgs
      BY <3>1, MaxMsgsNat DEF Numbered
    <3>3. QED
      BY <3>1, <3>2 DEF SlotContents, Msg, Messages
  <2>3. size' = size + 1 /\ size < Capacity /\ size \in Nat
    <3>1. Publishing # {}
      BY <1>3 DEF PushPublish, Publishing
    <3>2. QED
      BY <1>3, <3>1 DEF PushPublish, RingConsistent
  <2>4. Contents' = Append(Contents, Msg(p))
    <3> DEFINE Cells == Messages \cup {NoMsg}
               More == Append(Contents, Msg(p))
    <3>1. /\ Len(Contents) = size /\ Contents \in Seq(Cells)
          /\ \A k \in 1..size : Contents[k] = ring[Ahead(First, k - 1)]
      BY ContentsSeq
    <3>2. /\ More \in Seq(Cells) /\ Len(More) = size + 1
          /\ \A k \in 1..size : More[k] = Contents[k]
          /\ More[size + 1] = Msg(p)
      <4>1. Msg(p) \in Cells
        BY <2>2
      <4> HIDE DEF Cells
      <4>2. QED
        BY <3>1, <4>1, AppendProperties
    <3>3. \A k \in 1..(size + 1) : More[k] = ring[Ahead(First, k - 1)]
      <4>1. \A k \in 1..size : More[k] = ring[Ahead(First, k - 1)]
        BY <3>1, <3>2
      <4>2. More[size + 1] = ring[Ahead(First, size)] /\ (size + 1) - 1 = size
        BY <3>2, <2>2, <2>3
      <4>3. \A k \in 1..(size + 1) : k \in 1..size \/ k = size + 1
        BY <2>3
      <4> HIDE DEF More
      <4>4. QED
        BY <4>1, <4>2, <4>3
    <3>4. Contents' = [k \in 1..(size + 1) |-> ring[Ahead(First, k - 1)]]
      BY <1>3, <2>1 DEF PushPublish, Contents, Ahead
    <3> HIDE DEF More, Cells
    <3>5. Contents' \in [1..(size + 1) -> Cells]
      BY <3>2, <3>3, <3>4, <2>3, ElementOfSeq
    <3>6. Contents' \in Seq(Cells) /\ Len(Contents') = size + 1
      BY <3>4, <3>5, <2>3
    <3>7. Contents' = More
      BY <3>2, <3>3, <3>4, <3>6, <2>3, SeqEqual
    <3>8. QED
      BY <3>7 DEF More
  <2>5. Queue!Enqueue(Msg(p))
    BY <1>3, <2>3, <2>4, ContentsSeq DEF PushPublish, Queue!Enqueue
  <2>6. QED
    BY <2>2, <2>5 DEF Queue!Next
<1>4. ASSUME NEW m \in WaitTypes,
             PopCall(m) \/ PopCheck \/ PopWake \/ PopTimeout
      PROVE  UNCHANGED <<Contents, received>>
  <2>1. First' = First
    BY <1>4 DEF PopCall, PopCheck, PopWake, PopTimeout, First
  <2>2. QED
    BY <1>4, <2>1 DEF PopCall, PopCheck, PopWake, PopTimeout, Contents, Ahead
<1>5. ASSUME PopRead
      PROVE  UNCHANGED <<Contents, received>>
  <2>1. First' = First
    BY <1>5 DEF PopRead, First, Slots, Wrap
  <2>2. QED
    BY <1>5, <2>1 DEF PopRead, Contents, Ahead
<1>6. ASSUME PopRelease
      PROVE  Queue!Next
  <2>1. First' = head /\ First = IF head = 0 THEN Capacity - 1 ELSE head - 1
    BY <1>6 DEF PopRelease, First
  <2>2. size > 0 /\ size' = size - 1
    BY <1>6 DEF PopRelease, Reserved
  <2>3. \A k \in 1..(size - 1) : Ahead(First', k - 1) = Ahead(First, k)
    BY <1>6, <2>1, <2>2 DEF PopRelease, Slots, Ahead
  <2>4. Contents' = [k \in 1..(size - 1) |-> ring[Ahead(First, k)]]
    BY <1>6, <2>2, <2>3 DEF PopRelease, Contents, Ahead
  <2>5. Contents # <<>> /\ Head(Contents) = got
    <3>1. got = ring[Ahead(First, 0)]
      BY <1>6, FirstInSlots DEF PopRelease, SlotContents, Slots, Ahead
    <3>2. QED
      BY <3>1, <2>2, ContentsSeq
  <2>6. Contents' = Tail(Contents)
    <3> DEFINE Cells == Messages \cup {NoMsg}
               T == Tail(Contents)
    <3>1. /\ Len(Contents) = size /\ Contents \in Seq(Cells)
          /\ \A k \in 1..size : Contents[k] = ring[Ahead(First, k - 1)]
      BY ContentsSeq
    <3>2. /\ T \in Seq(Cells) /\ Len(T) = size - 1
          /\ \A k \in 1..(size - 1) : T[k] = Contents[k + 1]
      BY <3>1, <2>5, HeadTailProperties
    <3>3. \A k \in 1..(size - 1) : T[k] = ring[Ahead(First, k)]
      BY <3>1, <3>2, <2>2
    <3> HIDE DEF T, Cells
    <3>4. Contents' \in [1..(size - 1) -> Cells]
      BY <3>2, <3>3, <2>4, ElementOfSeq
    <3>5. Contents' \in Seq(Cells) /\ Len(Contents') = size - 1
      BY <3>4, <2>2, <2>4
    <3>6. Contents' = T
      BY <3>2, <3>3, <3>5, <2>4, SeqEqual
    <3>7. QED
      BY <3>6 DEF T
  <2>7. QED
    BY <1>6, <2>5, <2>6 DEF PopRelease, Queue!Next, Queue!Dequeue
<1>7. CASE UNCHANGED vars
  BY <1>7 DEF vars, Contents, First, Ahead
<1>8. QED
  BY <1>1, <1>2, <1>3, <1>4, <1>5, <1>6, <1>7
     DEF Next, Pushing, Consuming, WaitTypes

\* The ring with its lock, its atomic counter and its lock-free consumer
\* implements the bounded first-in first-out queue, for any number of
\* producers, any capacity and any number of messages.
THEOREM MsgQImplementsQueue == Spec => QueueSpec
<1>1. Init => SlotContents
  BY DEF Init, SlotContents
<1>2. Init => Queue!Init
  BY DEF Init, Queue!Init, Contents
<1>3. QED
  BY <1>1, <1>2, SpecIInv, NextSlotContents, RefineStep, PTL
     DEF Spec, QueueSpec, Queue!Spec, Queue!queueVars

-----------------------------------------------------------------------------
(* The queue between one producer and one consumer: SpscQueue *)

Popped == Len(a_popped)
Pushed == Len(a_pushed)

\* The pushes whose item is linked into the list.
Linked == IF a_ppc = "idle" THEN Pushed ELSE Pushed - 1

\* The push under way found the queue empty: it links behind the sentinel.
Fresh ==
  \/ a_ppc = "init"
  \/ a_ppc \in {"clear", "xchg"} /\ a_last = A!Sentinel
  \/ a_ppc = "link" /\ a_prev = A!Sentinel

\* The pop under way has found no successor: it is about to clear the sentinel.
Closing == a_cpc = "store" /\ a_succ = A!Null

\* What is popped is what was pushed, and no item waits in two places.
Waiting ==
  /\ Popped <= Linked /\ Pushed <= MaxPushes
  /\ \A k \in 1..Popped : a_popped[k] = a_pushed[k]
  /\ \A j, k \in (Popped + 1)..Pushed : a_pushed[j] = a_pushed[k] => j = k

\* The count goes down before an item is popped.
Counted ==
  /\ a_cpc \in {"idle", "count"} => a_count = Pushed - Popped
  /\ a_cpc \in {"spin", "store"} => a_count = Pushed - Popped - 1

\* last_next: the field of the item that was pushed last, or of the one before
\* while a push is under way, or the sentinel's.
LastIsLast ==
  /\ a_ppc = "idle" => Pushed = 0 \/ a_last = a_pushed[Pushed]
  /\ a_ppc # "idle" => Pushed > 0 /\ a_item = a_pushed[Pushed]
  /\ a_ppc \in {"clear", "xchg"} => a_last = A!Sentinel \/ (Pushed > 1 /\ a_last = a_pushed[Pushed - 1])
  /\ a_ppc = "link" => /\ a_last = a_item
                       /\ a_prev = A!Sentinel \/ (Pushed > 1 /\ a_prev = a_pushed[Pushed - 1])
  /\ a_ppc \in {"xchg", "link"} => a_next[a_item] = A!Null

\* The items from the sentinel on are those that were pushed and not popped, in
\* order; the pop has the first of them and perhaps the second.
Chain ==
  /\ a_cpc = "idle" =>
       a_next[A!Sentinel] = (IF Linked > Popped THEN a_pushed[Popped + 1] ELSE A!Null)
  /\ a_cpc # "idle" => Popped + 1 <= Linked /\ a_it = a_pushed[Popped + 1]
  /\ a_cpc \in {"count", "spin"} => a_succ = A!Null
  /\ a_cpc = "spin" => Popped + 2 <= Pushed
  /\ a_cpc = "store" /\ a_succ # A!Null => Popped + 2 <= Linked /\ a_succ = a_pushed[Popped + 2]
  /\ ~Closing =>
       /\ \A k \in (Popped + 1)..(Linked - 1) : a_next[a_pushed[k]] = a_pushed[k + 1]
       /\ Linked > Popped => a_next[a_pushed[Linked]] = A!Null

\* A push finds the queue empty when there is nothing to pop, or in a race with
\* the pop of the last item.
Races ==
  /\ Closing => (Pushed = Popped + 1 /\ a_ppc = "idle") \/ (Pushed > Popped + 1 /\ a_raced)
  /\ Fresh => (a_cpc = "idle" /\ Popped = Pushed - 1) \/ (Closing /\ Popped + 1 = Pushed - 1)
  /\ a_ppc # "idle" /\ ~Fresh /\ ~Closing => Popped + 1 <= Pushed - 1

\* Lost: the sentinel was cleared after the push of that race had linked its
\* item, and nothing is popped any more.
Cut ==
  /\ a_raced /\ a_cpc = "idle" /\ Popped < Pushed /\ ~Fresh
  /\ a_next[A!Sentinel] = A!Null

SpscInv == A!TypeOK /\ Waiting /\ Counted /\ LastIsLast /\ (Cut \/ (Chain /\ Races))

\* The constants: items are none of the two marks.
LEMMA SpscConsts ==
  /\ MaxPushes \in Nat /\ A!Null # A!Sentinel
  /\ \A x \in Items : x # A!Null /\ x # A!Sentinel
BY SpscAssumptions DEF SpscAssumptions, A!ItemsAssumption, A!Null, A!Sentinel

\* What the sequences and the fields are, for the steps below.
LEMMA SpscData ==
  ASSUME A!TypeOK, Waiting
  PROVE  /\ Popped \in Nat /\ Pushed \in Nat /\ Linked \in Int
         /\ \A k \in 1..Pushed : a_pushed[k] \in Items
         /\ \A x \in Items : x # A!Null /\ x # A!Sentinel
         /\ A!Null # A!Sentinel
         /\ Popped <= Pushed /\ Linked <= Pushed
<1> USE DEF Popped, Pushed
<1>1. Popped \in Nat /\ Pushed \in Nat /\ \A k \in 1..Pushed : a_pushed[k] \in Items
  BY DEF A!TypeOK
<1>2. \A x \in Items : x # A!Null /\ x # A!Sentinel
  BY SpscConsts
<1>3. A!Null # A!Sentinel
  BY DEF A!Null, A!Sentinel
<1>4. QED
  BY <1>1, <1>2, <1>3 DEF Linked, Waiting

\* The queue begins empty.
LEMMA SpscInit == A!Init => SpscInv
<1> SUFFICES ASSUME A!Init PROVE SpscInv
  OBVIOUS
<1>1. A!TypeOK
  <2>1. a_next \in [Items \cup {A!Sentinel} -> A!Links]
    BY DEF A!Init, A!Links
  <2>2. a_count \in 0..MaxPushes /\ a_n \in 0..MaxPushes
    BY SpscConsts DEF A!Init
  <2>3. a_it \in A!Links /\ a_succ \in A!Links
    BY DEF A!Init, A!Links
  <2>4. QED
    <3>1. a_last \in Items \cup {A!Sentinel} /\ a_prev \in Items \cup {A!Sentinel}
      BY DEF A!Init
    <3>2. a_ppc \in {"idle", "init", "clear", "xchg", "link"} /\ a_item \in Items
      BY DEF A!Init
    <3>3. a_cpc \in {"idle", "count", "spin", "store"} /\ a_raced \in BOOLEAN
      BY DEF A!Init
    <3>4. a_pushed \in Seq(Items) /\ a_popped \in Seq(Items)
      BY DEF A!Init
    <3>5. QED
      BY <2>1, <2>2, <2>3, <3>1, <3>2, <3>3, <3>4 DEF A!TypeOK
<1>2. Popped = 0 /\ Pushed = 0 /\ Linked = 0
  BY DEF A!Init, Popped, Pushed, Linked
<1>3. Waiting
  BY <1>2, SpscConsts DEF Waiting
<1>6. Counted /\ LastIsLast
  <2>1. Counted
    BY <1>2 DEF A!Init, Counted
  <2>2. LastIsLast
    BY <1>2 DEF A!Init, LastIsLast
  <2>3. QED
    BY <2>1, <2>2
<1>4. Chain /\ Races
  BY <1>2 DEF A!Init, Chain, Races, Closing, Fresh
<1>5. QED
  BY <1>1, <1>3, <1>4, <1>6 DEF SpscInv

\* A push begins.
LEMMA SpscPushCount ==
  ASSUME SpscInv, NEW x \in Items, A!PushCount(x)
  PROVE  SpscInv'
<1>0. A!TypeOK /\ Waiting /\ Counted /\ LastIsLast /\ (Cut \/ (Chain /\ Races))
  BY DEF SpscInv
<1>1. /\ Popped \in Nat /\ Pushed \in Nat /\ Linked = Pushed /\ Popped <= Pushed
      /\ \A k \in 1..Pushed : a_pushed[k] \in Items
  BY <1>0, SpscData DEF A!PushCount, Linked
<1>2. /\ a_pushed' = Append(a_pushed, x) /\ a_popped' = a_popped
      /\ a_pushed \in Seq(Items) /\ Pushed < MaxPushes
      /\ \A k \in (Popped + 1)..Pushed : a_pushed[k] # x
  BY <1>0 DEF A!PushCount, A!popVars, A!InQueue, A!TypeOK, Popped, Pushed
<1>3. /\ Pushed' = Pushed + 1 /\ Popped' = Popped /\ Linked' = Pushed
      /\ \A k \in 1..Pushed : a_pushed'[k] = a_pushed[k]
      /\ a_pushed'[Pushed + 1] = x
  <2>1. Pushed' = Pushed + 1 /\ Popped' = Popped
    BY <1>1, <1>2 DEF Pushed, Popped
  <2>2. (\A k \in 1..Pushed : a_pushed'[k] = a_pushed[k]) /\ a_pushed'[Pushed + 1] = x
    BY <1>1, <1>2 DEF Pushed
  <2>3. Linked' = Pushed
    BY <1>1, <2>1 DEF Linked, A!PushCount
  <2>4. QED
    BY <2>1, <2>2, <2>3
<1>4. Waiting'
  <2>1. Popped' <= Linked' /\ Pushed' <= MaxPushes
    BY <1>1, <1>2, <1>3, SpscConsts
  <2>2. \A k \in 1..Popped' : a_popped'[k] = a_pushed'[k]
    <3>1. \A k \in 1..Popped : a_popped[k] = a_pushed[k]
      BY <1>0 DEF Waiting
    <3>2. a_popped' = a_popped
      BY <1>2
    <3>3. QED
      BY <1>1, <1>3, <3>1, <3>2
  <2>3. \A j, k \in (Popped' + 1)..Pushed' : a_pushed'[j] = a_pushed'[k] => j = k
    <3>1. \A j, k \in (Popped + 1)..Pushed : a_pushed[j] = a_pushed[k] => j = k
      BY <1>0 DEF Waiting
    <3>2. ASSUME NEW j \in (Popped + 1)..(Pushed + 1), NEW k \in (Popped + 1)..(Pushed + 1),
                 a_pushed'[j] = a_pushed'[k]
          PROVE  j = k
      <4>1. CASE j <= Pushed /\ k <= Pushed
        BY <1>1, <1>3, <3>1, <3>2, <4>1
      <4>2. CASE j = Pushed + 1 \/ k = Pushed + 1
        <5>1. \A i \in (Popped + 1)..Pushed : a_pushed'[i] # a_pushed'[Pushed + 1]
          <6>1. TAKE i \in (Popped + 1)..Pushed
          <6>2. a_pushed'[i] = a_pushed[i]
            BY <1>1, <1>3
          <6>3. a_pushed[i] # x
            BY <1>2
          <6>4. QED
            BY <1>3, <6>2, <6>3
        <5>2. QED
          BY <1>1, <3>2, <4>2, <5>1
      <4>3. QED
        BY <1>1, <4>1, <4>2
    <3>3. QED
      BY <1>3, <3>2
  <2>4. QED
    BY <2>1, <2>2, <2>3 DEF Waiting
<1>5. A!TypeOK'
  <2>1. a_count \in Nat /\ a_count <= Pushed
    BY <1>0, <1>1 DEF Counted, A!TypeOK
  <2>2. a_count' \in 0..MaxPushes
    BY <1>1, <1>2, <2>1, SpscConsts DEF A!PushCount
  <2>3. a_ppc' \in {"idle", "init", "clear", "xchg", "link"} /\ a_pushed' \in Seq(Items)
    BY <1>2 DEF A!PushCount
  <2>4. a_raced' \in BOOLEAN
    BY <1>0 DEF A!PushCount, A!TypeOK
  <2>5. QED
    BY <1>0, <2>2, <2>3, <2>4 DEF A!TypeOK, A!PushCount, A!popVars, A!Links
<1>6. Counted'
  BY <1>0, <1>1, <1>3 DEF Counted, A!PushCount, A!popVars
<1>7. LastIsLast'
  <2>1. a_item' = a_pushed'[Pushed'] /\ Pushed' > 0 /\ a_last' = a_last
    BY <1>1, <1>3 DEF A!PushCount
  <2>2. a_count > 0 => Pushed > 0 /\ a_last = a_pushed[Pushed]
    BY <1>0, <1>1 DEF Counted, LastIsLast, A!PushCount, A!TypeOK
  <2>3. a_ppc' = "init" \/ (a_ppc' = "clear" /\ a_count > 0)
    BY <1>0 DEF A!PushCount, A!TypeOK
  <2>4. QED
    BY <1>0, <1>1, <1>3, <2>1, <2>2, <2>3 DEF LastIsLast
<1>8. a_count > 0 => ~Fresh'
  <2> SUFFICES ASSUME a_count > 0 PROVE ~Fresh'
    OBVIOUS
  <2>1. Pushed > 0 /\ a_last = a_pushed[Pushed] /\ a_ppc' = "clear" /\ a_last' = a_last
    BY <1>0, <1>1 DEF Counted, LastIsLast, A!PushCount, A!TypeOK
  <2>2. a_last # A!Sentinel
    BY <1>1, <2>1, SpscConsts
  <2>3. QED
    BY <2>1, <2>2 DEF Fresh, A!Sentinel
<1>9. CASE Cut
  <2>1. a_count > 0
    BY <1>0, <1>1, <1>9 DEF Cut, Counted
  <2>2. a_raced' /\ a_next' = a_next /\ a_cpc' = a_cpc
    BY <1>9 DEF Cut, A!PushCount, A!popVars
  <2>3. Cut'
    BY <1>1, <1>3, <1>8, <1>9, <2>1, <2>2 DEF Cut, A!Sentinel, A!Null
  <2>4. QED
    BY <1>4, <1>5, <1>6, <1>7, <2>3 DEF SpscInv
<1>10. CASE Chain /\ Races
  <2>1. Closing' <=> Closing
    BY DEF Closing, A!PushCount, A!popVars, A!Null
  <2>2. /\ a_next' = a_next /\ a_cpc' = a_cpc /\ a_it' = a_it /\ a_succ' = a_succ
        /\ a_ppc' # "idle" /\ a_ppc = "idle"
    BY DEF A!PushCount, A!popVars
  <2>3. Chain'
    <3>1. a_cpc' = "idle" => a_next'[A!Sentinel] = (IF Linked' > Popped' THEN a_pushed'[Popped' + 1] ELSE A!Null)
      BY <1>1, <1>3, <1>10, <2>2 DEF Chain, A!Sentinel, A!Null
    <3>2. a_cpc' # "idle" => Popped' + 1 <= Linked' /\ a_it' = a_pushed'[Popped' + 1]
      BY <1>1, <1>3, <1>10, <2>2 DEF Chain
    <3>3. /\ a_cpc' \in {"count", "spin"} => a_succ' = A!Null
          /\ a_cpc' = "spin" => Popped' + 2 <= Pushed'
          /\ a_cpc' = "store" /\ a_succ' # A!Null => Popped' + 2 <= Linked' /\ a_succ' = a_pushed'[Popped' + 2]
      BY <1>1, <1>3, <1>10, <2>2 DEF Chain
    <3>4. ~Closing => /\ \A k \in (Popped' + 1)..(Linked' - 1) : a_next'[a_pushed'[k]] = a_pushed'[k + 1]
                      /\ Linked' > Popped' => a_next'[a_pushed'[Linked']] = A!Null
      BY <1>1, <1>3, <1>10, <2>2 DEF Chain
    <3>5. QED
      BY <2>1, <3>1, <3>2, <3>3, <3>4 DEF Chain, A!Null, A!Sentinel
  <2>4. Races'
    <3>1. Closing => Pushed' > Popped' + 1 /\ a_raced'
      <4> SUFFICES ASSUME Closing PROVE Pushed' > Popped' + 1 /\ a_raced'
        OBVIOUS
      <4>1. CASE Pushed = Popped + 1
        <5>1. a_count = 0 /\ a_cpc = "store"
          BY <1>0, <1>1, <4>1 DEF Counted, Closing
        <5>2. a_raced'
          BY <5>1 DEF A!PushCount
        <5>3. QED
          BY <1>1, <1>3, <4>1, <5>2
      <4>2. CASE Pushed > Popped + 1 /\ a_raced
        <5>1. a_raced'
          BY <4>2 DEF A!PushCount
        <5>2. QED
          BY <1>1, <1>3, <4>2, <5>1
      <4>3. QED
        BY <1>10, <4>1, <4>2 DEF Races
    <3>2. Fresh' => (a_cpc' = "idle" /\ Popped' = Pushed' - 1) \/ (Closing /\ Popped' + 1 = Pushed' - 1)
      <4> SUFFICES ASSUME Fresh' PROVE (a_cpc = "idle" /\ Popped = Pushed) \/ (Closing /\ Popped + 1 = Pushed)
        BY <1>1, <1>3, <2>2
      <4>1. a_count = 0
        BY <1>0, <1>8 DEF A!TypeOK
      <4>2. QED
        BY <1>0, <1>1, <1>10, <4>1 DEF Counted, Chain, Closing, A!TypeOK
    <3>3. ~Fresh' /\ ~Closing => Popped' + 1 <= Pushed' - 1
      <4> SUFFICES ASSUME ~Closing, Popped = Pushed PROVE Fresh'
        BY <1>1, <1>3
      <4>1. a_cpc = "idle"
        BY <1>1, <1>10 DEF Chain
      <4>2. a_count = 0
        BY <1>0, <1>1, <4>1 DEF Counted
      <4>3. QED
        BY <4>2 DEF Fresh, A!PushCount
    <3>4. QED
      BY <2>1, <2>2, <3>1, <3>2, <3>3 DEF Races
  <2>5. QED
    BY <1>4, <1>5, <1>6, <1>7, <2>3, <2>4 DEF SpscInv
<1>11. QED
  BY <1>0, <1>9, <1>10

\* The sequences stay, and so does what is said of them alone.
LEMMA SpscStill ==
  ASSUME A!TypeOK, Waiting, a_pushed' = a_pushed, a_popped' = a_popped, Linked' \in {Linked, Pushed}
  PROVE  Waiting' /\ Pushed' = Pushed /\ Popped' = Popped
<1>1. Pushed' = Pushed /\ Popped' = Popped
  BY DEF Pushed, Popped
<1>2. Popped' <= Linked' /\ Pushed' <= MaxPushes
  BY <1>1, SpscData DEF Waiting
<1>3. QED
  BY <1>1, <1>2 DEF Waiting

\* The push puts last_next back on the sentinel, or clears the item's next.
LEMMA SpscPushReset ==
  ASSUME SpscInv, A!PushInit \/ A!PushClear
  PROVE  SpscInv'
<1>0. A!TypeOK /\ Waiting /\ Counted /\ LastIsLast /\ (Cut \/ (Chain /\ Races))
  BY DEF SpscInv
<1>1. /\ Popped \in Nat /\ Pushed \in Nat /\ Linked = Pushed - 1 /\ Popped <= Linked
      /\ \A k \in 1..Pushed : a_pushed[k] \in Items
      /\ Pushed > 0 /\ a_item = a_pushed[Pushed] /\ a_item \in Items
  BY <1>0, SpscData DEF A!PushInit, A!PushClear, Linked, Waiting, LastIsLast
<1>2. /\ a_pushed' = a_pushed /\ a_popped' = a_popped /\ Linked' = Linked /\ Linked' = Pushed - 1
      /\ a_cpc' = a_cpc /\ a_it' = a_it /\ a_succ' = a_succ /\ a_count' = a_count
      /\ a_item' = a_item /\ a_raced' = a_raced /\ a_prev' = a_prev /\ a_n' = a_n
      /\ a_ppc # "idle" /\ a_ppc' # "idle"
  <2>1. Linked' = Pushed - 1
    BY <1>1 DEF A!PushInit, A!PushClear, A!popVars, Linked, Pushed
  <2>2. QED
    BY <1>1, <2>1 DEF A!PushInit, A!PushClear, A!popVars
<1>3. Waiting' /\ Pushed' = Pushed /\ Popped' = Popped
  BY <1>0, <1>2, SpscStill
<1>4. /\ \A x \in Items : x # a_item => a_next'[x] = a_next[x]
      /\ a_next'[A!Sentinel] = a_next[A!Sentinel]
      /\ a_ppc = "clear" => a_next'[a_item] = A!Null
      /\ a_next' \in [Items \cup {A!Sentinel} -> A!Links]
  BY <1>0, <1>1, SpscConsts DEF A!PushInit, A!PushClear, A!TypeOK, A!Links
<1>5. A!TypeOK'
  BY <1>0, <1>2, <1>4 DEF A!TypeOK, A!PushInit, A!PushClear, A!Links
<1>6. Counted'
  BY <1>0, <1>2, <1>3 DEF Counted
<1>7. /\ a_ppc = "init" => a_ppc' = "clear" /\ a_last' = A!Sentinel
      /\ a_ppc = "clear" => a_ppc' = "xchg" /\ a_last' = a_last
      /\ a_ppc \in {"init", "clear"}
  BY DEF A!PushInit, A!PushClear
<1>8. LastIsLast'
  <2>1. a_ppc' \in {"clear", "xchg"} => a_last' = A!Sentinel \/ (Pushed' > 1 /\ a_last' = a_pushed'[Pushed' - 1])
    BY <1>0, <1>2, <1>3, <1>7 DEF LastIsLast
  <2>2. a_ppc' \in {"xchg", "link"} => a_next'[a_item'] = A!Null
    BY <1>2, <1>4, <1>7
  <2>3. QED
    BY <1>1, <1>2, <1>3, <1>7, <2>1, <2>2 DEF LastIsLast, A!Sentinel, A!Null
<1>9. (Fresh' <=> Fresh) /\ (Closing' <=> Closing)
  <2>1. Closing' <=> Closing
    BY <1>2 DEF Closing, A!Null
  <2>2. Fresh' <=> Fresh
    BY <1>2, <1>7 DEF Fresh, A!Sentinel
  <2>3. QED
    BY <2>1, <2>2
<1>10. CASE Cut
  <2>1. Cut'
    BY <1>2, <1>3, <1>4, <1>9, <1>10 DEF Cut, A!Sentinel, A!Null
  <2>2. QED
    BY <1>3, <1>5, <1>6, <1>8, <2>1 DEF SpscInv
<1>11. CASE Chain /\ Races
  <2>1. ASSUME NEW k \in (Popped + 1)..Linked
        PROVE  a_next'[a_pushed[k]] = a_next[a_pushed[k]]
    <3>1. k \in (Popped + 1)..Pushed /\ Pushed \in (Popped + 1)..Pushed /\ k # Pushed
      BY <1>1
    <3>2. a_pushed[k] \in Items /\ a_pushed[k] # a_item
      BY <1>0, <1>1, <3>1 DEF Waiting
    <3>3. QED
      BY <1>4, <3>2
  <2>2. Chain'
    <3>1. ~Closing => /\ \A k \in (Popped + 1)..(Linked - 1) : a_next'[a_pushed[k]] = a_pushed[k + 1]
                      /\ Linked > Popped => a_next'[a_pushed[Linked]] = A!Null
      BY <1>1, <1>11, <2>1 DEF Chain
    <3>2. /\ a_cpc = "idle" => a_next'[A!Sentinel] = (IF Linked > Popped THEN a_pushed[Popped + 1] ELSE A!Null)
          /\ a_cpc # "idle" => Popped + 1 <= Linked /\ a_it = a_pushed[Popped + 1]
      BY <1>4, <1>11 DEF Chain
    <3>3. /\ a_cpc \in {"count", "spin"} => a_succ = A!Null
          /\ a_cpc = "spin" => Popped + 2 <= Pushed
          /\ a_cpc = "store" /\ a_succ # A!Null => Popped + 2 <= Linked /\ a_succ = a_pushed[Popped + 2]
      BY <1>11 DEF Chain
    <3>4. QED
      BY <1>2, <1>3, <1>9, <3>1, <3>2, <3>3 DEF Chain, A!Null, A!Sentinel
  <2>3. Races'
    BY <1>2, <1>3, <1>9, <1>11 DEF Races
  <2>4. QED
    BY <1>3, <1>5, <1>6, <1>8, <2>2, <2>3 DEF SpscInv
<1>12. QED
  BY <1>0, <1>10, <1>11

\* The exchange makes the item the last, and hands the push the one before.
LEMMA SpscPushExchange ==
  ASSUME SpscInv, A!PushExchange
  PROVE  SpscInv'
<1>0. A!TypeOK /\ Waiting /\ Counted /\ LastIsLast /\ (Cut \/ (Chain /\ Races))
  BY DEF SpscInv
<1>1. /\ Linked = Pushed - 1 /\ a_item = a_pushed[Pushed] /\ a_item \in Items
      /\ Pushed \in Nat /\ Popped \in Nat /\ Pushed > 0
      /\ \A k \in 1..Pushed : a_pushed[k] \in Items
  BY <1>0, SpscData DEF A!PushExchange, Linked, LastIsLast
<1>2. /\ a_pushed' = a_pushed /\ a_popped' = a_popped /\ Linked' = Linked
      /\ a_cpc' = a_cpc /\ a_it' = a_it /\ a_succ' = a_succ /\ a_count' = a_count
      /\ a_item' = a_item /\ a_raced' = a_raced /\ a_next' = a_next /\ a_n' = a_n
      /\ a_ppc = "xchg" /\ a_ppc' = "link" /\ a_prev' = a_last /\ a_last' = a_item
  <2>1. Linked' = Linked
    BY DEF A!PushExchange, A!popVars, Linked, Pushed
  <2>2. QED
    BY <2>1 DEF A!PushExchange, A!popVars
<1>3. Waiting' /\ Pushed' = Pushed /\ Popped' = Popped
  BY <1>0, <1>2, SpscStill
<1>4. A!TypeOK'
  BY <1>0, <1>1, <1>2 DEF A!TypeOK, A!Links
<1>5. Counted'
  BY <1>0, <1>2, <1>3 DEF Counted
<1>6. LastIsLast'
  BY <1>0, <1>1, <1>2, <1>3 DEF LastIsLast, A!Sentinel, A!Null
<1>7. (Fresh' <=> Fresh) /\ (Closing' <=> Closing)
  BY <1>2 DEF Fresh, Closing, A!Sentinel, A!Null
<1>8. CASE Cut
  <2>1. Cut'
    BY <1>2, <1>3, <1>7, <1>8 DEF Cut, A!Sentinel, A!Null
  <2>2. QED
    BY <1>3, <1>4, <1>5, <1>6, <2>1 DEF SpscInv
<1>9. CASE Chain /\ Races
  <2>1. Chain'
    BY <1>2, <1>3, <1>7, <1>9 DEF Chain, A!Sentinel, A!Null
  <2>2. Races'
    BY <1>2, <1>3, <1>7, <1>9 DEF Races
  <2>3. QED
    BY <1>3, <1>4, <1>5, <1>6, <2>1, <2>2 DEF SpscInv
<1>10. QED
  BY <1>0, <1>8, <1>9

\* The item is linked behind the one before, or behind the sentinel.
LEMMA SpscPushLink ==
  ASSUME SpscInv, A!PushLink
  PROVE  SpscInv'
<1>0. A!TypeOK /\ Waiting /\ Counted /\ LastIsLast /\ (Cut \/ (Chain /\ Races))
  BY DEF SpscInv
<1>1. /\ Linked = Pushed - 1 /\ a_item = a_pushed[Pushed] /\ a_item \in Items
      /\ Pushed \in Nat /\ Popped \in Nat /\ Pushed > 0 /\ Popped <= Linked
      /\ \A k \in 1..Pushed : a_pushed[k] \in Items
      /\ a_last = a_pushed[Pushed] /\ a_next[a_item] = A!Null
      /\ a_prev = A!Sentinel \/ (Pushed > 1 /\ a_prev = a_pushed[Pushed - 1])
  BY <1>0, SpscData DEF A!PushLink, Linked, LastIsLast, Waiting
<1>2. /\ a_pushed' = a_pushed /\ a_popped' = a_popped /\ Linked' = Pushed
      /\ a_cpc' = a_cpc /\ a_it' = a_it /\ a_succ' = a_succ /\ a_count' = a_count
      /\ a_item' = a_item /\ a_raced' = a_raced /\ a_n' = a_n
      /\ a_ppc = "link" /\ a_ppc' = "idle" /\ a_prev' = a_prev /\ a_last' = a_last
      /\ a_next' = [a_next EXCEPT ![a_prev] = a_item]
  <2>1. Linked' = Pushed
    BY DEF A!PushLink, A!popVars, Linked, Pushed
  <2>2. QED
    BY <2>1 DEF A!PushLink, A!popVars
<1>3. Waiting' /\ Pushed' = Pushed /\ Popped' = Popped
  BY <1>0, <1>2, SpscStill
<1>4. A!TypeOK'
  <2>1. a_next' \in [Items \cup {A!Sentinel} -> A!Links]
    BY <1>0, <1>1, <1>2 DEF A!TypeOK, A!Links
  <2>2. QED
    BY <1>0, <1>2, <2>1 DEF A!TypeOK, A!Links
<1>5. Counted'
  BY <1>0, <1>2, <1>3 DEF Counted
<1>6. LastIsLast'
  BY <1>1, <1>2, <1>3 DEF LastIsLast
<1>7. ~Fresh' /\ (Closing' <=> Closing)
  BY <1>2 DEF Fresh, Closing, A!Null
<1>8. a_prev \in Items \cup {A!Sentinel} /\ a_next'[a_prev] = a_item
      /\ \A x \in Items \cup {A!Sentinel} : x # a_prev => a_next'[x] = a_next[x]
  BY <1>0, <1>2 DEF A!TypeOK
<1>9. CASE Cut
  <2>1. a_prev # A!Sentinel
    BY <1>2, <1>9 DEF Cut, Fresh
  <2>2. a_next'[A!Sentinel] = A!Null
    BY <1>8, <1>9, <2>1 DEF Cut
  <2>3. Cut'
    BY <1>2, <1>3, <1>7, <1>9, <2>2 DEF Cut, A!Sentinel, A!Null
  <2>4. QED
    BY <1>3, <1>4, <1>5, <1>6, <2>3 DEF SpscInv
<1>10. CASE Chain /\ Races
  <2>1. a_next'[a_item] = A!Null
    <3>1. a_prev # a_item
      <4>1. a_item # A!Sentinel
        BY <1>1, SpscConsts
      <4>2. a_prev = a_pushed[Pushed - 1] /\ Pushed > 1 /\ ~Fresh => a_prev # a_item
        <5> SUFFICES ASSUME a_prev = a_pushed[Pushed - 1], Pushed > 1, a_prev # A!Sentinel, ~Fresh
                     PROVE  a_prev # a_item
          BY <1>1, <4>1
        <5>1. CASE Closing
          BY <1>0, <1>1, <1>2, <1>10, <5>1 DEF Races, Waiting, Chain, Closing
        <5>2. CASE ~Closing
          BY <1>0, <1>1, <1>2, <1>10, <5>2 DEF Races, Waiting
        <5>3. QED
          BY <5>1, <5>2
      <4>3. QED
        BY <1>1, <1>2, <4>1, <4>2 DEF Fresh
    <3>2. QED
      BY <1>1, <1>8, <3>1
  <2>2. Chain'
    <3>1. a_cpc = "idle" => a_next'[A!Sentinel] = a_pushed[Popped + 1] /\ Pushed > Popped
      <4> SUFFICES ASSUME a_cpc = "idle" PROVE a_next'[A!Sentinel] = a_pushed[Popped + 1]
        BY <1>1
      <4>1. CASE a_prev = A!Sentinel
        <5>1. Popped = Pushed - 1
          BY <1>2, <1>10, <4>1 DEF Fresh, Races, Closing
        <5>2. QED
          BY <1>1, <1>8, <4>1, <5>1
      <4>2. CASE a_prev # A!Sentinel
        <5>1. Popped + 1 <= Linked
          BY <1>1, <1>2, <1>10, <4>2 DEF Fresh, Races, Closing
        <5>2. a_next[A!Sentinel] = a_pushed[Popped + 1]
          BY <1>1, <1>10, <5>1 DEF Chain
        <5>3. QED
          BY <1>8, <4>2, <5>2
      <4>3. QED
        BY <4>1, <4>2
    <3>2. ~Closing => \A k \in (Popped + 1)..(Pushed - 1) : a_next'[a_pushed[k]] = a_pushed[k + 1]
      <4> SUFFICES ASSUME ~Closing, NEW k \in (Popped + 1)..(Pushed - 1)
                   PROVE  a_next'[a_pushed[k]] = a_pushed[k + 1]
        OBVIOUS
      <4>1. a_prev # A!Sentinel /\ a_prev = a_pushed[Pushed - 1]
        BY <1>1, <1>2, <1>10 DEF Fresh, Races
      <4>2. CASE k = Pushed - 1
        BY <1>1, <1>8, <4>1, <4>2
      <4>3. CASE k < Pushed - 1
        <5>1. k \in (Popped + 1)..Pushed /\ Pushed - 1 \in (Popped + 1)..Pushed /\ k # Pushed - 1
          BY <1>1, <4>3
        <5>2. a_pushed[k] # a_prev /\ a_pushed[k] \in Items
          BY <1>0, <1>1, <4>1, <5>1 DEF Waiting
        <5>3. a_next[a_pushed[k]] = a_pushed[k + 1]
          BY <1>1, <1>10, <4>3 DEF Chain
        <5>4. QED
          BY <1>8, <5>2, <5>3
      <4>4. QED
        BY <1>1, <4>2, <4>3
    <3>3. /\ a_cpc # "idle" => Popped + 1 <= Pushed /\ a_it = a_pushed[Popped + 1]
          /\ a_cpc \in {"count", "spin"} => a_succ = A!Null
          /\ a_cpc = "spin" => Popped + 2 <= Pushed
          /\ a_cpc = "store" /\ a_succ # A!Null => Popped + 2 <= Pushed /\ a_succ = a_pushed[Popped + 2]
      BY <1>1, <1>10 DEF Chain
    <3>4. QED
      BY <1>1, <1>2, <1>3, <1>7, <2>1, <3>1, <3>2, <3>3 DEF Chain, A!Null, A!Sentinel
  <2>3. Races'
    <3>1. Closing => Pushed > Popped + 1 /\ a_raced
      BY <1>2, <1>10 DEF Races
    <3>2. QED
      BY <1>2, <1>3, <1>7, <3>1 DEF Races
  <2>4. QED
    BY <1>3, <1>4, <1>5, <1>6, <2>2, <2>3 DEF SpscInv
<1>11. QED
  BY <1>0, <1>9, <1>10

\* The pop before it is done: it looks at the first item, lowers the count, and
\* waits for the second item if the count says there is one.
LEMMA SpscPopLooks ==
  ASSUME SpscInv, A!PopFirst \/ A!PopCount \/ A!PopSpin
  PROVE  SpscInv'
<1>0. A!TypeOK /\ Waiting /\ Counted /\ LastIsLast /\ (Cut \/ (Chain /\ Races))
  BY DEF SpscInv
<1>1. /\ Popped \in Nat /\ Pushed \in Nat /\ Popped <= Linked /\ Linked <= Pushed
      /\ Linked = (IF a_ppc = "idle" THEN Pushed ELSE Pushed - 1)
      /\ Linked \in Int
      /\ \A k \in 1..Pushed : a_pushed[k] \in Items
  BY <1>0, SpscData DEF Linked, Waiting
<1>2. /\ a_pushed' = a_pushed /\ a_popped' = a_popped /\ Linked' = Linked
      /\ a_ppc' = a_ppc /\ a_item' = a_item /\ a_prev' = a_prev /\ a_last' = a_last
      /\ a_next' = a_next /\ a_raced' = a_raced
  <2>1. a_ppc' = a_ppc /\ a_pushed' = a_pushed
    BY DEF A!PopFirst, A!PopCount, A!PopSpin, A!pushVars
  <2>2. Linked' = Linked
    BY <2>1 DEF Linked, Pushed
  <2>3. QED
    BY <2>1, <2>2 DEF A!PopFirst, A!PopCount, A!PopSpin, A!pushVars
<1>3. Waiting' /\ Pushed' = Pushed /\ Popped' = Popped
  BY <1>0, <1>2, SpscStill
<1>4. LastIsLast'
  BY <1>0, <1>2, <1>3 DEF LastIsLast, A!Sentinel, A!Null
<1>5. Fresh' <=> Fresh
  BY <1>2 DEF Fresh, A!Sentinel
<1>6. Chain /\ Races
  <2> SUFFICES ASSUME Cut PROVE FALSE
    BY <1>0
  <2>1. QED
    BY DEF Cut, A!PopFirst, A!PopCount, A!PopSpin
<1>7. CASE A!PopFirst
  <2>1. a_cpc = "idle" /\ a_cpc' = "count" /\ a_next[A!Sentinel] # A!Null /\ a_succ' = A!Null
        /\ a_it' = a_next[A!Sentinel] /\ a_count' = a_count /\ a_n' = a_n
    BY <1>7 DEF A!PopFirst
  <2>2. Linked > Popped /\ a_it' = a_pushed[Popped + 1]
    BY <1>6, <2>1 DEF Chain
  <2>3. ~Closing /\ ~Closing' /\ ~Fresh
    BY <1>1, <1>6, <2>1, <2>2 DEF Closing, Races, Fresh
  <2>4. A!TypeOK'
    BY <1>0, <1>2, <2>1 DEF A!TypeOK, A!Links, A!Sentinel, A!Null
  <2>5. Counted'
    BY <1>0, <1>2, <1>3, <2>1 DEF Counted
  <2>6. Chain'
    <3>1. /\ \A k \in (Popped + 1)..(Linked - 1) : a_next[a_pushed[k]] = a_pushed[k + 1]
          /\ Linked > Popped => a_next[a_pushed[Linked]] = A!Null
      BY <1>6, <2>3 DEF Chain
    <3>2. QED
      BY <1>1, <1>2, <1>3, <2>1, <2>2, <2>3, <3>1 DEF Chain, A!Null, A!Sentinel
  <2>7. Races'
    BY <1>2, <1>3, <1>5, <1>6, <2>3 DEF Races
  <2>8. QED
    BY <1>3, <1>4, <2>4, <2>5, <2>6, <2>7 DEF SpscInv
<1>8. CASE A!PopCount
  <2>1. /\ a_cpc = "count" /\ a_it' = a_it /\ a_succ' = a_succ
        /\ a_count' = a_count - 1 /\ a_n' = a_count - 1
        /\ a_cpc' = (IF a_n' > 0 THEN "spin" ELSE "store")
    BY <1>8 DEF A!PopCount
  <2>2. a_count = Pushed - Popped /\ Popped + 1 <= Linked /\ a_succ = A!Null /\ ~Closing
    BY <1>0, <1>6, <2>1 DEF Counted, Chain, Closing
  <2>3. A!TypeOK'
    <3>1. a_count' \in 0..MaxPushes /\ a_n' \in 0..MaxPushes
      BY <1>0, <1>1, <2>1, <2>2, SpscConsts DEF A!TypeOK
    <3>2. QED
      BY <1>0, <1>2, <2>1, <3>1 DEF A!TypeOK, A!Links
  <2>4. Counted'
    BY <1>1, <1>3, <2>1, <2>2 DEF Counted
  <2>5. a_ppc # "idle" => Popped + 1 <= Pushed - 1
    BY <1>6, <2>1, <2>2 DEF Races
  <2>6. a_n' > 0 <=> Pushed > Popped + 1
    BY <1>1, <2>1, <2>2
  <2>7. Chain'
    <3>1. /\ \A k \in (Popped + 1)..(Linked - 1) : a_next[a_pushed[k]] = a_pushed[k + 1]
          /\ Linked > Popped => a_next[a_pushed[Linked]] = A!Null
          /\ a_it = a_pushed[Popped + 1]
      BY <1>6, <2>1, <2>2 DEF Chain
    <3>2. a_cpc' = "spin" => Popped + 2 <= Pushed
      BY <1>1, <2>1, <2>6
    <3>3. a_cpc' # "idle" /\ a_succ' = A!Null
      BY <2>1, <2>2
    <3>4. QED
      BY <1>1, <1>2, <1>3, <2>2, <2>1, <3>1, <3>2, <3>3 DEF Chain, A!Null, A!Sentinel
  <2>8. Races'
    <3>1. a_cpc' = "store" => Pushed = Popped + 1 /\ a_ppc = "idle"
      BY <1>1, <2>1, <2>2, <2>5, <2>6
    <3>2. ~Fresh
      BY <1>6, <2>1 DEF Races, Closing
    <3>3. QED
      BY <1>1, <1>2, <1>3, <1>5, <2>5, <3>1, <3>2 DEF Races, Closing
  <2>9. QED
    BY <1>3, <1>4, <2>3, <2>4, <2>7, <2>8 DEF SpscInv
<1>9. CASE A!PopSpin
  <2>1. /\ a_cpc = "spin" /\ a_cpc' = "store" /\ a_it' = a_it /\ a_succ' = a_next[a_it]
        /\ a_next[a_it] # A!Null /\ a_count' = a_count /\ a_n' = a_n
    BY <1>9 DEF A!PopSpin
  <2>2. /\ Popped + 1 <= Linked /\ a_it = a_pushed[Popped + 1] /\ ~Closing /\ ~Closing'
        /\ \A k \in (Popped + 1)..(Linked - 1) : a_next[a_pushed[k]] = a_pushed[k + 1]
        /\ Linked > Popped => a_next[a_pushed[Linked]] = A!Null
    BY <1>6, <2>1 DEF Chain, Closing, A!Null
  <2>3. Popped + 2 <= Linked /\ a_succ' = a_pushed[Popped + 2]
    <3>1. Linked # Popped + 1
      BY <1>1, <2>1, <2>2
    <3>2. a_next[a_pushed[Popped + 1]] = a_pushed[(Popped + 1) + 1]
      BY <1>1, <2>2, <3>1
    <3>3. QED
      BY <1>1, <2>1, <2>2, <3>1, <3>2
  <2>4. A!TypeOK'
    <3>1. a_succ' \in A!Links
      BY <1>1, <2>3 DEF A!Links
    <3>2. QED
      BY <1>0, <1>2, <2>1, <3>1 DEF A!TypeOK, A!Links
  <2>5. Counted'
    BY <1>0, <1>3, <2>1 DEF Counted
  <2>6. Chain'
    BY <1>2, <1>3, <2>1, <2>2, <2>3 DEF Chain, A!Null, A!Sentinel
  <2>7. Races'
    BY <1>2, <1>3, <1>5, <1>6, <2>1, <2>2 DEF Races
  <2>8. QED
    BY <1>3, <1>4, <2>4, <2>5, <2>6, <2>7 DEF SpscInv
<1>10. QED
  BY <1>7, <1>8, <1>9

\* The pop is done: the sentinel takes the second item or nothing.
LEMMA SpscPopStore ==
  ASSUME SpscInv, A!PopStore
  PROVE  SpscInv'
<1>0. A!TypeOK /\ Waiting /\ Counted /\ LastIsLast /\ (Cut \/ (Chain /\ Races))
  BY DEF SpscInv
<1>1. /\ Popped \in Nat /\ Pushed \in Nat /\ Popped <= Linked /\ Linked <= Pushed
      /\ Linked = (IF a_ppc = "idle" THEN Pushed ELSE Pushed - 1) /\ Linked \in Int
      /\ \A k \in 1..Pushed : a_pushed[k] \in Items
  BY <1>0, SpscData DEF Linked, Waiting
<1>2. /\ a_pushed' = a_pushed /\ a_popped' = Append(a_popped, a_it) /\ Linked' = Linked
      /\ a_ppc' = a_ppc /\ a_item' = a_item /\ a_prev' = a_prev /\ a_last' = a_last
      /\ a_raced' = a_raced /\ a_it' = a_it /\ a_n' = a_n /\ a_succ' = a_succ
      /\ a_count' = a_count /\ a_cpc = "store" /\ a_cpc' = "idle"
      /\ a_next' = [a_next EXCEPT ![A!Sentinel] = a_succ]
  <2>1. a_ppc' = a_ppc /\ a_pushed' = a_pushed
    BY DEF A!PopStore, A!pushVars
  <2>2. Linked' = Linked
    BY <2>1 DEF Linked, Pushed
  <2>3. QED
    BY <2>1, <2>2 DEF A!PopStore, A!pushVars
<1>3. Chain /\ Races
  BY <1>0, <1>2 DEF Cut
<1>4. Popped + 1 <= Linked /\ a_it = a_pushed[Popped + 1] /\ a_it \in Items
  <2>1. Popped + 1 <= Linked /\ a_it = a_pushed[Popped + 1]
    BY <1>2, <1>3 DEF Chain
  <2>2. QED
    BY <1>1, <2>1
<1>5. /\ Pushed' = Pushed /\ Popped' = Popped + 1
      /\ \A k \in 1..Popped : a_popped'[k] = a_popped[k]
      /\ a_popped'[Popped + 1] = a_it
      /\ a_popped' \in Seq(Items)
  <2>1. a_popped \in Seq(Items)
    BY <1>0 DEF A!TypeOK
  <2>2. QED
    BY <1>2, <1>4, <2>1 DEF Pushed, Popped
<1>6. Waiting'
  <2>1. \A k \in 1..Popped' : a_popped'[k] = a_pushed'[k]
    <3>1. \A k \in 1..Popped : a_popped[k] = a_pushed[k]
      BY <1>0 DEF Waiting
    <3>2. a_pushed' = a_pushed
      BY <1>2
    <3>3. QED
      BY <1>1, <1>4, <1>5, <3>1, <3>2
  <2>2. \A j, k \in (Popped' + 1)..Pushed' : a_pushed'[j] = a_pushed'[k] => j = k
    <3>1. \A j, k \in (Popped + 1)..Pushed : a_pushed[j] = a_pushed[k] => j = k
      BY <1>0 DEF Waiting
    <3>2. \A k \in (Popped' + 1)..Pushed' : k \in (Popped + 1)..Pushed
      BY <1>1, <1>5
    <3>3. QED
      BY <1>2, <3>1, <3>2
  <2>3. Popped' <= Linked' /\ Pushed' <= MaxPushes
    BY <1>0, <1>2, <1>4, <1>5 DEF Waiting
  <2>4. QED
    BY <2>1, <2>2, <2>3 DEF Waiting
<1>7. /\ \A x \in Items : a_next'[x] = a_next[x]
      /\ a_next'[A!Sentinel] = a_succ
      /\ a_next' \in [Items \cup {A!Sentinel} -> A!Links]
  <2>1. a_next \in [Items \cup {A!Sentinel} -> A!Links] /\ a_succ \in A!Links
    BY <1>0 DEF A!TypeOK
  <2>2. QED
    BY <1>2, <2>1, SpscConsts
<1>8. A!TypeOK'
  BY <1>0, <1>2, <1>5, <1>7 DEF A!TypeOK, A!Links, A!Sentinel
<1>9. Counted'
  BY <1>0, <1>1, <1>2, <1>5 DEF Counted
<1>10. LastIsLast'
  <2>1. a_ppc # "idle" => a_item \in Items
    BY <1>0 DEF A!TypeOK
  <2>2. a_ppc \in {"xchg", "link"} => a_next'[a_item] = A!Null
    BY <1>0, <1>7, <2>1 DEF LastIsLast
  <2>3. QED
    BY <1>0, <1>2, <1>5, <2>2 DEF LastIsLast, A!Sentinel, A!Null
<1>11. (Fresh' <=> Fresh) /\ ~Closing'
  BY <1>2 DEF Fresh, Closing, A!Sentinel
<1>12. CASE a_succ # A!Null
  <2>1. /\ Popped + 2 <= Linked /\ a_succ = a_pushed[Popped + 2] /\ ~Closing
        /\ \A k \in (Popped + 1)..(Linked - 1) : a_next[a_pushed[k]] = a_pushed[k + 1]
        /\ a_next[a_pushed[Linked]] = A!Null
    BY <1>1, <1>2, <1>3, <1>12 DEF Chain, Closing
  <2>2. Chain'
    <3>1. a_next'[A!Sentinel] = a_pushed[Popped' + 1] /\ Linked > Popped'
      BY <1>1, <1>5, <1>7, <2>1
    <3>2. \A k \in (Popped' + 1)..(Linked - 1) : a_next'[a_pushed[k]] = a_pushed[k + 1]
      BY <1>1, <1>5, <1>7, <2>1
    <3>3. a_next'[a_pushed[Linked]] = A!Null
      BY <1>1, <1>7, <2>1
    <3>4. QED
      BY <1>2, <1>5, <1>11, <3>1, <3>2, <3>3 DEF Chain, A!Sentinel, A!Null
  <2>3. Races'
    <3>1. ~Fresh
      BY <1>2, <1>3, <2>1 DEF Races
    <3>2. a_ppc # "idle" => Popped' + 1 <= Pushed - 1
      BY <1>1, <1>5, <2>1
    <3>3. QED
      BY <1>2, <1>5, <1>11, <3>1, <3>2 DEF Races
  <2>4. QED
    BY <1>6, <1>8, <1>9, <1>10, <2>2, <2>3 DEF SpscInv
<1>13. CASE a_succ = A!Null /\ (Fresh \/ Pushed = Popped + 1)
  <2>1. Closing
    BY <1>2, <1>13 DEF Closing
  <2>2. Linked = Popped'
    BY <1>1, <1>2, <1>3, <1>4, <1>5, <1>13, <2>1 DEF Races, Fresh
  <2>3. Chain'
    BY <1>1, <1>2, <1>5, <1>7, <1>11, <1>13, <2>2 DEF Chain, A!Sentinel, A!Null
  <2>4. Races'
    <3>1. Fresh => Popped' = Pushed - 1
      BY <1>1, <1>2, <1>3, <1>5 DEF Races
    <3>2. ~Fresh => a_ppc = "idle"
      BY <1>1, <1>3, <1>13, <2>1 DEF Races
    <3>3. QED
      BY <1>2, <1>5, <1>11, <3>1, <3>2 DEF Races
  <2>5. QED
    BY <1>6, <1>8, <1>9, <1>10, <2>3, <2>4 DEF SpscInv
<1>14. CASE a_succ = A!Null /\ ~Fresh /\ Pushed # Popped + 1
  <2>1. Pushed > Popped + 1 /\ a_raced
    BY <1>2, <1>3, <1>14 DEF Races, Closing
  <2>2. Cut'
    BY <1>1, <1>2, <1>5, <1>7, <1>11, <1>14, <2>1 DEF Cut, A!Sentinel, A!Null
  <2>3. QED
    BY <1>6, <1>8, <1>9, <1>10, <2>2 DEF SpscInv
<1>15. QED
  BY <1>12, <1>13, <1>14

\* The queue between one producer and one consumer hands every item over once
\* and in order, also one that is pushed again, for any items and any number of
\* pushes; and it loses none unless a push meets the pop of the last item.
THEOREM SpscQueueKept == A!Spec => []SpscKept
<1>1. SpscInv /\ [A!Next]_A!vars => SpscInv'
  <2> SUFFICES ASSUME SpscInv, [A!Next]_A!vars PROVE SpscInv'
    OBVIOUS
  <2>1. CASE UNCHANGED A!vars
    BY <2>1 DEF A!vars, A!pushVars, A!popVars, SpscInv, A!TypeOK, A!Links, A!Sentinel, A!Null, Waiting,
       Counted, LastIsLast, Cut, Chain, Races, Closing, Fresh, Linked, Pushed, Popped
  <2>2. ASSUME NEW x \in Items, A!PushCount(x) PROVE SpscInv'
    BY <2>2, SpscPushCount
  <2>3. CASE A!PushInit \/ A!PushClear
    BY <2>3, SpscPushReset
  <2>4. CASE A!PushExchange
    BY <2>4, SpscPushExchange
  <2>5. CASE A!PushLink
    BY <2>5, SpscPushLink
  <2>6. CASE A!PopFirst \/ A!PopCount \/ A!PopSpin
    BY <2>6, SpscPopLooks
  <2>7. CASE A!PopStore
    BY <2>7, SpscPopStore
  <2>8. QED
    BY <2>1, <2>2, <2>3, <2>4, <2>5, <2>6, <2>7 DEF A!Next, A!Pushing, A!Popping
<1>2. SpscInv => SpscKept
  <2> SUFFICES ASSUME SpscInv PROVE SpscKept
    OBVIOUS
  <2>0. A!TypeOK /\ Waiting /\ Counted /\ (Cut \/ (Chain /\ Races))
    BY DEF SpscInv
  <2>1. /\ Popped \in Nat /\ Pushed \in Nat /\ Popped <= Pushed
        /\ \A k \in 1..Pushed : a_pushed[k] \in Items
    BY <2>0, SpscData
  <2>2. A!PoppedInOrder
    BY <2>0, <2>1 DEF A!PoppedInOrder, Waiting, Popped, Pushed
  <2>3. A!NothingLostUnlessRaced
    <3> SUFFICES ASSUME a_ppc = "idle", a_cpc = "idle", ~a_raced
                 PROVE  a_count > 0 <=> a_next[A!Sentinel] # A!Null
      BY DEF A!NothingLostUnlessRaced
    <3>1. Chain
      BY <2>0 DEF Cut
    <3>2. a_next[A!Sentinel] = (IF Pushed > Popped THEN a_pushed[Popped + 1] ELSE A!Null)
      BY <3>1 DEF Chain, Linked
    <3>3. a_count = Pushed - Popped
      BY <2>0 DEF Counted
    <3>4. QED
      BY <2>1, <3>2, <3>3, SpscConsts
  <2>4. QED
    BY <2>0, <2>2, <2>3 DEF SpscKept
<1>3. QED
  BY <1>1, <1>2, SpscInit, PTL DEF A!Spec
=============================================================================
