-------------------------- MODULE EvThread_proofs ---------------------------
(* What the event threads of lib/event/ev_thread.c and the registrations in  *)
(* the event loop keep, for any set of event threads, any other threads that *)
(* wake them, and any number of runs and of wakes.                           *)
EXTENDS MCEvThread, SequenceTheorems, TLAPS

-----------------------------------------------------------------------------
(* The inductive invariant *)

Once(p) == IF p THEN 1 ELSE 0

\* What a list of registrations holds of an event thread: nothing; a last item,
\* that it be watched; an item that it be watched no more.
NoItem(l, t) == \A i \in 1..Len(l) : l[i].fd # t
IsLast(l, t, i) == l[i].fd = t /\ \A j \in 1..Len(l) : j > i => l[j].fd # t
HasLast(l, t) == NoItem(l, t) \/ \E i \in 1..Len(l) : IsLast(l, t, i)
OnLast(l, t) == \E i \in 1..Len(l) : IsLast(l, t, i) /\ l[i].on
OffIn(l, t) == \E i \in 1..Len(l) : l[i].fd = t /\ ~l[i].on

\* A thread is not registered twice with no deregistration between.
Alternates(l, t) ==
  \A i, j \in 1..Len(l) :
    l[i].fd = t /\ l[i].on /\ j > i /\ l[j].fd = t =>
      \E k \in 1..Len(l) : k > i /\ l[k].fd = t /\ ~l[k].on

Lists == \A t \in Thds : HasLast(regs, t) /\ Alternates(regs, t)

\* The list and the loop agree with the thread.
Settled ==
  \A t \in Thds :
    OnLast(regs, t) \/ (NoItem(regs, t) /\ t \in listening) <=> tpc[t] \in Registered

\* Whom Main is about to join, and whom it is still about to wake for that.
Cancelling(t) ==
  upc[Main] \in {"wake", "stop", "write", "start", "join"} /\ on[Main] = t
CancelWrites(t) == upc[Main] \in {"wake", "stop", "write"} /\ on[Main] = t

\* A thread that has been run goes on until Main cancels it, and is gone when
\* Main has joined it.
LivesOf(t) ==
  /\ run[t] => ~Cancelling(t) /\ tpc[t] \notin {"none", "down", "dereg", "retract",
                                                  "disarm", "ended"}
  /\ ~run[t] => Cancelling(t) \/ tpc[t] = "none"
  /\ runs[t] = 0 => ~run[t] /\ ~Cancelling(t) /\ tpc[t] = "none" /\ ~working[t]
WakersWake ==
  /\ upc[Main] \in {"wake", "stop", "write", "start", "join"} => op[Main] = "cancel"
  /\ \A u \in Wakers : upc[u] # "idle" => upc[u] \in {"stop", "write", "start"}
                                           /\ op[u] = "wake" /\ runs[on[u]] > 0
Lives == (\A t \in Thds : LivesOf(t)) /\ WakersWake

\* The loop polls when it has dispatched everything.
Polls == lpc = "wait" => fired = {}

\* Before its first run nothing is owed to a thread, and in the first run it is
\* registered once.
FirstRunOf(t) ==
  /\ runs[t] = 0 =>
       /\ works[t] = 0 /\ sem[t] = 0 /\ due[t] = 0 /\ t \notin armed
       /\ t \notin fired \cup edges \cup written \cup listening /\ NoItem(regs, t)
  /\ runs[t] = 1 /\ tpc[t] \in {"begin"} \cup Registered =>
       ~OffIn(regs, t) /\ (NoItem(regs, t) \/ t \notin listening)
  /\ runs[t] = 1 /\ tpc[t] = "begin" => NoItem(regs, t) /\ t \notin listening
FirstRun == \A t \in Thds : FirstRunOf(t)

\* An edge that the loop will report: not one that the list takes back first.
Edge(t) == t \in edges /\ ~(lpc = "regs" /\ OffIn(regs, t))

\* A registration that makes an edge of an eventfd that was written.
Remade(t) ==
  /\ tpc[t] = "begin" \/ OnLast(regs, t)
  /\ t \in written \/ runs[t] >= 2

\* The works a thread has done, and those it may still do with nobody asking.
Owed(t) ==
  works[t] + sem[t] + due[t] + Once(tpc[t] = "recheck") + Once(t \in fired)
    + Once(Edge(t)) + Once(Remade(t)) + Once(CancelWrites(t))
Granted(t) == events[t] + 2 * (runs[t] - 1) + Once(~run[t])

Budget == \A t \in Thds : runs[t] > 0 => Owed(t) <= Granted(t)

ThdInv ==
  /\ TypeOK /\ RegistrationTold /\ WorkNeedsEvent
  /\ Lists /\ Settled /\ Lives /\ Polls /\ FirstRun /\ Budget

-----------------------------------------------------------------------------
(* The list of registrations *)

Items == [fd : Fds, on : BOOLEAN]

\* An item at the end of the list is the last one of its thread.
LEMMA ItemAppended ==
  ASSUME NEW l \in Seq(Items), NEW it \in Items, NEW t \in Fds,
         NEW m, m = Append(l, it)
  PROVE  /\ t # it.fd => /\ NoItem(m, t) <=> NoItem(l, t)
                         /\ OnLast(m, t) <=> OnLast(l, t)
                         /\ OffIn(m, t) <=> OffIn(l, t)
                         /\ HasLast(l, t) => HasLast(m, t)
                         /\ Alternates(l, t) => Alternates(m, t)
         /\ t = it.fd => /\ ~NoItem(m, t) /\ HasLast(m, t)
                         /\ OnLast(m, t) <=> it.on
                         /\ OffIn(m, t) <=> OffIn(l, t) \/ ~it.on
                         /\ HasLast(l, t) /\ Alternates(l, t) /\ (it.on => ~OnLast(l, t))
                              => Alternates(m, t)
<1>1. /\ m \in Seq(Items) /\ Len(l) \in Nat /\ Len(m) = Len(l) + 1
      /\ \A i \in 1..Len(l) : m[i] = l[i] /\ i \in 1..Len(m)
      /\ m[Len(m)].fd = it.fd /\ m[Len(m)].on = it.on /\ Len(m) \in 1..Len(m)
      /\ \A i \in 1..Len(m) : i \in 1..Len(l) \/ i = Len(m)
      /\ \A i \in 1..Len(l) : Len(m) > i /\ i # Len(m)
  <2> HIDE DEF Items
  <2>1. /\ m \in Seq(Items) /\ Len(l) \in Nat /\ Len(m) = Len(l) + 1
        /\ \A i \in 1..Len(l) : m[i] = l[i]
        /\ m[Len(m)] = it
    BY AppendProperties
  <2>2. QED
    BY <2>1
<1> HIDE DEF Items
<1>2. ASSUME t # it.fd
      PROVE  /\ NoItem(m, t) <=> NoItem(l, t)
             /\ \A i \in 1..Len(l) : IsLast(m, t, i) <=> IsLast(l, t, i)
             /\ ~IsLast(m, t, Len(m))
             /\ OffIn(m, t) <=> OffIn(l, t)
  <2>1. NoItem(m, t) <=> NoItem(l, t)
    BY <1>1, <1>2 DEF NoItem
  <2>2. \A i \in 1..Len(l) : IsLast(m, t, i) <=> IsLast(l, t, i)
    BY <1>1, <1>2 DEF IsLast
  <2>3. ~IsLast(m, t, Len(m))
    BY <1>1, <1>2 DEF IsLast
  <2>4. OffIn(m, t) <=> OffIn(l, t)
    BY <1>1, <1>2 DEF OffIn
  <2>5. QED
    BY <2>1, <2>2, <2>3, <2>4
<1>3. ASSUME t # it.fd
      PROVE  /\ OnLast(m, t) <=> OnLast(l, t)
             /\ HasLast(l, t) => HasLast(m, t)
  BY <1>1, <1>2, <1>3 DEF OnLast, HasLast
<1>4. ASSUME t # it.fd, Alternates(l, t) PROVE Alternates(m, t)
  BY <1>1, <1>4 DEF Alternates
<1>5. ASSUME t = it.fd
      PROVE  /\ ~NoItem(m, t) /\ IsLast(m, t, Len(m))
             /\ \A i \in 1..Len(m) : IsLast(m, t, i) => i = Len(m)
             /\ OffIn(m, t) <=> OffIn(l, t) \/ ~it.on
  <2>1. ~NoItem(m, t)
    BY <1>1, <1>5 DEF NoItem
  <2>2. IsLast(m, t, Len(m))
    BY <1>1, <1>5 DEF IsLast
  <2>3. \A i \in 1..Len(m) : IsLast(m, t, i) => i = Len(m)
    BY <1>1, <1>5 DEF IsLast
  <2>4. OffIn(m, t) <=> OffIn(l, t) \/ ~it.on
    BY <1>1, <1>5 DEF OffIn
  <2>5. QED
    BY <2>1, <2>2, <2>3, <2>4
<1>6. ASSUME t = it.fd PROVE HasLast(m, t) /\ (OnLast(m, t) <=> it.on)
  BY <1>1, <1>5, <1>6 DEF HasLast, OnLast
<1>7. ASSUME t = it.fd, HasLast(l, t), Alternates(l, t), it.on => ~OnLast(l, t)
      PROVE  Alternates(m, t)
  <2> SUFFICES ASSUME NEW i \in 1..Len(m), NEW j \in 1..Len(m),
                      m[i].fd = t, m[i].on, j > i, m[j].fd = t
               PROVE  \E k \in 1..Len(m) : k > i /\ m[k].fd = t /\ ~m[k].on
    BY DEF Alternates
  <2>1. i \in 1..Len(l) /\ l[i].fd = t /\ l[i].on
    BY <1>1
  <2>2. CASE ~it.on
    BY <1>1, <1>7, <2>1, <2>2
  <2>3. CASE it.on
    <3>1. PICK k \in 1..Len(l) : IsLast(l, t, k) /\ ~l[k].on
      BY <1>7, <2>1, <2>3 DEF HasLast, NoItem, OnLast
    <3>2. k > i
      BY <1>1, <2>1, <3>1 DEF IsLast
    <3>3. QED
      BY <1>1, <3>1, <3>2 DEF IsLast
  <2>4. QED
    BY <2>2, <2>3
<1>8. QED
  BY <1>2, <1>3, <1>4, <1>5, <1>6, <1>7

\* The item that the loop takes is the first one.
LEMMA ItemTaken ==
  ASSUME NEW l \in Seq(Items), l # <<>>, NEW t \in Fds, NEW h, h = Head(l),
         NEW m, m = Tail(l)
  PROVE  /\ t # h.fd => /\ NoItem(m, t) <=> NoItem(l, t)
                        /\ OnLast(m, t) <=> OnLast(l, t)
                        /\ OffIn(m, t) <=> OffIn(l, t)
                        /\ HasLast(l, t) => HasLast(m, t)
         /\ t = h.fd => /\ ~NoItem(l, t)
                        /\ OnLast(l, t) <=> OnLast(m, t) \/ (NoItem(m, t) /\ h.on)
                        /\ OffIn(l, t) <=> OffIn(m, t) \/ ~h.on
                        /\ HasLast(l, t) => HasLast(m, t)
                        /\ h.on /\ Alternates(l, t) => NoItem(m, t) \/ OffIn(m, t)
         /\ Alternates(l, t) => Alternates(m, t)
<1>1. /\ m \in Seq(Items) /\ Len(l) \in Nat /\ Len(m) = Len(l) - 1 /\ Len(l) > 0
      /\ \A i \in 1..Len(m) : m[i] = l[i + 1] /\ i + 1 \in 1..Len(l) /\ i + 1 > 1
      /\ l[1] = h /\ 1 \in 1..Len(l)
      /\ \A i \in 1..Len(l) : i = 1 \/ (i - 1 \in 1..Len(m) /\ m[i - 1] = l[i] /\ i > 1)
  OBVIOUS
<1> HIDE DEF Items
<1>2. NoItem(l, t) <=> NoItem(m, t) /\ t # h.fd
  BY <1>1 DEF NoItem
<1>3. OffIn(l, t) <=> OffIn(m, t) \/ (t = h.fd /\ ~h.on)
  BY <1>1 DEF OffIn
<1>4. ASSUME NEW i \in 1..Len(m) PROVE IsLast(m, t, i) <=> IsLast(l, t, i + 1)
  <2>1. ASSUME IsLast(m, t, i) PROVE IsLast(l, t, i + 1)
    <3>1. ASSUME NEW j \in 1..Len(l), j > i + 1 PROVE l[j].fd # t
      <4>1. j - 1 \in 1..Len(m) /\ m[j - 1] = l[j] /\ j - 1 > i
        BY <1>1, <3>1
      <4>2. QED
        BY <2>1, <4>1 DEF IsLast
    <3>2. QED
      BY <1>1, <2>1, <3>1 DEF IsLast
  <2>2. ASSUME IsLast(l, t, i + 1) PROVE IsLast(m, t, i)
    <3>1. ASSUME NEW j \in 1..Len(m), j > i PROVE m[j].fd # t
      <4>1. j + 1 \in 1..Len(l) /\ m[j] = l[j + 1] /\ j + 1 > i + 1
        BY <1>1, <3>1
      <4>2. QED
        BY <2>2, <4>1 DEF IsLast
    <3>2. QED
      BY <1>1, <2>2, <3>1 DEF IsLast
  <2>3. QED
    BY <2>1, <2>2
<1>5. IsLast(l, t, 1) <=> t = h.fd /\ NoItem(m, t)
  <2>1. ASSUME IsLast(l, t, 1) PROVE t = h.fd /\ NoItem(m, t)
    <3>1. ASSUME NEW i \in 1..Len(m) PROVE m[i].fd # t
      <4>1. i + 1 \in 1..Len(l) /\ m[i] = l[i + 1] /\ i + 1 > 1
        BY <1>1, <3>1
      <4>2. QED
        BY <2>1, <4>1 DEF IsLast
    <3>2. QED
      BY <1>1, <2>1, <3>1 DEF IsLast, NoItem
  <2>2. ASSUME t = h.fd, NoItem(m, t) PROVE IsLast(l, t, 1)
    <3>1. ASSUME NEW j \in 1..Len(l), j > 1 PROVE l[j].fd # t
      <4>1. j - 1 \in 1..Len(m) /\ m[j - 1] = l[j]
        BY <1>1, <3>1
      <4>2. QED
        BY <2>2, <4>1 DEF NoItem
    <3>2. QED
      BY <1>1, <2>2, <3>1 DEF IsLast
  <2>3. QED
    BY <2>1, <2>2
<1>6. OnLast(l, t) <=> OnLast(m, t) \/ (t = h.fd /\ NoItem(m, t) /\ h.on)
  <2>1. ASSUME OnLast(l, t) PROVE OnLast(m, t) \/ (t = h.fd /\ NoItem(m, t) /\ h.on)
    <3>1. PICK i \in 1..Len(l) : IsLast(l, t, i) /\ l[i].on
      BY <2>1 DEF OnLast
    <3>2. CASE i = 1
      BY <1>1, <1>5, <3>1, <3>2
    <3>3. CASE i # 1
      <4>1. i - 1 \in 1..Len(m) /\ m[i - 1] = l[i] /\ (i - 1) + 1 = i
        BY <1>1, <3>3
      <4>2. IsLast(m, t, i - 1)
        BY <1>4, <3>1, <4>1
      <4>3. QED
        BY <3>1, <4>1, <4>2 DEF OnLast
    <3>4. QED
      BY <3>2, <3>3
  <2>2. ASSUME OnLast(m, t) PROVE OnLast(l, t)
    <3>1. PICK i \in 1..Len(m) : IsLast(m, t, i) /\ m[i].on
      BY <2>2 DEF OnLast
    <3>2. IsLast(l, t, i + 1) /\ i + 1 \in 1..Len(l) /\ l[i + 1].on
      BY <1>1, <1>4, <3>1
    <3>3. QED
      BY <3>2 DEF OnLast
  <2>3. ASSUME t = h.fd, NoItem(m, t), h.on PROVE OnLast(l, t)
    BY <1>1, <1>5, <2>3 DEF OnLast
  <2>4. QED
    BY <2>1, <2>2, <2>3
<1>7. ASSUME HasLast(l, t) PROVE HasLast(m, t)
  <2>1. CASE NoItem(l, t)
    BY <1>2, <2>1 DEF HasLast
  <2>2. CASE ~NoItem(l, t)
    <3>1. PICK i \in 1..Len(l) : IsLast(l, t, i)
      BY <1>7, <2>2 DEF HasLast
    <3>2. CASE i = 1
      BY <1>5, <3>1, <3>2 DEF HasLast
    <3>3. CASE i # 1
      <4>1. i - 1 \in 1..Len(m) /\ (i - 1) + 1 = i
        BY <1>1, <3>3
      <4>2. IsLast(m, t, i - 1)
        BY <1>4, <3>1, <4>1
      <4>3. QED
        BY <4>1, <4>2 DEF HasLast
    <3>4. QED
      BY <3>2, <3>3
  <2>3. QED
    BY <2>1, <2>2
<1>8. ASSUME Alternates(l, t) PROVE Alternates(m, t)
  <2> SUFFICES ASSUME NEW i \in 1..Len(m), NEW j \in 1..Len(m),
                      m[i].fd = t, m[i].on, j > i, m[j].fd = t
               PROVE  \E k \in 1..Len(m) : k > i /\ m[k].fd = t /\ ~m[k].on
    BY DEF Alternates
  <2>1. PICK k \in 1..Len(l) : k > i + 1 /\ l[k].fd = t /\ ~l[k].on
    BY <1>1, <1>8 DEF Alternates
  <2>2. k - 1 \in 1..Len(m) /\ m[k - 1] = l[k] /\ k - 1 > i
    BY <1>1, <2>1
  <2>3. QED
    BY <2>1, <2>2
<1>9. ASSUME t = h.fd, h.on, Alternates(l, t), ~NoItem(m, t) PROVE OffIn(m, t)
  <2>1. PICK j \in 1..Len(m) : m[j].fd = t
    BY <1>9 DEF NoItem
  <2>2. PICK k \in 1..Len(l) : k > 1 /\ l[k].fd = t /\ ~l[k].on
    BY <1>1, <1>9, <2>1 DEF Alternates
  <2>3. QED
    BY <1>1, <2>2 DEF OffIn
<1>10. QED
  BY <1>2, <1>3, <1>6, <1>7, <1>8, <1>9

\* A list with no item of a thread holds neither.
LEMMA NoItemHolds ==
  ASSUME NEW l, NEW t PROVE NoItem(l, t) => ~OnLast(l, t) /\ ~OffIn(l, t)
BY DEF NoItem, OnLast, OffIn, IsLast

\* What a registration does to the list, and what the loop takes from it.
LEMMA ListGrows ==
  ASSUME ThdInv, NEW f \in Thds, NEW b \in BOOLEAN, ListReg(f, b), NEW t \in Thds
  PROVE  /\ t # f => /\ NoItem(regs', t) <=> NoItem(regs, t)
                     /\ OnLast(regs', t) <=> OnLast(regs, t)
                     /\ OffIn(regs', t) <=> OffIn(regs, t)
                     /\ HasLast(regs, t) => HasLast(regs', t)
                     /\ Alternates(regs, t) => Alternates(regs', t)
         /\ t = f => /\ ~NoItem(regs', t) /\ HasLast(regs', t)
                     /\ OnLast(regs', t) <=> b
                     /\ OffIn(regs', t) <=> OffIn(regs, t) \/ ~b
                     /\ HasLast(regs, t) /\ Alternates(regs, t) /\ (b => ~OnLast(regs, t))
                          => Alternates(regs', t)
<1>1. regs \in Seq(Items) /\ regs' = Append(regs, [fd |-> f, on |-> b])
  BY DEF ThdInv, TypeOK, LoopTypeOK, ListReg, Items
<1> DEFINE it == [fd |-> f, on |-> b]
<1>2. it \in Items /\ it.fd = f /\ it.on = b /\ t \in Fds /\ regs' = Append(regs, it)
  BY <1>1 DEF Thds, Items
<1> HIDE DEF it, Items
<1>3. QED
  BY <1>1, <1>2, ItemAppended

LEMMA LoopTakes ==
  ASSUME ThdInv, LoopReg, NEW h, h = Head(regs), NEW t \in Thds
  PROVE  /\ h.fd \in Thds /\ h.on \in BOOLEAN
         /\ h.on => /\ listening' = listening \cup {h.fd}
                    /\ edges' = edges \cup ({h.fd} \cap written)
         /\ ~h.on => listening' = listening \ {h.fd} /\ edges' = edges \ {h.fd}
         /\ t # h.fd => /\ NoItem(regs', t) <=> NoItem(regs, t)
                        /\ OnLast(regs', t) <=> OnLast(regs, t)
                        /\ OffIn(regs', t) <=> OffIn(regs, t)
                        /\ HasLast(regs, t) => HasLast(regs', t)
         /\ t = h.fd => /\ ~NoItem(regs, t)
                        /\ OnLast(regs, t) <=> OnLast(regs', t) \/ (NoItem(regs', t) /\ h.on)
                        /\ OffIn(regs, t) <=> OffIn(regs', t) \/ ~h.on
                        /\ HasLast(regs, t) => HasLast(regs', t)
                        /\ h.on /\ Alternates(regs, t)
                             => NoItem(regs', t) \/ OffIn(regs', t)
         /\ Alternates(regs, t) => Alternates(regs', t)
<1>1. /\ regs \in Seq([fd : Fds, on : BOOLEAN]) /\ regs # <<>>
      /\ regs' = Tail(regs) /\ Handle(h)
  BY DEF ThdInv, TypeOK, LoopTypeOK, LoopReg
<1>2. h \in [fd : Fds, on : BOOLEAN]
  BY ONLY <1>1, h = Head(regs), HeadTailProperties
<1>3. /\ h.fd \in Thds /\ h.on \in BOOLEAN
      /\ h.on => /\ listening' = listening \cup {h.fd}
                 /\ edges' = edges \cup ({h.fd} \cap written)
      /\ ~h.on => listening' = listening \ {h.fd} /\ edges' = edges \ {h.fd}
  BY <1>1, <1>2 DEF Handle, Thds
<1>4. regs \in Seq(Items)
  BY <1>1 DEF Items
<1> HIDE DEF ThdInv, Items, LoopReg, Handle
<1>5. QED
  BY <1>1, <1>3, <1>4, ItemTaken DEF Thds

\* Only these steps change the list.
LEMMA ListSteps ==
  [Next]_vars => \/ regs' = regs /\ listening' = listening
                 \/ LoopReg /\ tpc' = tpc
                 \/ \E t \in Thds : ThdReg(t) \/ ThdDereg(t)
BY DEF Next, Loop, LoopStep, Working, ThdStep, Waking, vars, Dispatch, LoopDispatch, Calls,
     Post, LoopStart, LoopTest, LoopPoll, LoopDispatchOwn, LoopRegsDone, Exit, LoopExit,
     Move, RunReturn, CancelWake, CancelJoin, ExitJoin, LoopJoined, TimerExpire, TimerCall,
     Goto, ThdAnnounce, AnnounceReg, ThdArm, ThdUp, ThdCheck, ThdWake, ThdTimeout, ThdWork,
     ThdSkip, ThdDown, ThdRetract, ThdDisarm, Run, At, Cancel, Wake, WakeStop, WakeWrite,
     WriteFd, Told, WakeStart, loopVars, thdVars, userVars, history

\* The last item of a thread is one item, and registrations alternate.
LEMMA ListsStep == ThdInv /\ [Next]_vars => Lists'
<1> SUFFICES ASSUME ThdInv, [Next]_vars, NEW t \in Thds
             PROVE  HasLast(regs', t) /\ Alternates(regs', t)
  BY DEF Lists
<1>1. HasLast(regs, t) /\ Alternates(regs, t)
  BY DEF ThdInv, Lists
<1>2. CASE regs' = regs
  BY <1>1, <1>2
<1>3. CASE LoopReg
  BY <1>1, <1>3, LoopTakes
<1>4. ASSUME NEW f \in Thds, ThdReg(f)
      PROVE  HasLast(regs', t) /\ Alternates(regs', t)
  <2>1. ListReg(f, TRUE) /\ ~OnLast(regs, f)
    BY <1>4 DEF ThdReg, Goto, ThdInv, Settled, Registered
  <2>2. QED
    BY <1>1, <2>1, ListGrows
<1>5. ASSUME NEW f \in Thds, ThdDereg(f)
      PROVE  HasLast(regs', t) /\ Alternates(regs', t)
  BY <1>1, <1>5, ListGrows DEF ThdDereg
<1>6. QED
  BY <1>2, <1>3, <1>4, <1>5, ListSteps

\* The numbers of the budget.
LEMMA Sizes ==
  ThdInv => /\ works \in [Thds -> Nat] /\ sem \in [Thds -> Nat] /\ due \in [Thds -> Nat]
            /\ events \in [Thds -> Nat] /\ runs \in [Thds -> Nat] /\ DOMAIN tpc = Thds
            /\ run \in [Thds -> BOOLEAN] /\ on \in [Users -> Thds]
            /\ DOMAIN upc = Users /\ Main \in Users
BY DEF ThdInv, TypeOK, Users

\* Each conjunct of the invariant is kept by every step.  First the types.
LEMMA TypesStep == ThdInv /\ [Next]_vars => TypeOK'
<1> SUFFICES ASSUME ThdInv, [Next]_vars PROVE TypeOK'
  OBVIOUS
<1> USE DEF loopVars, thdVars, userVars, history
<1>1. ASSUME NEW t \in Thds, Dispatch(t)
      PROVE  TypeOK'
  BY <1>1 DEF Dispatch, LoopDispatch, Calls, Post, ThdInv, TypeOK, LoopTypeOK, Users
<1>2. CASE /\ LoopStart \/ LoopTest \/ LoopPoll \/ LoopDispatchOwn
           /\ UNCHANGED <<run, working, thdVars, armed, due, userVars, history>>
  BY <1>2 DEF LoopStart, LoopTest, LoopPoll, LoopDispatchOwn, ThdInv, TypeOK, LoopTypeOK, Users
<1>3. CASE LoopReg /\ UNCHANGED <<run, working, thdVars, armed, due, userVars, history>>
  <2> DEFINE h == Head(regs)
  <2>1. /\ regs \in Seq([fd : Fds, on : BOOLEAN]) /\ regs # <<>> /\ regs' = Tail(regs)
        /\ edges \subseteq listening \cup {Own} /\ listening \subseteq Fds
        /\ UNCHANGED <<written, fired, lpc, lrun>> /\ Handle(h)
    BY <1>3 DEF LoopReg, ThdInv, TypeOK, LoopTypeOK
  <2>2. regs' \in Seq([fd : Fds, on : BOOLEAN]) /\ h \in [fd : Fds, on : BOOLEAN]
    BY <2>1, HeadTailProperties
  <2>3. edges' \subseteq listening' \cup {Own} /\ listening' \subseteq Fds
    BY <2>1, <2>2, EvLoopAssumption DEF Handle, EvLoopAssumption
  <2>4. QED
    BY <1>3, <2>1, <2>2, <2>3 DEF thdVars, userVars, history, ThdInv, TypeOK, LoopTypeOK
<1>4. CASE LoopRegsDone /\ UNCHANGED <<run, working, thdVars, armed, due, userVars, history>>
  BY <1>4 DEF LoopRegsDone, ThdInv, TypeOK, LoopTypeOK, Users
<1>5. CASE Exit
  BY <1>5 DEF Exit, LoopExit, Move, ThdInv, TypeOK, LoopTypeOK, Users
<1>6. CASE RunReturn
  BY <1>6 DEF RunReturn, Move, ThdInv, TypeOK, LoopTypeOK, Users
<1>7. CASE CancelWake
  BY <1>7 DEF CancelWake, Move, ThdInv, TypeOK, LoopTypeOK, Users
<1>8. CASE CancelJoin
  BY <1>8 DEF CancelJoin, Move, ThdInv, TypeOK, LoopTypeOK, Users
<1>9. CASE ExitJoin
  BY <1>9 DEF ExitJoin, LoopJoined, Move, ThdInv, TypeOK, LoopTypeOK, Users
<1>10. ASSUME NEW t \in Thds, TimerExpire(t)
      PROVE  TypeOK'
  BY <1>10 DEF TimerExpire, ThdInv, TypeOK, LoopTypeOK, Users
<1>11. ASSUME NEW t \in Thds, TimerCall(t)
      PROVE  TypeOK'
  BY <1>11 DEF TimerCall, Post, ThdInv, TypeOK, LoopTypeOK, Users
<1>12. ASSUME NEW t \in Thds, ThdReg(t)
      PROVE  TypeOK'
  <2>1. /\ regs \in Seq([fd : Fds, on : BOOLEAN]) /\ t \in Fds
        /\ regs' = Append(regs, [fd |-> t, on |-> TRUE])
    BY <1>12 DEF ThdReg, ListReg, ThdInv, TypeOK, LoopTypeOK, Thds
  <2>2. regs' \in Seq([fd : Fds, on : BOOLEAN])
    BY <2>1, AppendProperties
  <2>3. QED
    BY <1>12, <2>2 DEF ThdReg, Goto, ListReg, userVars, history, ThdInv, TypeOK, LoopTypeOK
<1>13. ASSUME NEW t \in Thds, ThdAnnounce(t)
      PROVE  TypeOK'
  BY <1>13 DEF ThdAnnounce, Goto, AnnounceReg, ThdInv, TypeOK, LoopTypeOK, Users
<1>14. ASSUME NEW t \in Thds, ThdArm(t)
      PROVE  TypeOK'
  BY <1>14 DEF ThdArm, Goto, ThdInv, TypeOK, LoopTypeOK, Users
<1>15. ASSUME NEW t \in Thds, ThdUp(t)
      PROVE  TypeOK'
  BY <1>15 DEF ThdUp, Goto, ThdInv, TypeOK, LoopTypeOK, Users
<1>16. ASSUME NEW t \in Thds, ThdCheck(t)
      PROVE  TypeOK'
  BY <1>16 DEF ThdCheck, Goto, ThdInv, TypeOK, LoopTypeOK, Users
<1>17. ASSUME NEW t \in Thds, ThdWake(t)
      PROVE  TypeOK'
  BY <1>17 DEF ThdWake, Goto, ThdInv, TypeOK, LoopTypeOK, Users
<1>18. ASSUME NEW t \in Thds, ThdTimeout(t)
      PROVE  TypeOK'
  BY <1>18 DEF ThdTimeout, Goto, ThdInv, TypeOK, LoopTypeOK, Users
<1>19. ASSUME NEW t \in Thds, ThdWork(t)
      PROVE  TypeOK'
  BY <1>19 DEF ThdWork, Goto, ThdInv, TypeOK, LoopTypeOK, Users
<1>20. ASSUME NEW t \in Thds, ThdSkip(t)
      PROVE  TypeOK'
  BY <1>20 DEF ThdSkip, Goto, ThdInv, TypeOK, LoopTypeOK, Users
<1>21. ASSUME NEW t \in Thds, ThdDown(t)
      PROVE  TypeOK'
  BY <1>21 DEF ThdDown, Goto, ThdInv, TypeOK, LoopTypeOK, Users
<1>22. ASSUME NEW t \in Thds, ThdDereg(t)
      PROVE  TypeOK'
  <2>1. /\ regs \in Seq([fd : Fds, on : BOOLEAN]) /\ t \in Fds
        /\ regs' = Append(regs, [fd |-> t, on |-> FALSE])
    BY <1>22 DEF ThdDereg, ListReg, ThdInv, TypeOK, LoopTypeOK, Thds
  <2>2. regs' \in Seq([fd : Fds, on : BOOLEAN])
    BY <2>1, AppendProperties
  <2>3. QED
    BY <1>22, <2>2 DEF ThdDereg, Goto, ListReg, userVars, history, ThdInv, TypeOK, LoopTypeOK
<1>23. ASSUME NEW t \in Thds,
             ThdRetract(t) \/ ThdDisarm(t)
      PROVE  TypeOK'
  BY <1>23 DEF ThdRetract, Goto, AnnounceReg, ThdDisarm, ThdInv, TypeOK, LoopTypeOK, Users
<1>24. ASSUME NEW t \in Thds, Run(t)
      PROVE  TypeOK'
  <2>1. runs' \in [Thds -> 0..MaxRuns]
    BY <1>24, EvThreadAssumption DEF Run, ThdInv, TypeOK, EvThreadAssumption
  <2>2. UNCHANGED <<loopVars, working, sem, armed, due, events, works>>
    BY <1>24 DEF Run
  <2>3. /\ run' \in [Thds -> BOOLEAN] /\ woken' \in [Thds -> BOOLEAN]
        /\ on' \in [Users -> Thds] /\ op' \in [Users -> {"run", "wake", "cancel"}]
    BY <1>24 DEF Run, At, ThdInv, TypeOK
  <2>4. QED
    BY <1>24, <2>1, <2>2, <2>3 DEF Run, Move, loopVars, ThdInv, TypeOK, LoopTypeOK
<1>25. ASSUME NEW t \in Thds, Cancel(t)
      PROVE  TypeOK'
  BY <1>25 DEF Cancel, Move, At, ThdInv, TypeOK, LoopTypeOK, Users
<1>26. ASSUME NEW u \in Wakers, NEW t \in Thds, Wake(u, t)
      PROVE  TypeOK'
  BY <1>26 DEF Wake, Move, At, ThdInv, TypeOK, LoopTypeOK, Users
<1>27. ASSUME NEW u \in Users, WakeStop(u)
      PROVE  TypeOK'
  BY <1>27 DEF WakeStop, Move, ThdInv, TypeOK, LoopTypeOK, Users
<1>28. ASSUME NEW u \in Users, WakeWrite(u)
      PROVE  TypeOK'
  <2> DEFINE t == on[u]
  <2>1. t \in Fds
    BY DEF ThdInv, TypeOK, Thds
  <2>2. /\ events' \in [Thds -> Nat] /\ woken' \in [Thds -> BOOLEAN]
        /\ UNCHANGED <<runs, works>>
    BY <1>28 DEF WakeWrite, Told, ThdInv, TypeOK
  <2>3. LoopTypeOK'
    BY <1>28, <2>1 DEF WakeWrite, WriteFd, ThdInv, TypeOK, LoopTypeOK
  <2>4. QED
    BY <1>28, <2>2, <2>3 DEF WakeWrite, Move, thdVars, ThdInv, TypeOK
<1>29. ASSUME NEW u \in Users, WakeStart(u)
      PROVE  TypeOK'
  BY <1>29 DEF WakeStart, Move, ThdInv, TypeOK, LoopTypeOK, Users
<1>30. CASE UNCHANGED vars
  BY <1>30 DEF vars, ThdInv, TypeOK, LoopTypeOK, Users
<1>31. QED
  BY <1>1, <1>2, <1>3, <1>4, <1>5, <1>6, <1>7, <1>8, <1>9, <1>10, <1>11, <1>12, <1>13, <1>14,
       <1>15, <1>16, <1>17, <1>18, <1>19, <1>20, <1>21, <1>22, <1>23, <1>24, <1>25, <1>26,
       <1>27, <1>28, <1>29, <1>30 DEF Next, Loop, LoopStep, Working, ThdStep, Waking

\* Who puts an item in the list tells the loop next; the loop, once it was told,
\* works the list off.
LEMMA ToldStep == ThdInv /\ [Next]_vars => RegistrationTold'
<1> SUFFICES ASSUME ThdInv, [Next]_vars PROVE RegistrationTold'
  OBVIOUS
<1> USE DEF loopVars, thdVars, userVars, history
<1>1. ASSUME NEW t \in Thds, Dispatch(t)
      PROVE  RegistrationTold'
  BY <1>1 DEF Dispatch, LoopDispatch, Calls, Post, ThdInv, RegistrationTold
<1>2. CASE /\ LoopStart \/ LoopTest
           /\ UNCHANGED <<run, working, thdVars, armed, due, userVars, history>>
  BY <1>2 DEF LoopStart, LoopTest, ThdInv, RegistrationTold
<1>3. CASE LoopPoll /\ UNCHANGED <<run, working, thdVars, armed, due, userVars, history>>
  BY <1>3 DEF LoopPoll, ThdInv, RegistrationTold, Polls, thdVars
<1>4. CASE /\ LoopDispatchOwn \/ LoopReg \/ LoopRegsDone
           /\ UNCHANGED <<run, working, thdVars, armed, due, userVars, history>>
  BY <1>4 DEF LoopDispatchOwn, LoopReg, Handle, LoopRegsDone, ThdInv, RegistrationTold
<1>5. CASE Exit
  BY <1>5 DEF Exit, LoopExit, Move, ThdInv, RegistrationTold
<1>6. CASE RunReturn
  BY <1>6 DEF RunReturn, Move, ThdInv, RegistrationTold
<1>7. CASE CancelWake
  BY <1>7 DEF CancelWake, Move, ThdInv, RegistrationTold
<1>8. CASE CancelJoin
  BY <1>8 DEF CancelJoin, Move, ThdInv, RegistrationTold
<1>9. CASE ExitJoin
  BY <1>9 DEF ExitJoin, LoopJoined, Move, ThdInv, RegistrationTold
<1>10. ASSUME NEW t \in Thds,
             TimerExpire(t) \/ TimerCall(t)
      PROVE  RegistrationTold'
  BY <1>10 DEF TimerExpire, TimerCall, Post, ThdInv, RegistrationTold
<1>11. ASSUME NEW t \in Thds, ThdReg(t)
      PROVE  RegistrationTold'
  BY <1>11, Sizes DEF ThdReg, Goto, ListReg, ThdInv, RegistrationTold
<1>12. ASSUME NEW t \in Thds, ThdAnnounce(t)
      PROVE  RegistrationTold'
  BY <1>12 DEF ThdAnnounce, Goto, AnnounceReg, ThdInv, RegistrationTold
<1>13. ASSUME NEW t \in Thds, ThdArm(t)
      PROVE  RegistrationTold'
  BY <1>13 DEF ThdArm, Goto, ThdInv, RegistrationTold
<1>14. ASSUME NEW t \in Thds, ThdUp(t)
      PROVE  RegistrationTold'
  BY <1>14 DEF ThdUp, Goto, ThdInv, RegistrationTold
<1>15. ASSUME NEW t \in Thds, ThdCheck(t)
      PROVE  RegistrationTold'
  BY <1>15 DEF ThdCheck, Goto, ThdInv, RegistrationTold
<1>16. ASSUME NEW t \in Thds, ThdWake(t)
      PROVE  RegistrationTold'
  BY <1>16 DEF ThdWake, Goto, ThdInv, RegistrationTold
<1>17. ASSUME NEW t \in Thds, ThdTimeout(t)
      PROVE  RegistrationTold'
  BY <1>17 DEF ThdTimeout, Goto, ThdInv, RegistrationTold
<1>18. ASSUME NEW t \in Thds, ThdWork(t)
      PROVE  RegistrationTold'
  BY <1>18 DEF ThdWork, Goto, ThdInv, RegistrationTold
<1>19. ASSUME NEW t \in Thds, ThdSkip(t)
      PROVE  RegistrationTold'
  BY <1>19 DEF ThdSkip, Goto, ThdInv, RegistrationTold
<1>20. ASSUME NEW t \in Thds, ThdDown(t)
      PROVE  RegistrationTold'
  BY <1>20 DEF ThdDown, Goto, ThdInv, RegistrationTold
<1>21. ASSUME NEW t \in Thds, ThdDereg(t)
      PROVE  RegistrationTold'
  BY <1>21, Sizes DEF ThdDereg, Goto, ListReg, ThdInv, RegistrationTold
<1>22. ASSUME NEW t \in Thds, ThdRetract(t)
      PROVE  RegistrationTold'
  BY <1>22 DEF ThdRetract, Goto, AnnounceReg, ThdInv, RegistrationTold
<1>23. ASSUME NEW t \in Thds, ThdDisarm(t)
      PROVE  RegistrationTold'
  BY <1>23 DEF ThdDisarm, Goto, ThdInv, RegistrationTold
<1>24. ASSUME NEW t \in Thds, Run(t)
      PROVE  RegistrationTold'
  <2>1. /\ UNCHANGED <<regs, edges, fired, lpc>> /\ tpc' = [tpc EXCEPT ![t] = "begin"]
        /\ ~run[t] /\ upc[Main] = "idle"
    BY <1>24 DEF Run, Move, loopVars
  <2>2. tpc[t] = "none"
    BY <2>1 DEF ThdInv, Lives, LivesOf, Cancelling
  <2>3. QED
    BY <2>1, <2>2 DEF ThdInv, TypeOK, RegistrationTold
<1>25. ASSUME NEW t \in Thds, Cancel(t)
      PROVE  RegistrationTold'
  BY <1>25 DEF Cancel, Move, At, ThdInv, RegistrationTold
<1>26. ASSUME NEW u \in Wakers, NEW t \in Thds, Wake(u, t)
      PROVE  RegistrationTold'
  BY <1>26 DEF Wake, Move, At, ThdInv, RegistrationTold
<1>27. ASSUME NEW u \in Users,
             WakeStop(u) \/ WakeWrite(u) \/ WakeStart(u)
      PROVE  RegistrationTold'
  BY <1>27 DEF WakeStop, Move, WakeWrite, WriteFd, Told, WakeStart, ThdInv, RegistrationTold
<1>28. CASE UNCHANGED vars
  BY <1>28 DEF vars, ThdInv, RegistrationTold
<1>29. QED
  BY <1>1, <1>2, <1>3, <1>4, <1>5, <1>6, <1>7, <1>8, <1>9, <1>10, <1>11, <1>12, <1>13, <1>14,
       <1>15, <1>16, <1>17, <1>18, <1>19, <1>20, <1>21, <1>22, <1>23, <1>24, <1>25, <1>26,
       <1>27, <1>28 DEF Next, Loop, LoopStep, Working, ThdStep, Waking

\* An item in the list stands for what the thread did to its registration.
LEMMA SettledStep == ThdInv /\ [Next]_vars => Settled'
<1> SUFFICES ASSUME ThdInv, [Next]_vars, NEW s \in Thds
             PROVE  (OnLast(regs, s) \/ (NoItem(regs, s) /\ s \in listening)
                       <=> tpc[s] \in Registered)'
  BY DEF Settled
<1> USE DEF loopVars, thdVars, userVars, history
<1>1. ASSUME NEW t \in Thds, Dispatch(t)
      PROVE  (OnLast(regs, s) \/ (NoItem(regs, s) /\ s \in listening) <=> tpc[s] \in Registered)'
  BY <1>1 DEF Dispatch, LoopDispatch, Calls, Post, ThdInv, Lists, Settled, Registered, Lives,
       LivesOf, WakersWake, Cancelling, TypeOK, LoopTypeOK, Users
<1>2. CASE /\ LoopStart \/ LoopTest \/ LoopPoll \/ LoopDispatchOwn
           /\ UNCHANGED <<run, working, thdVars, armed, due, userVars, history>>
  BY <1>2 DEF LoopStart, LoopTest, LoopPoll, LoopDispatchOwn, ThdInv, Lists, Settled,
       Registered, Lives, LivesOf, WakersWake, Cancelling, TypeOK, LoopTypeOK, Users
<1>3. CASE LoopReg /\ UNCHANGED <<run, working, thdVars, armed, due, userVars, history>>
  <2>1. LoopReg /\ tpc' = tpc
    BY <1>3 DEF thdVars
  <2>2. OnLast(regs, s) \/ (NoItem(regs, s) /\ s \in listening) <=> tpc[s] \in Registered
    BY DEF ThdInv, Settled
  <2> HIDE DEF ThdInv, Registered
  <2>3. QED
    BY <2>1, <2>2, LoopTakes
<1>4. CASE LoopRegsDone /\ UNCHANGED <<run, working, thdVars, armed, due, userVars, history>>
  BY <1>4 DEF LoopRegsDone, ThdInv, Lists, Settled, Registered, Lives, LivesOf, WakersWake,
       Cancelling, TypeOK, LoopTypeOK, Users
<1>5. CASE Exit \/ RunReturn \/ CancelWake \/ CancelJoin \/ ExitJoin
  BY <1>5 DEF Exit, LoopExit, Move, RunReturn, CancelWake, CancelJoin, ExitJoin, LoopJoined,
       ThdInv, Lists, Settled, Registered, Lives, LivesOf, WakersWake, Cancelling, TypeOK,
       LoopTypeOK, Users
<1>6. ASSUME NEW t \in Thds,
             TimerExpire(t) \/ TimerCall(t)
      PROVE  (OnLast(regs, s) \/ (NoItem(regs, s) /\ s \in listening) <=> tpc[s] \in Registered)'
  BY <1>6 DEF TimerExpire, TimerCall, Post, ThdInv, Lists, Settled, Registered, Lives,
       LivesOf, WakersWake, Cancelling, TypeOK, LoopTypeOK, Users
<1>7. ASSUME NEW t \in Thds, ThdReg(t)
      PROVE  (OnLast(regs, s) \/ (NoItem(regs, s) /\ s \in listening) <=> tpc[s] \in Registered)'
  <2>1. /\ ListReg(t, TRUE) /\ listening' = listening
        /\ tpc' = [tpc EXCEPT ![t] = "announce"]
    BY <1>7 DEF ThdReg, Goto, ListReg
  <2>2. /\ DOMAIN tpc = Thds
        /\ OnLast(regs, s) \/ (NoItem(regs, s) /\ s \in listening) <=> tpc[s] \in Registered
    BY DEF ThdInv, Settled, TypeOK
  <2>3. CASE s = t
    BY <2>1, <2>2, <2>3, ListGrows DEF Registered
  <2>4. CASE s # t
    BY <2>1, <2>2, <2>4, ListGrows DEF Registered
  <2>5. QED
    BY <2>3, <2>4
<1>8. ASSUME NEW t \in Thds,
             ThdAnnounce(t) \/ ThdArm(t) \/ ThdUp(t) \/ ThdCheck(t) \/ ThdWake(t)
      PROVE  (OnLast(regs, s) \/ (NoItem(regs, s) /\ s \in listening) <=> tpc[s] \in Registered)'
  BY <1>8 DEF ThdAnnounce, Goto, AnnounceReg, ThdArm, ThdUp, ThdCheck, ThdWake, ThdInv,
       Lists, Settled, Registered, Lives, LivesOf, WakersWake, Cancelling, TypeOK,
       LoopTypeOK, Users
<1>9. ASSUME NEW t \in Thds,
             ThdTimeout(t) \/ ThdWork(t) \/ ThdSkip(t) \/ ThdDown(t)
      PROVE  (OnLast(regs, s) \/ (NoItem(regs, s) /\ s \in listening) <=> tpc[s] \in Registered)'
  BY <1>9 DEF ThdTimeout, Goto, ThdWork, ThdSkip, ThdDown, ThdInv, Lists, Settled,
       Registered, Lives, LivesOf, WakersWake, Cancelling, TypeOK, LoopTypeOK, Users
<1>10. ASSUME NEW t \in Thds, ThdDereg(t)
      PROVE  (OnLast(regs, s) \/ (NoItem(regs, s) /\ s \in listening) <=> tpc[s] \in Registered)'
  <2>1. /\ ListReg(t, FALSE) /\ listening' = listening
        /\ tpc' = [tpc EXCEPT ![t] = "retract"]
    BY <1>10 DEF ThdDereg, Goto, ListReg
  <2>2. /\ DOMAIN tpc = Thds
        /\ OnLast(regs, s) \/ (NoItem(regs, s) /\ s \in listening) <=> tpc[s] \in Registered
    BY DEF ThdInv, Settled, TypeOK
  <2>3. CASE s = t
    BY <2>1, <2>2, <2>3, ListGrows DEF Registered
  <2>4. CASE s # t
    BY <2>1, <2>2, <2>4, ListGrows DEF Registered
  <2>5. QED
    BY <2>3, <2>4
<1>11. ASSUME NEW t \in Thds, ThdRetract(t)
      PROVE  (OnLast(regs, s) \/ (NoItem(regs, s) /\ s \in listening) <=> tpc[s] \in Registered)'
  BY <1>11 DEF ThdRetract, Goto, AnnounceReg, ThdInv, Lists, Settled, Registered, Lives,
       LivesOf, WakersWake, Cancelling, TypeOK, LoopTypeOK, Users
<1>12. ASSUME NEW t \in Thds, ThdDisarm(t)
      PROVE  (OnLast(regs, s) \/ (NoItem(regs, s) /\ s \in listening) <=> tpc[s] \in Registered)'
  BY <1>12 DEF ThdDisarm, Goto, ThdInv, Lists, Settled, Registered, Lives, LivesOf,
       WakersWake, Cancelling, TypeOK, LoopTypeOK, Users
<1>13. ASSUME NEW t \in Thds, Run(t)
      PROVE  (OnLast(regs, s) \/ (NoItem(regs, s) /\ s \in listening) <=> tpc[s] \in Registered)'
  BY <1>13 DEF Run, Move, At, ThdInv, Lists, Settled, Registered, Lives, LivesOf, WakersWake,
       Cancelling, TypeOK, LoopTypeOK, Users
<1>14. ASSUME NEW t \in Thds, Cancel(t)
      PROVE  (OnLast(regs, s) \/ (NoItem(regs, s) /\ s \in listening) <=> tpc[s] \in Registered)'
  BY <1>14 DEF Cancel, Move, At, ThdInv, Lists, Settled, Registered, Lives, LivesOf,
       WakersWake, Cancelling, TypeOK, LoopTypeOK, Users
<1>15. ASSUME NEW u \in Wakers, NEW t \in Thds, Wake(u, t)
      PROVE  (OnLast(regs, s) \/ (NoItem(regs, s) /\ s \in listening) <=> tpc[s] \in Registered)'
  BY <1>15 DEF Wake, Move, At, ThdInv, Lists, Settled, Registered, Lives, LivesOf,
       WakersWake, Cancelling, TypeOK, LoopTypeOK, Users
<1>16. ASSUME NEW u \in Users,
             WakeStop(u) \/ WakeWrite(u) \/ WakeStart(u)
      PROVE  (OnLast(regs, s) \/ (NoItem(regs, s) /\ s \in listening) <=> tpc[s] \in Registered)'
  BY <1>16 DEF WakeStop, Move, WakeWrite, WriteFd, Told, WakeStart, ThdInv, Lists, Settled,
       Registered, Lives, LivesOf, WakersWake, Cancelling, TypeOK, LoopTypeOK, Users
<1>17. CASE UNCHANGED vars
  BY <1>17 DEF vars, ThdInv, Lists, Settled, Registered, Lives, LivesOf, WakersWake,
       Cancelling, TypeOK, LoopTypeOK, Users
<1>18. QED
  BY <1>1, <1>2, <1>3, <1>4, <1>5, <1>6, <1>7, <1>8, <1>9, <1>10, <1>11, <1>12, <1>13, <1>14,
       <1>15, <1>16, <1>17 DEF Next, Loop, LoopStep, Working, ThdStep, Waking

\* In the first run the list holds one item of the thread at most, and it is taken
\* before the loop listens.
LEMMA FirstRunStep == ThdInv /\ [Next]_vars => FirstRun'
<1> SUFFICES ASSUME ThdInv, [Next]_vars, NEW s \in Thds PROVE FirstRunOf(s)'
  BY DEF FirstRun
<1> USE DEF loopVars, thdVars, userVars, history
<1>1. ASSUME NEW t \in Thds, Dispatch(t)
      PROVE  FirstRunOf(s)'
  BY <1>1 DEF Dispatch, LoopDispatch, Calls, Post, ThdInv, FirstRun, FirstRunOf,
       EvLoopAssumption, Thds, Lives, LivesOf, WakersWake, Cancelling, Registered, TypeOK,
       LoopTypeOK, Users
<1>2. CASE /\ LoopStart \/ LoopTest \/ LoopPoll \/ LoopDispatchOwn
           /\ UNCHANGED <<run, working, thdVars, armed, due, userVars, history>>
  BY <1>2 DEF LoopStart, LoopTest, LoopPoll, LoopDispatchOwn, ThdInv, FirstRun, FirstRunOf,
       EvLoopAssumption, Thds, Lives, LivesOf, WakersWake, Cancelling, Registered, TypeOK,
       LoopTypeOK, Users
<1>3. CASE LoopReg /\ UNCHANGED <<run, working, thdVars, armed, due, userVars, history>>
  <2>1. LoopReg /\ tpc' = tpc /\ fired' = fired /\ written' = written
    BY <1>3 DEF thdVars, LoopReg
  <2>2. UNCHANGED <<runs, works, sem, due, armed>>
    BY <1>3 DEF thdVars, history
  <2>3. FirstRunOf(s) /\ Alternates(regs, s)
    BY DEF ThdInv, FirstRun, Lists
  <2> HIDE DEF ThdInv, Registered
  <2>4. QED
    BY <2>1, <2>2, <2>3, LoopTakes DEF FirstRunOf
<1>4. CASE LoopRegsDone /\ UNCHANGED <<run, working, thdVars, armed, due, userVars, history>>
  BY <1>4 DEF LoopRegsDone, ThdInv, FirstRun, FirstRunOf, EvLoopAssumption, Thds, Lives,
       LivesOf, WakersWake, Cancelling, Registered, TypeOK, LoopTypeOK, Users
<1>5. CASE Exit \/ RunReturn \/ CancelWake \/ CancelJoin \/ ExitJoin
  BY <1>5 DEF Exit, LoopExit, Move, RunReturn, CancelWake, CancelJoin, ExitJoin, LoopJoined,
       ThdInv, FirstRun, FirstRunOf, EvLoopAssumption, Thds, Lives, LivesOf, WakersWake,
       Cancelling, Registered, TypeOK, LoopTypeOK, Users
<1>6. ASSUME NEW t \in Thds,
             TimerExpire(t) \/ TimerCall(t)
      PROVE  FirstRunOf(s)'
  BY <1>6 DEF TimerExpire, TimerCall, Post, ThdInv, FirstRun, FirstRunOf, EvLoopAssumption,
       Thds, Lives, LivesOf, WakersWake, Cancelling, Registered, TypeOK, LoopTypeOK, Users
<1>7. ASSUME NEW t \in Thds, ThdReg(t)
      PROVE  FirstRunOf(s)'
  <2>1. /\ ListReg(t, TRUE) /\ tpc[t] = "begin" /\ tpc' = [tpc EXCEPT ![t] = "announce"]
        /\ UNCHANGED <<listening, edges, written, fired>>
    BY <1>7 DEF ThdReg, Goto, ListReg
  <2>2. UNCHANGED <<runs, works, sem, due, armed>>
    BY <1>7 DEF ThdReg, history
  <2>3. FirstRunOf(s) /\ runs[t] # 0 /\ DOMAIN tpc = Thds
    BY <2>1 DEF ThdInv, FirstRun, Lives, LivesOf, WakersWake, TypeOK
  <2> HIDE DEF ThdInv, ListReg
  <2>4. CASE s = t
    BY <2>1, <2>2, <2>3, <2>4, ListGrows DEF FirstRunOf, Registered
  <2>5. CASE s # t
    BY <2>1, <2>2, <2>3, <2>5, ListGrows DEF FirstRunOf, Registered
  <2>6. QED
    BY <2>4, <2>5
<1>8. ASSUME NEW t \in Thds, ThdAnnounce(t)
      PROVE  FirstRunOf(s)'
  BY <1>8, EvLoopAssumption DEF ThdAnnounce, Goto, AnnounceReg, ThdInv, FirstRun, FirstRunOf,
       EvLoopAssumption, Thds, Lives, LivesOf, WakersWake, Cancelling, Registered, TypeOK,
       LoopTypeOK, Users
<1>9. ASSUME NEW t \in Thds,
             ThdArm(t) \/ ThdUp(t) \/ ThdCheck(t) \/ ThdWake(t) \/ ThdTimeout(t)
      PROVE  FirstRunOf(s)'
  BY <1>9 DEF ThdArm, Goto, ThdUp, ThdCheck, ThdWake, ThdTimeout, ThdInv, FirstRun,
       FirstRunOf, EvLoopAssumption, Thds, Lives, LivesOf, WakersWake, Cancelling,
       Registered, TypeOK, LoopTypeOK, Users
<1>10. ASSUME NEW t \in Thds,
             ThdWork(t) \/ ThdSkip(t) \/ ThdDown(t)
      PROVE  FirstRunOf(s)'
  BY <1>10 DEF ThdWork, Goto, ThdSkip, ThdDown, ThdInv, FirstRun, FirstRunOf,
       EvLoopAssumption, Thds, Lives, LivesOf, WakersWake, Cancelling, Registered, TypeOK,
       LoopTypeOK, Users
<1>11. ASSUME NEW t \in Thds, ThdDereg(t)
      PROVE  FirstRunOf(s)'
  <2>1. /\ ListReg(t, FALSE) /\ tpc[t] = "dereg" /\ tpc' = [tpc EXCEPT ![t] = "retract"]
        /\ UNCHANGED <<listening, edges, written, fired>>
    BY <1>11 DEF ThdDereg, Goto, ListReg
  <2>2. UNCHANGED <<runs, works, sem, due, armed>>
    BY <1>11 DEF ThdDereg, history
  <2>3. FirstRunOf(s) /\ runs[t] # 0 /\ DOMAIN tpc = Thds
    BY <2>1 DEF ThdInv, FirstRun, Lives, LivesOf, WakersWake, TypeOK
  <2> HIDE DEF ThdInv, ListReg
  <2>4. CASE s = t
    BY <2>1, <2>2, <2>3, <2>4, ListGrows DEF FirstRunOf, Registered
  <2>5. CASE s # t
    BY <2>1, <2>2, <2>3, <2>5, ListGrows DEF FirstRunOf, Registered
  <2>6. QED
    BY <2>4, <2>5
<1>12. ASSUME NEW t \in Thds, ThdRetract(t)
      PROVE  FirstRunOf(s)'
  BY <1>12, EvLoopAssumption DEF ThdRetract, Goto, AnnounceReg, ThdInv, FirstRun, FirstRunOf,
       EvLoopAssumption, Thds, Lives, LivesOf, WakersWake, Cancelling, Registered, TypeOK,
       LoopTypeOK, Users
<1>13. ASSUME NEW t \in Thds, ThdDisarm(t)
      PROVE  FirstRunOf(s)'
  BY <1>13 DEF ThdDisarm, Goto, ThdInv, FirstRun, FirstRunOf, EvLoopAssumption, Thds, Lives,
       LivesOf, WakersWake, Cancelling, Registered, TypeOK, LoopTypeOK, Users
<1>14. ASSUME NEW t \in Thds, Run(t)
      PROVE  FirstRunOf(s)'
  <2>1. /\ UNCHANGED <<loopVars, sem, armed, due, works>>
        /\ runs' = [runs EXCEPT ![t] = runs[t] + 1] /\ tpc' = [tpc EXCEPT ![t] = "begin"]
    BY <1>14 DEF Run, userVars
  <2>2. /\ FirstRunOf(s) /\ DOMAIN tpc = Thds /\ runs \in [Thds -> Nat]
    BY DEF ThdInv, FirstRun, TypeOK
  <2>3. NoItem(regs, s) => ~OffIn(regs, s)
    BY DEF NoItem, OffIn
  <2>4. CASE s = t
    <3>1. runs'[s] = runs[s] + 1 /\ runs[s] \in Nat /\ tpc'[s] = "begin"
      BY <2>1, <2>2, <2>4
    <3>2. runs'[s] = 1 => NoItem(regs, s) /\ s \notin listening
      BY <2>2, <3>1 DEF FirstRunOf
    <3>3. QED
      BY <2>1, <2>3, <3>1, <3>2 DEF FirstRunOf, loopVars
  <2>5. CASE s # t
    BY <2>1, <2>2, <2>5 DEF FirstRunOf, loopVars, Registered
  <2>6. QED
    BY <2>4, <2>5
<1>15. ASSUME NEW t \in Thds, Cancel(t)
      PROVE  FirstRunOf(s)'
  BY <1>15 DEF Cancel, Move, At, ThdInv, FirstRun, FirstRunOf, EvLoopAssumption, Thds, Lives,
       LivesOf, WakersWake, Cancelling, Registered, TypeOK, LoopTypeOK, Users
<1>16. ASSUME NEW u \in Wakers, NEW t \in Thds, Wake(u, t)
      PROVE  FirstRunOf(s)'
  BY <1>16 DEF Wake, Move, At, ThdInv, FirstRun, FirstRunOf, EvLoopAssumption, Thds, Lives,
       LivesOf, WakersWake, Cancelling, Registered, TypeOK, LoopTypeOK, Users
<1>17. ASSUME NEW u \in Users,
             WakeStop(u) \/ WakeWrite(u)
      PROVE  FirstRunOf(s)'
  BY <1>17 DEF WakeStop, Move, WakeWrite, WriteFd, Told, ThdInv, FirstRun, FirstRunOf,
       EvLoopAssumption, Thds, Lives, LivesOf, WakersWake, Cancelling, Registered, TypeOK,
       LoopTypeOK, Users
<1>18. ASSUME NEW u \in Users, WakeStart(u)
      PROVE  FirstRunOf(s)'
  <2>1. UNCHANGED <<loopVars, run, working, thdVars, due, history>>
    BY <1>18 DEF WakeStart
  <2>2. armed' = armed \cup ({on[u]} \cap Timed) /\ upc[u] = "start" /\ on[u] \in Thds
    BY <1>18 DEF WakeStart, Move, ThdInv, TypeOK
  <2>3. runs[on[u]] # 0
    BY <2>2 DEF ThdInv, Lives, LivesOf, WakersWake, Cancelling, Users
  <2>4. FirstRunOf(s)
    BY DEF ThdInv, FirstRun
  <2>5. QED
    BY <2>1, <2>2, <2>3, <2>4 DEF FirstRunOf, loopVars, thdVars, history
<1>19. CASE UNCHANGED vars
  BY <1>19 DEF vars, ThdInv, FirstRun, FirstRunOf, EvLoopAssumption, Thds, Lives, LivesOf,
       WakersWake, Cancelling, Registered, TypeOK, LoopTypeOK, Users
<1>20. QED
  BY <1>1, <1>2, <1>3, <1>4, <1>5, <1>6, <1>7, <1>8, <1>9, <1>10, <1>11, <1>12, <1>13, <1>14,
       <1>15, <1>16, <1>17, <1>18, <1>19 DEF Next, Loop, LoopStep, Working, ThdStep, Waking

\* Main runs and cancels the threads one at a time, and joins them.
LEMMA LivesStep == ThdInv /\ [Next]_vars => Lives'
<1> SUFFICES ASSUME ThdInv, [Next]_vars PROVE Lives'
  OBVIOUS
<1> USE DEF loopVars, thdVars, userVars, history
<1>1. ASSUME NEW t \in Thds, Dispatch(t)
      PROVE  Lives'
  BY <1>1 DEF Dispatch, LoopDispatch, Calls, Post, ThdInv, EvThreadAssumption, Lives,
       LivesOf, WakersWake, Cancelling, Registered, TypeOK, LoopTypeOK, Users
<1>2. CASE /\ LoopStart \/ LoopTest \/ LoopPoll \/ LoopDispatchOwn \/ LoopReg
           /\ UNCHANGED <<run, working, thdVars, armed, due, userVars, history>>
  BY <1>2 DEF LoopStart, LoopTest, LoopPoll, LoopDispatchOwn, LoopReg, Handle, ThdInv,
       EvThreadAssumption, Lives, LivesOf, WakersWake, Cancelling, Registered, TypeOK,
       LoopTypeOK, Users
<1>3. CASE LoopRegsDone /\ UNCHANGED <<run, working, thdVars, armed, due, userVars, history>>
  BY <1>3 DEF LoopRegsDone, ThdInv, EvThreadAssumption, Lives, LivesOf, WakersWake,
       Cancelling, Registered, TypeOK, LoopTypeOK, Users
<1>4. CASE Exit
  BY <1>4, EvThreadAssumption DEF Exit, LoopExit, Move, ThdInv, EvThreadAssumption, Lives,
       LivesOf, WakersWake, Cancelling, Registered, TypeOK, LoopTypeOK, Users
<1>5. CASE RunReturn
  BY <1>5 DEF RunReturn, Move, ThdInv, EvThreadAssumption, Lives, LivesOf, WakersWake,
       Cancelling, Registered, TypeOK, LoopTypeOK, Users
<1>6. CASE CancelWake
  BY <1>6 DEF CancelWake, Move, ThdInv, EvThreadAssumption, Lives, LivesOf, WakersWake,
       Cancelling, Registered, TypeOK, LoopTypeOK, Users
<1>7. CASE CancelJoin
  BY <1>7 DEF CancelJoin, Move, ThdInv, EvThreadAssumption, Lives, LivesOf, WakersWake,
       Cancelling, Registered, TypeOK, LoopTypeOK, Users
<1>8. CASE ExitJoin
  BY <1>8 DEF ExitJoin, LoopJoined, Move, ThdInv, EvThreadAssumption, Lives, LivesOf,
       WakersWake, Cancelling, Registered, TypeOK, LoopTypeOK, Users
<1>9. ASSUME NEW t \in Thds,
             TimerExpire(t) \/ TimerCall(t) \/ ThdReg(t) \/ ThdAnnounce(t) \/ ThdArm(t)
      PROVE  Lives'
  BY <1>9 DEF TimerExpire, TimerCall, Post, ThdReg, Goto, ListReg, ThdAnnounce, AnnounceReg,
       ThdArm, ThdInv, EvThreadAssumption, Lives, LivesOf, WakersWake, Cancelling,
       Registered, TypeOK, LoopTypeOK, Users
<1>10. ASSUME NEW t \in Thds,
             ThdUp(t) \/ ThdCheck(t) \/ ThdWake(t) \/ ThdTimeout(t) \/ ThdWork(t)
      PROVE  Lives'
  <2> USE DEF Goto, ThdInv, EvThreadAssumption, Lives, LivesOf, WakersWake, Cancelling,
          Registered, TypeOK, LoopTypeOK, Users
  <2>1. CASE ThdUp(t)
    BY <2>1 DEF ThdUp
  <2>2. CASE ThdCheck(t)
    BY <2>2 DEF ThdCheck
  <2>3. CASE ThdWake(t)
    BY <2>3 DEF ThdWake
  <2>4. CASE ThdTimeout(t)
    BY <2>4 DEF ThdTimeout
  <2>5. CASE ThdWork(t)
    BY <2>5 DEF ThdWork
  <2>6. QED
    BY <1>10, <2>1, <2>2, <2>3, <2>4, <2>5
<1>11. ASSUME NEW t \in Thds,
             ThdSkip(t) \/ ThdDown(t) \/ ThdDereg(t) \/ ThdRetract(t) \/ ThdDisarm(t)
      PROVE  Lives'
  BY <1>11 DEF ThdSkip, Goto, ThdDown, ThdDereg, ListReg, ThdRetract, AnnounceReg, ThdDisarm,
       ThdInv, EvThreadAssumption, Lives, LivesOf, WakersWake, Cancelling, Registered,
       TypeOK, LoopTypeOK, Users
<1>12. ASSUME NEW t \in Thds, Run(t)
      PROVE  Lives'
  <2>1. /\ upc[Main] = "idle" /\ upc' = [upc EXCEPT ![Main] = "await"]
        /\ op' = [op EXCEPT ![Main] = "run"] /\ on' = [on EXCEPT ![Main] = t]
        /\ run' = [run EXCEPT ![t] = TRUE] /\ tpc' = [tpc EXCEPT ![t] = "begin"]
        /\ runs' = [runs EXCEPT ![t] = runs[t] + 1] /\ working' = working
    BY <1>12 DEF Run, Move, At
  <2>2. /\ DOMAIN upc = Users /\ DOMAIN op = Users /\ DOMAIN on = Users
        /\ on \in [Users -> Thds] /\ DOMAIN run = Thds /\ DOMAIN tpc = Thds
        /\ runs \in [Thds -> Nat] /\ Main \in Users /\ Wakers \subseteq Users
        /\ Main \notin Wakers
    BY EvThreadAssumption DEF ThdInv, TypeOK, Users, EvThreadAssumption
  <2>3. WakersWake /\ \A s \in Thds : LivesOf(s)
    BY DEF ThdInv, Lives
  <2>4. ASSUME NEW s \in Thds PROVE LivesOf(s)'
    <3>1. CASE s = t
      BY <2>1, <2>2, <2>3, <3>1 DEF LivesOf, Cancelling
    <3>2. CASE s # t
      BY <2>1, <2>2, <2>3, <3>2 DEF LivesOf, Cancelling
    <3>3. QED
      BY <3>1, <3>2
  <2>5. ASSUME NEW u \in Wakers, upc'[u] # "idle"
        PROVE  upc'[u] \in {"stop", "write", "start"} /\ op'[u] = "wake" /\ runs'[on'[u]] > 0
    <3>1. /\ upc'[u] = upc[u] /\ op'[u] = op[u] /\ on'[u] = on[u] /\ on[u] \in Thds
          /\ runs[on[u]] > 0
      BY <2>1, <2>2, <2>3, <2>5 DEF WakersWake
    <3>2. runs'[on[u]] > 0
      BY <2>1, <2>2, <3>1
    <3>3. QED
      BY <2>3, <2>5, <3>1, <3>2 DEF WakersWake
  <2>6. QED
    BY <2>1, <2>2, <2>4, <2>5 DEF Lives, WakersWake
<1>13. ASSUME NEW t \in Thds, Cancel(t)
      PROVE  Lives'
  BY <1>13, EvThreadAssumption DEF Cancel, Move, At, ThdInv, EvThreadAssumption, Lives,
       LivesOf, WakersWake, Cancelling, Registered, TypeOK, LoopTypeOK, Users
<1>14. ASSUME NEW u \in Wakers, NEW t \in Thds, Wake(u, t)
      PROVE  Lives'
  <2>1. /\ upc[u] = "idle" /\ upc' = [upc EXCEPT ![u] = "stop"]
        /\ op' = [op EXCEPT ![u] = "wake"] /\ on' = [on EXCEPT ![u] = t]
        /\ UNCHANGED <<run, runs, working, tpc>> /\ working[t]
    BY <1>14 DEF Wake, Move, At, thdVars, history
  <2>2. /\ DOMAIN upc = Users /\ DOMAIN op = Users /\ DOMAIN on = Users
        /\ u \in Users /\ runs \in [Thds -> Nat] /\ Main \in Users /\ Wakers \subseteq Users
        /\ u # Main
    BY EvThreadAssumption DEF ThdInv, TypeOK, Users, EvThreadAssumption
  <2>3. WakersWake /\ \A s \in Thds : LivesOf(s)
    BY DEF ThdInv, Lives
  <2>4. runs[t] > 0
    BY <2>1, <2>2, <2>3 DEF LivesOf
  <2>5. ASSUME NEW s \in Thds PROVE LivesOf(s)'
    BY <2>1, <2>2, <2>3 DEF LivesOf, Cancelling
  <2>6. WakersWake'
    BY <2>1, <2>2, <2>3, <2>4 DEF WakersWake
  <2>7. QED
    BY <2>5, <2>6 DEF Lives
<1>15. ASSUME NEW u \in Users, WakeStop(u)
      PROVE  Lives'
  BY <1>15 DEF WakeStop, Move, ThdInv, EvThreadAssumption, Lives, LivesOf, WakersWake,
       Cancelling, Registered, TypeOK, LoopTypeOK, Users
<1>16. ASSUME NEW u \in Users, WakeWrite(u)
      PROVE  Lives'
  BY <1>16 DEF WakeWrite, Move, WriteFd, Told, ThdInv, EvThreadAssumption, Lives, LivesOf,
       WakersWake, Cancelling, Registered, TypeOK, LoopTypeOK, Users
<1>17. ASSUME NEW u \in Users, WakeStart(u)
      PROVE  Lives'
  BY <1>17 DEF WakeStart, Move, ThdInv, EvThreadAssumption, Lives, LivesOf, WakersWake,
       Cancelling, Registered, TypeOK, LoopTypeOK, Users
<1>18. CASE UNCHANGED vars
  BY <1>18 DEF vars, ThdInv, EvThreadAssumption, Lives, LivesOf, WakersWake, Cancelling,
       Registered, TypeOK, LoopTypeOK, Users
<1>19. QED
  BY <1>1, <1>2, <1>3, <1>4, <1>5, <1>6, <1>7, <1>8, <1>9, <1>10, <1>11, <1>12, <1>13, <1>14,
       <1>15, <1>16, <1>17, <1>18 DEF Next, Loop, LoopStep, Working, ThdStep, Waking

\* A work is done by a thread that runs, and was owed to it.
LEMMA WorksStep == ThdInv /\ [Next]_vars => WorkNeedsEvent'
<1> SUFFICES ASSUME ThdInv, [Next]_vars PROVE WorkNeedsEvent'
  OBVIOUS
<1> USE DEF loopVars, thdVars, userVars, history
<1>1. ASSUME NEW t \in Thds, Dispatch(t)
      PROVE  WorkNeedsEvent'
  BY <1>1, Sizes DEF Dispatch, LoopDispatch, Calls, Post, ThdInv, WorkNeedsEvent
<1>2. CASE /\ LoopStart \/ LoopTest \/ LoopPoll \/ LoopDispatchOwn \/ LoopReg
           /\ UNCHANGED <<run, working, thdVars, armed, due, userVars, history>>
  BY <1>2, Sizes DEF LoopStart, LoopTest, LoopPoll, LoopDispatchOwn, LoopReg, Handle, ThdInv,
       WorkNeedsEvent
<1>3. CASE LoopRegsDone /\ UNCHANGED <<run, working, thdVars, armed, due, userVars, history>>
  BY <1>3, Sizes DEF LoopRegsDone, ThdInv, WorkNeedsEvent
<1>4. CASE Exit \/ RunReturn \/ CancelWake \/ CancelJoin \/ ExitJoin
  BY <1>4, Sizes DEF Exit, LoopExit, Move, RunReturn, CancelWake, CancelJoin, ExitJoin,
       LoopJoined, ThdInv, WorkNeedsEvent
<1>5. ASSUME NEW t \in Thds, TimerExpire(t)
      PROVE  WorkNeedsEvent'
  BY <1>5, Sizes DEF TimerExpire, ThdInv, WorkNeedsEvent
<1>6. ASSUME NEW t \in Thds, TimerCall(t)
      PROVE  WorkNeedsEvent'
  BY <1>6, Sizes DEF TimerCall, Post, ThdInv, WorkNeedsEvent
<1>7. ASSUME NEW t \in Thds, ThdReg(t)
      PROVE  WorkNeedsEvent'
  BY <1>7, Sizes DEF ThdReg, Goto, ListReg, ThdInv, WorkNeedsEvent
<1>8. ASSUME NEW t \in Thds, ThdAnnounce(t)
      PROVE  WorkNeedsEvent'
  BY <1>8, Sizes DEF ThdAnnounce, Goto, AnnounceReg, ThdInv, WorkNeedsEvent
<1>9. ASSUME NEW t \in Thds,
             ThdArm(t) \/ ThdUp(t) \/ ThdCheck(t) \/ ThdWake(t) \/ ThdTimeout(t)
      PROVE  WorkNeedsEvent'
  BY <1>9, Sizes DEF ThdArm, Goto, ThdUp, ThdCheck, ThdWake, ThdTimeout, ThdInv, WorkNeedsEvent
<1>10. ASSUME NEW t \in Thds, ThdWork(t)
      PROVE  WorkNeedsEvent'
  <2>1. ASSUME NEW s \in Thds, runs[s] > 0 PROVE works'[s] <= events[s] + 2 * (runs[s] - 1)
    <3>1. works[s] <= events[s] + 2 * (runs[s] - 1)
      BY <2>1 DEF ThdInv, WorkNeedsEvent
    <3>2. s = t => /\ works'[s] = works[s] + 1 /\ run[s] /\ tpc[s] = "recheck"
                   /\ Owed(s) <= Granted(s)
      BY <1>10, <2>1, Sizes DEF ThdWork, Goto, ThdInv, Budget
    <3>3. s = t => works[s] + 1 <= events[s] + 2 * (runs[s] - 1)
      BY <2>1, <3>2, Sizes DEF Owed, Granted, Once
    <3>4. s # t => works'[s] = works[s]
      BY <1>10, Sizes DEF ThdWork
    <3>5. QED
      BY <3>1, <3>2, <3>3, <3>4
  <2>2. QED
    BY <1>10, <2>1 DEF ThdWork, WorkNeedsEvent
<1>11. ASSUME NEW t \in Thds,
             ThdSkip(t) \/ ThdDown(t) \/ ThdDereg(t) \/ ThdRetract(t) \/ ThdDisarm(t)
      PROVE  WorkNeedsEvent'
  BY <1>11, Sizes DEF ThdSkip, Goto, ThdDown, ThdDereg, ListReg, ThdRetract, AnnounceReg,
       ThdDisarm, ThdInv, WorkNeedsEvent
<1>12. ASSUME NEW t \in Thds, Run(t)
      PROVE  WorkNeedsEvent'
  <2>1. /\ UNCHANGED <<works, events>> /\ runs' = [runs EXCEPT ![t] = runs[t] + 1]
    BY <1>12 DEF Run
  <2>2. ASSUME NEW s \in Thds, runs'[s] > 0 PROVE works[s] <= events[s] + 2 * (runs'[s] - 1)
    <3>1. runs[s] > 0 => works[s] <= events[s] + 2 * (runs[s] - 1)
      BY DEF ThdInv, WorkNeedsEvent
    <3>2. runs[s] = 0 => works[s] = 0
      BY DEF ThdInv, FirstRun, FirstRunOf
    <3>3. runs'[s] = IF s = t THEN runs[s] + 1 ELSE runs[s]
      BY <2>1, Sizes
    <3>4. QED
      BY <2>2, <3>1, <3>2, <3>3, Sizes
  <2>3. QED
    BY <2>1, <2>2 DEF WorkNeedsEvent
<1>13. ASSUME NEW t \in Thds, Cancel(t)
      PROVE  WorkNeedsEvent'
  BY <1>13, Sizes DEF Cancel, Move, At, ThdInv, WorkNeedsEvent
<1>14. ASSUME NEW u \in Wakers, NEW t \in Thds, Wake(u, t)
      PROVE  WorkNeedsEvent'
  BY <1>14, Sizes DEF Wake, Move, At, ThdInv, WorkNeedsEvent
<1>15. ASSUME NEW u \in Users,
             WakeStop(u) \/ WakeWrite(u) \/ WakeStart(u)
      PROVE  WorkNeedsEvent'
  BY <1>15, Sizes DEF WakeStop, Move, WakeWrite, WriteFd, Told, WakeStart, ThdInv,
       WorkNeedsEvent
<1>16. CASE UNCHANGED vars
  BY <1>16 DEF vars, ThdInv, WorkNeedsEvent
<1>17. QED
  BY <1>1, <1>2, <1>3, <1>4, <1>5, <1>6, <1>7, <1>8, <1>9, <1>10, <1>11, <1>12, <1>13, <1>14,
       <1>15, <1>16 DEF Next, Loop, LoopStep, Working, ThdStep, Waking

\* No step owes a thread more than it grants.
LEMMA BudgetStep == ThdInv /\ [Next]_vars => Budget'
<1> SUFFICES ASSUME ThdInv, [Next]_vars, NEW s \in Thds, runs'[s] > 0
             PROVE  Owed(s)' <= Granted(s)'
  BY DEF Budget
<1> USE DEF loopVars, thdVars, userVars, history
<1>0. runs[s] > 0 => Owed(s) <= Granted(s)
  BY DEF ThdInv, Budget
<1>1. ASSUME NEW t \in Thds, Dispatch(t)
      PROVE  Owed(s)' <= Granted(s)'
  <2>2. CASE s = t
    BY <1>1, <1>0, <2>2, Sizes DEF Owed, Granted, Once, Edge, Remade, CancelWrites, Dispatch,
         LoopDispatch, Calls, Post
  <2>3. CASE s # t
    BY <1>1, <1>0, <2>3, Sizes DEF Owed, Granted, Once, Edge, Remade, CancelWrites, Dispatch,
         LoopDispatch, Calls, Post
  <2>4. QED
    BY <2>2, <2>3
<1>2. CASE LoopStart /\ UNCHANGED <<run, working, thdVars, armed, due, userVars, history>>
  BY <1>2, <1>0, Sizes DEF Owed, Granted, Once, Edge, Remade, CancelWrites, LoopStart
<1>3. CASE LoopTest /\ UNCHANGED <<run, working, thdVars, armed, due, userVars, history>>
  BY <1>3, <1>0, Sizes DEF Owed, Granted, Once, Edge, Remade, CancelWrites, LoopTest
<1>4. CASE LoopPoll /\ UNCHANGED <<run, working, thdVars, armed, due, userVars, history>>
  BY <1>4, <1>0, Sizes DEF Owed, Granted, Once, Edge, Remade, CancelWrites, LoopPoll
<1>5. CASE LoopDispatchOwn /\ UNCHANGED <<run, working, thdVars, armed, due, userVars, history>>
  BY <1>5, <1>0, Sizes DEF Owed, Granted, Once, Edge, Remade, CancelWrites, LoopDispatchOwn
<1>6. CASE LoopReg /\ UNCHANGED <<run, working, thdVars, armed, due, userVars, history>>
  <2> DEFINE h == Head(regs)
  <2>2. /\ LoopReg /\ lpc = "regs"
        /\ UNCHANGED <<written, fired, lpc, run, sem, tpc, due, userVars, history>>
    BY <1>6 DEF LoopReg, thdVars
  <2>3. Alternates(regs, s) /\ (OnLast(regs, s) => tpc[s] # "begin")
    BY DEF ThdInv, Lists, Settled, Registered
  <2>4. NoItem(regs', s) => ~OnLast(regs', s) /\ ~OffIn(regs', s)
    BY NoItemHolds
  <2>5. \/ UNCHANGED <<Edge(s), Remade(s)>>
        \/ ~Edge(s)' /\ UNCHANGED Remade(s)
        \/ Remade(s) /\ ~Remade(s)'
    <3>1. CASE s # h.fd
      BY <2>2, <3>1, LoopTakes DEF Edge, Remade, history
    <3>2. CASE s = h.fd /\ ~h.on
      BY <2>2, <3>2, LoopTakes DEF Edge, Remade, history
    <3>3. CASE s = h.fd /\ h.on
      BY <2>2, <2>3, <2>4, <3>3, LoopTakes DEF Edge, Remade, history
    <3>4. QED
      BY <2>2, <3>1, <3>2, <3>3, LoopTakes
  <2>6. QED
    BY <1>0, <2>2, <2>5, Sizes DEF Owed, Granted, Once, CancelWrites, userVars, history
<1>7. CASE LoopRegsDone /\ UNCHANGED <<run, working, thdVars, armed, due, userVars, history>>
  <2>2. NoItem(regs, s)
    BY <1>7 DEF LoopRegsDone, NoItem
  <2>3. ~OffIn(regs, s)
    BY <2>2, NoItemHolds
  <2>4. QED
    BY <1>7, <1>0, <2>3, Sizes DEF Owed, Granted, Once, Edge, Remade, CancelWrites,
         LoopRegsDone, userVars, history, thdVars
<1>8. CASE Exit
  BY <1>8, <1>0, Sizes DEF Owed, Granted, Once, Edge, Remade, CancelWrites, Exit, LoopExit,
       Move
<1>9. CASE RunReturn
  BY <1>9, <1>0, Sizes DEF Owed, Granted, Once, Edge, Remade, CancelWrites, RunReturn, Move
<1>10. CASE CancelWake
  BY <1>10, <1>0, Sizes DEF Owed, Granted, Once, Edge, Remade, CancelWrites, CancelWake, Move
<1>11. CASE CancelJoin
  BY <1>11, <1>0, Sizes DEF Owed, Granted, Once, Edge, Remade, CancelWrites, CancelJoin, Move
<1>12. CASE ExitJoin
  BY <1>12, <1>0, Sizes DEF Owed, Granted, Once, Edge, Remade, CancelWrites, ExitJoin,
       LoopJoined, Move
<1>13. ASSUME NEW t \in Thds, TimerExpire(t)
      PROVE  Owed(s)' <= Granted(s)'
  <2>2. CASE s = t
    BY <1>13, <1>0, <2>2, Sizes DEF Owed, Granted, Once, Edge, Remade, CancelWrites, TimerExpire
  <2>3. CASE s # t
    BY <1>13, <1>0, <2>3, Sizes DEF Owed, Granted, Once, Edge, Remade, CancelWrites, TimerExpire
  <2>4. QED
    BY <2>2, <2>3
<1>14. ASSUME NEW t \in Thds, TimerCall(t)
      PROVE  Owed(s)' <= Granted(s)'
  <2>2. CASE s = t
    BY <1>14, <1>0, <2>2, Sizes DEF Owed, Granted, Once, Edge, Remade, CancelWrites,
         TimerCall, Post
  <2>3. CASE s # t
    BY <1>14, <1>0, <2>3, Sizes DEF Owed, Granted, Once, Edge, Remade, CancelWrites,
         TimerCall, Post
  <2>4. QED
    BY <2>2, <2>3
<1>15. ASSUME NEW t \in Thds, ThdReg(t)
      PROVE  Owed(s)' <= Granted(s)'
  <2>2. /\ ListReg(t, TRUE) /\ tpc[t] = "begin" /\ tpc' = [tpc EXCEPT ![t] = "announce"]
        /\ UNCHANGED <<written, edges, fired, lpc, run, sem, due, userVars, history>>
    BY <1>15 DEF ThdReg, Goto, ListReg
  <2> HIDE DEF ListReg
  <2>3. CASE s = t
    <3>1. (Edge(s)' => Edge(s)) /\ (Remade(s)' => Remade(s))
      BY <2>2, <2>3, ListGrows, Sizes DEF Edge, Remade, history
    <3>2. QED
      BY <1>0, <2>2, <2>3, <3>1, Sizes DEF Owed, Granted, Once, CancelWrites, userVars, history
  <2>4. CASE s # t
    BY <1>0, <2>2, <2>4, ListGrows, Sizes DEF Owed, Granted, Once, Edge, Remade,
         CancelWrites, userVars, history
  <2>5. QED
    BY <2>3, <2>4
<1>16. ASSUME NEW t \in Thds, ThdAnnounce(t)
      PROVE  Owed(s)' <= Granted(s)'
  <2>2. s # Own
    BY EvLoopAssumption DEF EvLoopAssumption, Thds
  <2>3. CASE s = t
    BY <1>16, <1>0, <2>2, <2>3, Sizes DEF Owed, Granted, Once, Edge, Remade, CancelWrites,
         ThdAnnounce, Goto, AnnounceReg, userVars, history
  <2>4. CASE s # t
    BY <1>16, <1>0, <2>2, <2>4, Sizes DEF Owed, Granted, Once, Edge, Remade, CancelWrites,
         ThdAnnounce, Goto, AnnounceReg, userVars, history
  <2>5. QED
    BY <2>3, <2>4
<1>17. ASSUME NEW t \in Thds, ThdArm(t)
      PROVE  Owed(s)' <= Granted(s)'
  <2>2. CASE s = t
    BY <1>17, <1>0, <2>2, Sizes DEF Owed, Granted, Once, Edge, Remade, CancelWrites, ThdArm,
         Goto
  <2>3. CASE s # t
    BY <1>17, <1>0, <2>3, Sizes DEF Owed, Granted, Once, Edge, Remade, CancelWrites, ThdArm,
         Goto
  <2>4. QED
    BY <2>2, <2>3
<1>18. ASSUME NEW t \in Thds, ThdUp(t)
      PROVE  Owed(s)' <= Granted(s)'
  <2>2. CASE s = t
    BY <1>18, <1>0, <2>2, Sizes DEF Owed, Granted, Once, Edge, Remade, CancelWrites, ThdUp, Goto
  <2>3. CASE s # t
    BY <1>18, <1>0, <2>3, Sizes DEF Owed, Granted, Once, Edge, Remade, CancelWrites, ThdUp, Goto
  <2>4. QED
    BY <2>2, <2>3
<1>19. ASSUME NEW t \in Thds, ThdCheck(t)
      PROVE  Owed(s)' <= Granted(s)'
  <2>2. CASE s = t
    BY <1>19, <1>0, <2>2, Sizes DEF Owed, Granted, Once, Edge, Remade, CancelWrites,
         ThdCheck, Goto
  <2>3. CASE s # t
    BY <1>19, <1>0, <2>3, Sizes DEF Owed, Granted, Once, Edge, Remade, CancelWrites,
         ThdCheck, Goto
  <2>4. QED
    BY <2>2, <2>3
<1>20. ASSUME NEW t \in Thds, ThdWake(t)
      PROVE  Owed(s)' <= Granted(s)'
  <2>2. CASE s = t
    BY <1>20, <1>0, <2>2, Sizes DEF Owed, Granted, Once, Edge, Remade, CancelWrites, ThdWake,
         Goto
  <2>3. CASE s # t
    BY <1>20, <1>0, <2>3, Sizes DEF Owed, Granted, Once, Edge, Remade, CancelWrites, ThdWake,
         Goto
  <2>4. QED
    BY <2>2, <2>3
<1>21. ASSUME NEW t \in Thds, ThdTimeout(t)
      PROVE  Owed(s)' <= Granted(s)'
  <2>2. CASE s = t
    BY <1>21, <1>0, <2>2, Sizes DEF Owed, Granted, Once, Edge, Remade, CancelWrites,
         ThdTimeout, Goto
  <2>3. CASE s # t
    BY <1>21, <1>0, <2>3, Sizes DEF Owed, Granted, Once, Edge, Remade, CancelWrites,
         ThdTimeout, Goto
  <2>4. QED
    BY <2>2, <2>3
<1>22. ASSUME NEW t \in Thds, ThdWork(t)
      PROVE  Owed(s)' <= Granted(s)'
  <2>2. CASE s = t
    BY <1>22, <1>0, <2>2, Sizes DEF Owed, Granted, Once, Edge, Remade, CancelWrites, ThdWork,
         Goto
  <2>3. CASE s # t
    BY <1>22, <1>0, <2>3, Sizes DEF Owed, Granted, Once, Edge, Remade, CancelWrites, ThdWork,
         Goto
  <2>4. QED
    BY <2>2, <2>3
<1>23. ASSUME NEW t \in Thds, ThdSkip(t)
      PROVE  Owed(s)' <= Granted(s)'
  <2>2. CASE s = t
    BY <1>23, <1>0, <2>2, Sizes DEF Owed, Granted, Once, Edge, Remade, CancelWrites, ThdSkip,
         Goto
  <2>3. CASE s # t
    BY <1>23, <1>0, <2>3, Sizes DEF Owed, Granted, Once, Edge, Remade, CancelWrites, ThdSkip,
         Goto
  <2>4. QED
    BY <2>2, <2>3
<1>24. ASSUME NEW t \in Thds, ThdDown(t)
      PROVE  Owed(s)' <= Granted(s)'
  <2>2. CASE s = t
    BY <1>24, <1>0, <2>2, Sizes DEF Owed, Granted, Once, Edge, Remade, CancelWrites, ThdDown,
         Goto
  <2>3. CASE s # t
    BY <1>24, <1>0, <2>3, Sizes DEF Owed, Granted, Once, Edge, Remade, CancelWrites, ThdDown,
         Goto
  <2>4. QED
    BY <2>2, <2>3
<1>25. ASSUME NEW t \in Thds, ThdDereg(t)
      PROVE  Owed(s)' <= Granted(s)'
  <2>2. /\ ListReg(t, FALSE) /\ tpc[t] = "dereg" /\ tpc' = [tpc EXCEPT ![t] = "retract"]
        /\ UNCHANGED <<written, edges, fired, lpc, run, sem, due, userVars, history>>
    BY <1>25 DEF ThdDereg, Goto, ListReg
  <2> HIDE DEF ListReg
  <2>3. CASE s = t
    <3>1. (Edge(s)' => Edge(s)) /\ (Remade(s)' => Remade(s))
      BY <2>2, <2>3, ListGrows, Sizes DEF Edge, Remade, history
    <3>2. QED
      BY <1>0, <2>2, <2>3, <3>1, Sizes DEF Owed, Granted, Once, CancelWrites, userVars, history
  <2>4. CASE s # t
    BY <1>0, <2>2, <2>4, ListGrows, Sizes DEF Owed, Granted, Once, Edge, Remade,
         CancelWrites, userVars, history
  <2>5. QED
    BY <2>3, <2>4
<1>26. ASSUME NEW t \in Thds, ThdRetract(t)
      PROVE  Owed(s)' <= Granted(s)'
  <2>2. s # Own
    BY EvLoopAssumption DEF EvLoopAssumption, Thds
  <2>3. CASE s = t
    BY <1>26, <1>0, <2>2, <2>3, Sizes DEF Owed, Granted, Once, Edge, Remade, CancelWrites,
         ThdRetract, Goto, AnnounceReg, userVars, history
  <2>4. CASE s # t
    BY <1>26, <1>0, <2>2, <2>4, Sizes DEF Owed, Granted, Once, Edge, Remade, CancelWrites,
         ThdRetract, Goto, AnnounceReg, userVars, history
  <2>5. QED
    BY <2>3, <2>4
<1>27. ASSUME NEW t \in Thds, ThdDisarm(t)
      PROVE  Owed(s)' <= Granted(s)'
  <2>2. CASE s = t
    BY <1>27, <1>0, <2>2, Sizes DEF Owed, Granted, Once, Edge, Remade, CancelWrites,
         ThdDisarm, Goto
  <2>3. CASE s # t
    BY <1>27, <1>0, <2>3, Sizes DEF Owed, Granted, Once, Edge, Remade, CancelWrites,
         ThdDisarm, Goto
  <2>4. QED
    BY <2>2, <2>3
<1>28. ASSUME NEW t \in Thds, Run(t)
      PROVE  Owed(s)' <= Granted(s)'
  <2>2. /\ runs' = [runs EXCEPT ![t] = runs[t] + 1] /\ tpc' = [tpc EXCEPT ![t] = "begin"]
        /\ run' = [run EXCEPT ![t] = TRUE] /\ upc' = [upc EXCEPT ![Main] = "await"]
        /\ upc[Main] = "idle" /\ ~run[t]
        /\ UNCHANGED <<loopVars, sem, due, events, works>>
    BY <1>28 DEF Run, Move
  <2>3. /\ FirstRunOf(s) /\ (run[s] => tpc[s] # "none") /\ (~run[s] => tpc[s] = "none")
    BY <2>2 DEF ThdInv, FirstRun, Lives, LivesOf, Cancelling
  <2>4. CASE s = t /\ runs[s] = 0
    <3>1. ~OnLast(regs, s)
      BY <2>3, <2>4, NoItemHolds DEF FirstRunOf
    <3>2. QED
      BY <2>2, <2>3, <2>4, <3>1, Sizes DEF Owed, Granted, Once, Edge, Remade, CancelWrites,
           FirstRunOf, loopVars
  <2>5. CASE s = t /\ runs[s] # 0
    BY <1>0, <2>2, <2>3, <2>5, Sizes DEF Owed, Granted, Once, Edge, Remade, CancelWrites,
         loopVars
  <2>6. CASE s # t
    BY <1>0, <2>2, <2>6, Sizes DEF Owed, Granted, Once, Edge, Remade, CancelWrites, loopVars
  <2>7. QED
    BY <2>4, <2>5, <2>6
<1>29. ASSUME NEW t \in Thds, Cancel(t)
      PROVE  Owed(s)' <= Granted(s)'
  <2>2. CASE s = t
    BY <1>29, <1>0, <2>2, Sizes DEF Owed, Granted, Once, Edge, Remade, CancelWrites, Cancel,
         Move, At
  <2>3. CASE s # t
    BY <1>29, <1>0, <2>3, Sizes DEF Owed, Granted, Once, Edge, Remade, CancelWrites, Cancel,
         Move, At
  <2>4. QED
    BY <2>2, <2>3
<1>30. ASSUME NEW u \in Wakers, NEW t \in Thds, Wake(u, t)
      PROVE  Owed(s)' <= Granted(s)'
  <2>2. u # Main /\ u \in Users
    BY EvThreadAssumption DEF EvThreadAssumption, Users
  <2>3. QED
    BY <1>30, <1>0, <2>2, Sizes DEF Owed, Granted, Once, Edge, Remade, CancelWrites, Wake,
         Move, At, loopVars, thdVars, history
<1>31. ASSUME NEW u \in Users, WakeStop(u)
      PROVE  Owed(s)' <= Granted(s)'
  BY <1>31, <1>0, Sizes DEF Owed, Granted, Once, Edge, Remade, CancelWrites, WakeStop, Move
<1>32. ASSUME NEW u \in Users, WakeWrite(u)
      PROVE  Owed(s)' <= Granted(s)'
  <2> DEFINE t == on[u]
  <2>2. /\ t \in Thds /\ upc[u] = "write" /\ upc' = [upc EXCEPT ![u] = "start"]
        /\ written' = written \cup {t}
        /\ edges' = IF t \in listening THEN edges \cup {t} ELSE edges
        /\ events' = IF op[u] = "wake" THEN [events EXCEPT ![t] = events[t] + 1] ELSE events
        /\ UNCHANGED <<regs, fired, lpc, run, sem, tpc, due, on, runs, works>>
    BY <1>32, Sizes DEF WakeWrite, Move, WriteFd, Told, thdVars
  <2>3. IF u = Main THEN op[u] = "cancel" ELSE op[u] = "wake"
    BY <2>2, EvThreadAssumption DEF ThdInv, Lives, WakersWake, EvThreadAssumption, Users
  <2>4. Edge(s)' /\ ~Edge(s) => ~(Remade(s)' /\ ~Remade(s))
    <3>1. SUFFICES ASSUME Edge(s)', ~Edge(s), Remade(s)', ~Remade(s) PROVE FALSE
      OBVIOUS
    <3>2. s = t /\ s \in listening /\ runs[s] = 1 /\ (tpc[s] = "begin" \/ OnLast(regs, s))
      BY <2>2, <3>1, Sizes DEF Edge, Remade
    <3>3. /\ tpc[s] \in {"begin"} \cup Registered => NoItem(regs, s)
          /\ tpc[s] # "begin"
          /\ OnLast(regs, s) => tpc[s] \in Registered
      BY <3>2 DEF ThdInv, FirstRun, FirstRunOf, Settled
    <3>4. QED
      BY <3>2, <3>3, NoItemHolds
  <2>5. CASE s = t
    BY <1>0, <2>2, <2>3, <2>4, <2>5, Sizes DEF Owed, Granted, Once, CancelWrites
  <2>6. CASE s # t
    BY <1>0, <2>2, <2>3, <2>6, Sizes DEF Owed, Granted, Once, Edge, Remade, CancelWrites
  <2>7. QED
    BY <2>5, <2>6
<1>33. ASSUME NEW u \in Users, WakeStart(u)
      PROVE  Owed(s)' <= Granted(s)'
  BY <1>33, <1>0, Sizes DEF Owed, Granted, Once, Edge, Remade, CancelWrites, WakeStart, Move
<1>34. CASE UNCHANGED vars
  BY <1>34, <1>0, Sizes DEF Owed, Granted, Once, Edge, Remade, CancelWrites, vars
<1>35. QED
  BY <1>1, <1>2, <1>3, <1>4, <1>5, <1>6, <1>7, <1>8, <1>9, <1>10, <1>11, <1>12, <1>13, <1>14,
       <1>15, <1>16, <1>17, <1>18, <1>19, <1>20, <1>21, <1>22, <1>23, <1>24, <1>25, <1>26,
       <1>27, <1>28, <1>29, <1>30, <1>31, <1>32, <1>33, <1>34 DEF Next, Loop, LoopStep,
       Working, ThdStep, Waking

\* The loop polls with nothing left to dispatch.
LEMMA PollsStep == ThdInv /\ [Next]_vars => Polls'
<1> SUFFICES ASSUME ThdInv, [Next]_vars PROVE Polls'
  OBVIOUS
<1> USE DEF loopVars, thdVars, userVars, history
<1>1. ASSUME NEW t \in Thds, Dispatch(t)
      PROVE  Polls'
  BY <1>1 DEF Dispatch, LoopDispatch, Calls, Post, ThdInv, Polls, TypeOK, LoopTypeOK, Users
<1>2. CASE /\ LoopStart \/ LoopTest \/ LoopPoll \/ LoopDispatchOwn \/ LoopReg
           /\ UNCHANGED <<run, working, thdVars, armed, due, userVars, history>>
  BY <1>2 DEF LoopStart, LoopTest, LoopPoll, LoopDispatchOwn, LoopReg, Handle, ThdInv, Polls,
       TypeOK, LoopTypeOK, Users
<1>3. CASE LoopRegsDone /\ UNCHANGED <<run, working, thdVars, armed, due, userVars, history>>
  BY <1>3 DEF LoopRegsDone, ThdInv, Polls, TypeOK, LoopTypeOK, Users
<1>4. CASE Exit \/ RunReturn \/ CancelWake \/ CancelJoin \/ ExitJoin
  BY <1>4 DEF Exit, LoopExit, Move, RunReturn, CancelWake, CancelJoin, ExitJoin, LoopJoined,
       ThdInv, Polls, TypeOK, LoopTypeOK, Users
<1>5. ASSUME NEW t \in Thds,
             TimerExpire(t) \/ TimerCall(t) \/ ThdReg(t) \/ ThdAnnounce(t) \/ ThdArm(t)
      PROVE  Polls'
  BY <1>5 DEF TimerExpire, TimerCall, Post, ThdReg, Goto, ListReg, ThdAnnounce, AnnounceReg,
       ThdArm, ThdInv, Polls, TypeOK, LoopTypeOK, Users
<1>6. ASSUME NEW t \in Thds,
             ThdUp(t) \/ ThdCheck(t) \/ ThdWake(t) \/ ThdTimeout(t) \/ ThdWork(t)
      PROVE  Polls'
  BY <1>6 DEF ThdUp, Goto, ThdCheck, ThdWake, ThdTimeout, ThdWork, ThdInv, Polls, TypeOK,
       LoopTypeOK, Users
<1>7. ASSUME NEW t \in Thds,
             ThdSkip(t) \/ ThdDown(t) \/ ThdDereg(t) \/ ThdRetract(t) \/ ThdDisarm(t)
      PROVE  Polls'
  BY <1>7 DEF ThdSkip, Goto, ThdDown, ThdDereg, ListReg, ThdRetract, AnnounceReg, ThdDisarm,
       ThdInv, Polls, TypeOK, LoopTypeOK, Users
<1>8. ASSUME NEW t \in Thds,
             Run(t) \/ Cancel(t)
      PROVE  Polls'
  BY <1>8 DEF Run, Move, At, Cancel, ThdInv, Polls, TypeOK, LoopTypeOK, Users
<1>9. ASSUME NEW u \in Wakers, NEW t \in Thds, Wake(u, t)
      PROVE  Polls'
  BY <1>9 DEF Wake, Move, At, ThdInv, Polls, TypeOK, LoopTypeOK, Users
<1>10. ASSUME NEW u \in Users,
             WakeStop(u) \/ WakeWrite(u) \/ WakeStart(u)
      PROVE  Polls'
  BY <1>10 DEF WakeStop, Move, WakeWrite, WriteFd, Told, WakeStart, ThdInv, Polls, TypeOK,
       LoopTypeOK, Users
<1>11. CASE UNCHANGED vars
  BY <1>11 DEF vars, ThdInv, Polls, TypeOK, LoopTypeOK, Users
<1>12. QED
  BY <1>1, <1>2, <1>3, <1>4, <1>5, <1>6, <1>7, <1>8, <1>9, <1>10, <1>11 DEF Next, Loop,
       LoopStep, Working, ThdStep, Waking

\* The initial states keep it, and so every state does.
LEMMA ThdInitially == Init => ThdInv
<1> SUFFICES ASSUME Init PROVE ThdInv
  OBVIOUS
<1>1. TypeOK
  <2>1. LoopTypeOK
    BY EmptySeq DEF Init, LoopInit, LoopTypeOK
  <2>2. runs \in [Thds -> 0..MaxRuns]
    BY EvThreadAssumption DEF Init, EvThreadAssumption
  <2>3. QED
    BY <2>1, <2>2 DEF Init, TypeOK
<1>2. \A t \in Thds : NoItem(regs, t)
  BY DEF Init, LoopInit, NoItem
<1>3. Lists /\ Settled
  BY <1>2, NoItemHolds DEF Init, LoopInit, Lists, Settled, HasLast, Alternates, NoItem,
       Registered
<1>4. RegistrationTold /\ WorkNeedsEvent /\ Polls
  BY DEF Init, LoopInit, RegistrationTold, WorkNeedsEvent, Polls
<1>5. Lives
  BY EvThreadAssumption DEF Init, Lives, LivesOf, WakersWake, Cancelling, Users,
       EvThreadAssumption
<1>6. FirstRun /\ Budget
  BY <1>2, NoItemHolds DEF Init, LoopInit, FirstRun, FirstRunOf, Budget
<1>7. QED
  BY <1>1, <1>3, <1>4, <1>5, <1>6 DEF ThdInv

LEMMA SpecThdInv == Spec => []ThdInv
<1>1. ThdInv /\ [Next]_vars => ThdInv'
  <2> SUFFICES ASSUME ThdInv, [Next]_vars PROVE ThdInv'
    OBVIOUS
  <2>1. /\ TypeOK' /\ RegistrationTold' /\ WorkNeedsEvent' /\ Lists' /\ Settled'
        /\ Lives' /\ Polls' /\ FirstRun' /\ Budget'
    BY TypesStep, ToldStep, WorksStep, ListsStep, SettledStep, LivesStep, PollsStep,
       FirstRunStep, BudgetStep
  <2>2. QED
    BY <2>1 DEF ThdInv
<1>2. QED
  BY ThdInitially, <1>1, PTL DEF Spec

\* What the loop will watch, read off the last item of the list.
LEMMA WillListenIs ==
  ASSUME TypeOK, NEW t \in Thds, HasLast(regs, t)
  PROVE  WillListen(t) <=> OnLast(regs, t) \/ (NoItem(regs, t) /\ t \in listening)
<1> DEFINE its == {i \in 1..Len(regs) : regs[i].fd = t}
<1>1. regs \in Seq(Items) /\ Len(regs) \in Nat
  BY DEF TypeOK, LoopTypeOK, Items
<1>2. CASE its = {}
  <2>1. NoItem(regs, t)
    BY <1>2 DEF NoItem
  <2>2. QED
    BY <1>2, <2>1, NoItemHolds DEF WillListen
<1>3. CASE its # {}
  <2>1. ~NoItem(regs, t)
    BY <1>3 DEF NoItem
  <2>2. PICK i \in 1..Len(regs) : IsLast(regs, t, i)
    BY <2>1 DEF HasLast
  <2>3. i \in its /\ \A j \in its : j <= i
    BY <1>1, <2>2 DEF IsLast
  <2>4. \A k \in its : (\A j \in its : j <= k) <=> k = i
    BY <1>1, <2>3
  <2>5. (CHOOSE k \in its : \A j \in its : j <= k) = i
    BY <2>3, <2>4
  <2>6. WillListen(t) <=> regs[i].on
    BY <1>3, <2>5 DEF WillListen
  <2>7. \A k \in 1..Len(regs) : IsLast(regs, t, k) => k = i
    BY <1>1, <2>2 DEF IsLast
  <2>8. QED
    BY <2>1, <2>2, <2>6, <2>7 DEF OnLast
<1>4. QED
  BY <1>2, <1>3

\* The registrations of the event threads add up, through every run, to what the
\* threads are between their start and their end, and a request in the list has
\* been told to the loop: ev_thd_event_init, ev_thd_event_fini and _el_main.
THEOREM ThdRegistrationKept == Spec => []RegistrationKept
<1>1. ThdInv => RegistrationKept
  <2> SUFFICES ASSUME ThdInv, NEW t \in Thds
               PROVE  WillListen(t) <=> tpc[t] \in Registered
    BY DEF RegistrationKept, RegistrationSettles, ThdInv
  <2>1. TypeOK /\ HasLast(regs, t)
    BY DEF ThdInv, Lists
  <2>2. OnLast(regs, t) \/ (NoItem(regs, t) /\ t \in listening) <=> tpc[t] \in Registered
    BY DEF ThdInv, Settled
  <2>3. QED
    BY <2>1, <2>2, WillListenIs
<1>2. QED
  BY SpecThdInv, <1>1, PTL

\* A thread works once at most for each wake and each expiry of its timer, and
\* twice more for each later run: the semaphore, the eventfd and the callbacks
\* that are still under way lose count of nothing and add nothing.
THEOREM ThdWorkNeedsEvent == Spec => []WorkNeedsEvent
<1>1. ThdInv => WorkNeedsEvent
  BY DEF ThdInv
<1>2. QED
  BY SpecThdInv, <1>1, PTL
=============================================================================
