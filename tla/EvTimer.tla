------------------------------ MODULE EvTimer ------------------------------
(***************************************************************************)
(* The low-resolution timers of lib/event/ev_timer.c: a heap of timers     *)
(* behind a spin lock, two atomic flags per timer that no lock protects,   *)
(* and the thread low_res_clock, which every 100 ms advances the clock,    *)
(* takes a batch of expired timers out of the heap and submits their       *)
(* callbacks to a thread pool.                                             *)
(*                                                                         *)
(* A step is one access to a flag, or one section under the lock.  The     *)
(* heap is the set of its members: its order is lib/type's business.       *)
(***************************************************************************)
EXTENDS Naturals, Sequences, FiniteSets

CONSTANTS Timers,       \* the timers, created and not started
          Users,        \* the threads that start and destroy them
          Timeout,      \* [Timers -> Nat], ev_timer_t.timeout
          Batch,        \* EV_TIMER_BATCH
          Destroyed,    \* the timers for which ev_timer_destroy is called
          MaxTime,      \* bound: how far the time goes
          MaxStarts     \* bound: how many times each timer is started

Clock == "low_res_clock"
NoOne == "no one"

\* Assumed of the constants.
EvTimerAssumption ==
  /\ IsFiniteSet(Timers) /\ Timeout \in [Timers -> Nat \ {0}]
  /\ Batch \in Nat \ {0} /\ Destroyed \subseteq Timers
  /\ MaxTime \in Nat /\ MaxStarts \in Nat
  /\ Users \cap {Clock, NoOne} = {}

VARIABLES
  now, curr,            \* the monotonic time, and g_curr_ms
  heap, lock,           \* g_ev_timer_heap, and who has g_heap_spinlock
  actived, deleted, expired,    \* the fields of each timer
  kpc, top, batch,      \* the clock thread: where it is, the timer it looks
                        \* at, expired_batch
  upc, on,              \* each user: where it is, and its timer
  freed,                \* the timers destroyed
  started, fired,       \* history: starts that took effect, callbacks submitted
  stopped,              \* history: timers stopped since they were put in the heap
  strayed               \* history: has the wrong timer been deleted from the heap?

timerVars == <<actived, deleted, expired>>
clockVars == <<now, curr, kpc, top, batch, fired>>
userVars == <<upc, on, freed, started>>
heapVars == <<heap, stopped, strayed>>
vars == <<heapVars, lock, timerVars, clockVars, userVars>>

Init ==
  /\ now = 0 /\ curr = 0 /\ heap = {} /\ lock = NoOne
  /\ actived = [t \in Timers |-> 0] /\ deleted = [t \in Timers |-> 0]
  /\ expired = Timeout
  /\ kpc = "sleep" /\ top \in Timers /\ batch = <<>>
  /\ upc = [u \in Users |-> "idle"] /\ on \in [Users -> Timers]
  /\ freed = {}
  /\ started = [t \in Timers |-> 0] /\ fired = [t \in Timers |-> 0]
  /\ stopped = {} /\ strayed = FALSE

-----------------------------------------------------------------------------
(* _low_res_clock_work *)

\* Time passes, and goes on while a timer in the heap has not expired.
Tick ==
  /\ now < MaxTime \/ \E t \in heap : expired[t] > now
  /\ now' = now + 1
  /\ UNCHANGED <<heapVars, lock, timerVars, curr, kpc, top, batch, fired, userVars>>

\* The clock is set to the monotonic time.
ClockSet ==
  /\ kpc = "sleep" /\ kpc' = "lock"
  /\ curr' = now
  /\ UNCHANGED <<heapVars, lock, timerVars, now, top, batch, fired, userVars>>

ClockLock ==
  /\ kpc = "lock" /\ kpc' = "look"
  /\ lock = NoOne /\ lock' = Clock
  /\ UNCHANGED <<heapVars, timerVars, now, curr, top, batch, fired, userVars>>

\* Is there a timer to take?  Only the top is looked at, for its deleted mark
\* and then for its time.
Tops == {t \in heap : \A u \in heap : expired[t] <= expired[u]}
Full == Len(batch) = Batch

ClockLook_Unbounded ==          \* mutant: the batch is not limited
  /\ kpc = "look"
  /\ top' \in Tops
  /\ \/ deleted[top'] = 1 /\ kpc' = "drop"
     \/ deleted[top'] = 0 /\ expired[top'] <= curr /\ kpc' = "take"
  /\ UNCHANGED <<heapVars, lock, timerVars, now, curr, batch, fired, userVars>>

ClockLook ==
  /\ kpc = "look"
  /\ ~Full
  /\ top' \in Tops
  /\ \/ deleted[top'] = 1 /\ kpc' = "drop"
     \/ deleted[top'] = 0 /\ expired[top'] <= curr /\ kpc' = "take"
  /\ UNCHANGED <<heapVars, lock, timerVars, now, curr, batch, fired, userVars>>

\* No, or the batch is full: the lock is left.
ClockUnlock ==
  /\ kpc = "look" /\ kpc' = "submit"
  /\ \/ Full \/ heap = {}
     \/ \E t \in Tops : deleted[t] = 0 /\ expired[t] > curr
  /\ lock' = NoOne
  /\ UNCHANGED <<heapVars, timerVars, now, curr, top, batch, fired, userVars>>

\* A timer that was stopped leaves the heap, and its flags are reset one after
\* the other.
ClockDrop ==
  /\ kpc = "drop" /\ kpc' = "reset"
  /\ heap' = heap \ {top} /\ stopped' = stopped \ {top}
  /\ actived' = [actived EXCEPT ![top] = 0]
  /\ UNCHANGED <<lock, deleted, expired, now, curr, top, batch, fired, userVars, strayed>>

ClockReset ==
  /\ kpc = "reset" /\ kpc' = "look"
  /\ deleted' = [deleted EXCEPT ![top] = 0]
  /\ UNCHANGED <<heapVars, lock, actived, expired, now, curr, top, batch, fired, userVars>>

ClockTake_Kept ==               \* mutant: the timer stays in the heap
  /\ kpc = "take" /\ kpc' = "look"
  /\ actived' = [actived EXCEPT ![top] = 0]
  /\ batch' = Append(batch, top)
  /\ UNCHANGED <<heapVars, lock, deleted, expired, now, curr, top, fired, userVars>>

\* An expired timer goes from the heap to the batch.
ClockTake ==
  /\ kpc = "take" /\ kpc' = "look"
  /\ heap' = heap \ {top}
  /\ actived' = [actived EXCEPT ![top] = 0]
  /\ batch' = Append(batch, top)
  /\ UNCHANGED <<lock, deleted, expired, now, curr, top, fired, userVars, stopped, strayed>>

\* Outside the lock the callbacks are submitted, each read from its timer; one
\* that was destroyed meanwhile is no longer there to be read.
ClockSubmit ==
  /\ kpc = "submit"
  /\ IF batch = <<>> THEN kpc' = "sleep" /\ UNCHANGED <<batch, fired>>
     ELSE IF Head(batch) \in freed
     THEN kpc' = "crashed" /\ UNCHANGED <<batch, fired>>
     ELSE /\ kpc' = kpc /\ batch' = Tail(batch)
          /\ fired' = [fired EXCEPT ![Head(batch)] = @ + 1]
  /\ UNCHANGED <<heapVars, lock, timerVars, now, curr, top, userVars>>

Ticking ==
  \/ ClockSet \/ ClockLock \/ ClockLook \/ ClockUnlock \/ ClockDrop
  \/ ClockReset \/ ClockTake \/ ClockSubmit

-----------------------------------------------------------------------------
(* ev_timer_start, ev_timer_stop, ev_timer_destroy *)

Goto(u, from, to) == upc[u] = from /\ upc' = [upc EXCEPT ![u] = to]

\* ev_timer_heap_del.  For a timer that is not in the heap the position it
\* remembers is another's, which is removed in its place (NDEBUG: the assertion
\* is not compiled); in an empty heap the count wraps, and the process ends.
Remove(u, from, to) ==
  /\ lock = NoOne
  /\ IF on[u] \in heap
     THEN heap' = heap \ {on[u]} /\ Goto(u, from, to) /\ strayed' = strayed
     ELSE /\ strayed' = TRUE
          /\ IF heap = {} THEN heap' = heap /\ Goto(u, from, "crashed")
             ELSE \E x \in heap : heap' = heap \ {x} /\ Goto(u, from, to)
  /\ stopped' = stopped \ {on[u]}

\* No other user is at the timer, or none is destroying it.
Quiet(u, t) == \A v \in Users \ {u} : upc[v] # "idle" => on[v] # t
Kept(t) == t \notin freed /\ \A u \in Users : upc[u] \in {"unheap", "free"} => on[u] # t

\* The load of actived: a timer that is active is taken out of the heap first.
\* One user at a time starts a timer; stops and the clock come in between.
StartCall(u, t) ==
  /\ Kept(t) /\ Quiet(u, t) /\ started[t] < MaxStarts /\ now < MaxTime
  /\ Goto(u, "idle", IF actived[t] = 1 THEN "remove" ELSE "claim")
  /\ on' = [on EXCEPT ![u] = t]
  /\ UNCHANGED <<heapVars, lock, timerVars, clockVars, freed, started>>

StartRemove(u) ==
  /\ Remove(u, "remove", "clear")
  /\ UNCHANGED <<lock, timerVars, clockVars, on, freed, started>>

StartClear(u) ==
  /\ Goto(u, "clear", "claim")
  /\ actived' = [actived EXCEPT ![on[u]] = 0]
  /\ UNCHANGED <<heapVars, lock, deleted, expired, clockVars, on, freed, started>>

\* The compare-and-swap of actived 0 -> 1, tried once: the weak form may fail
\* for no reason, and the timer is not started.
StartClaim(u) ==
  \/ /\ actived[on[u]] = 0
     /\ Goto(u, "claim", "set")
     /\ actived' = [actived EXCEPT ![on[u]] = 1]
     /\ started' = [started EXCEPT ![on[u]] = @ + 1]
     /\ UNCHANGED <<heapVars, lock, deleted, expired, clockVars, on, freed>>
  \/ /\ Goto(u, "claim", "idle")
     /\ UNCHANGED <<heapVars, lock, timerVars, clockVars, on, freed, started>>

StartSet_KeepMark(u) ==         \* mutant: a stop of long ago still counts
  /\ Goto(u, "set", "add")
  /\ expired' = [expired EXCEPT ![on[u]] = curr + Timeout[on[u]]]
  /\ UNCHANGED <<heapVars, lock, actived, deleted, clockVars, on, freed, started>>

StartSet(u) ==
  /\ Goto(u, "set", "add")
  /\ deleted' = [deleted EXCEPT ![on[u]] = 0]
  /\ expired' = [expired EXCEPT ![on[u]] = curr + Timeout[on[u]]]
  /\ UNCHANGED <<heapVars, lock, actived, clockVars, on, freed, started>>

StartAdd_Dropped(u) ==          \* mutant: the heap does not take the timer
  /\ Goto(u, "add", "idle")
  /\ lock = NoOne
  /\ UNCHANGED <<heapVars, lock, timerVars, clockVars, on, freed, started>>

StartAdd(u) ==
  /\ Goto(u, "add", "idle")
  /\ lock = NoOne
  /\ heap' = heap \cup {on[u]}
  /\ UNCHANGED <<lock, timerVars, clockVars, on, freed, started, stopped, strayed>>

Adding(t) == \E u \in Users : on[u] = t /\ upc[u] = "add"

\* A single store, from any thread.
Stop(t) ==
  /\ Kept(t)
  /\ deleted' = [deleted EXCEPT ![t] = 1]
  /\ stopped' = IF t \in heap \/ Adding(t) THEN stopped \cup {t} ELSE stopped
  /\ UNCHANGED <<heap, lock, actived, expired, clockVars, userVars, strayed>>

\* The owner of a timer destroys it while nobody else is at it.
DestroyCall(u, t) ==
  /\ t \in Destroyed /\ Kept(t) /\ Quiet(u, t)
  /\ Goto(u, "idle", IF actived[t] = 1 THEN "unheap" ELSE "free")
  /\ on' = [on EXCEPT ![u] = t]
  /\ UNCHANGED <<heapVars, lock, timerVars, clockVars, freed, started>>

DestroyRemove(u) ==
  /\ Remove(u, "unheap", "free")
  /\ UNCHANGED <<lock, timerVars, clockVars, on, freed, started>>

DestroyFree(u) ==
  /\ Goto(u, "free", "idle")
  /\ freed' = freed \cup {on[u]}
  /\ UNCHANGED <<heapVars, lock, timerVars, clockVars, on, started>>

Using(u) ==
  \/ \E t \in Timers : StartCall(u, t) \/ DestroyCall(u, t)
  \/ StartRemove(u) \/ StartClear(u) \/ StartClaim(u) \/ StartSet(u)
  \/ StartAdd(u) \/ DestroyRemove(u) \/ DestroyFree(u)

-----------------------------------------------------------------------------
Crashed == kpc = "crashed" \/ \E u \in Users : upc[u] = "crashed"

Next ==
  /\ ~Crashed
  /\ (Tick \/ Ticking \/ (\E t \in Timers : Stop(t)) \/ \E u \in Users : Using(u))

Spec == Init /\ [][Next]_vars

\* Time passes, and the clock thread runs.
FairSpec == Spec /\ WF_vars(~Crashed /\ Tick) /\ WF_vars(~Crashed /\ Ticking)

-----------------------------------------------------------------------------
TypeOK ==
  /\ now \in Nat /\ curr \in Nat /\ heap \subseteq Timers
  /\ lock \in {NoOne, Clock}
  /\ actived \in [Timers -> {0, 1}] /\ deleted \in [Timers -> {0, 1}]
  /\ expired \in [Timers -> Nat]
  /\ kpc \in {"sleep", "lock", "look", "drop", "reset", "take", "submit", "crashed"}
  /\ top \in Timers /\ batch \in Seq(Timers) /\ Len(batch) <= Batch
  /\ upc \in [Users -> {"idle", "remove", "clear", "claim", "set", "add",
                        "unheap", "free", "crashed"}]
  /\ on \in [Users -> Timers] /\ freed \subseteq Timers
  /\ started \in [Timers -> 0..MaxStarts] /\ fired \in [Timers -> Nat]
  /\ stopped \subseteq Timers /\ strayed \in BOOLEAN

\* However starts, restarts, stops and expiries interleave, each start leads to
\* at most one callback: fired, waiting in the batch, or due from the heap.
FiredOncePerStart ==
  \A t \in Timers :
    fired[t] + Cardinality({i \in 1..Len(batch) : batch[i] = t})
      + (IF t \in heap THEN 1 ELSE 0) <= started[t]

\* The flag that a start, a destroy and ev_timer_remain go by says whether the
\* timer is in the heap, but for the moments in which it is being put there or
\* taken out, and unless a stale flag had the wrong timer deleted.
ActiveInHeap ==
  \A t \in Timers :
    ~strayed /\ Kept(t) =>
      (actived[t] = 1 <=>
         t \in heap \/ \E u \in Users : on[u] = t /\ upc[u] \in {"clear", "set", "add"})

\* A timer that was put in the heap comes to be submitted, unless it is stopped,
\* or started again or destroyed before: neither a full batch nor the mark of an
\* earlier stop keeps it from it.
TimerFires ==
  \A t \in Timers :
    t \in heap \ stopped
      ~> \/ kpc = "submit" /\ \E i \in 1..Len(batch) : batch[i] = t
         \/ t \in stopped \/ \E u \in Users : on[u] = t /\ upc[u] # "idle"
         \/ strayed \/ Crashed

\* type_heap.h asserts that what is deleted from a heap is in it.
DelOfMember ==
  [][\A u \in Users :
       upc[u] \in {"remove", "unheap"} /\ upc'[u] # upc[u] => on[u] \in heap]_vars
=============================================================================
