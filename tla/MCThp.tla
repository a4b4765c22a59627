------------------------------- MODULE MCThp -------------------------------
(* The thread pool: two workers, two threads that submit up to two tasks    *)
(* each, three in all, and a pool that is run, shut down and run again.     *)
(* And, in its place, the low-resolution timers that give it their          *)
(* callbacks: two timers, with timeouts of one and two periods of the       *)
(* clock, and two starts of them in all.  which says whose behaviour it is, *)
(* and the other stays as it begins.                                        *)
EXTENDS Thp, FiniteSets

CONSTANTS Timers, Users, Timeout, Batch, Destroyed, MaxTime, MaxStarts,
          AllTasks,     \* bound: how many tasks are submitted in all
          AllStarts     \* bound: how many times a timer is started, in all

\* The timeouts of the runs: two periods for the timers that are destroyed.
OneOrTwo == [t \in Timers |-> IF t \in Destroyed THEN 2 ELSE 1]

VARIABLE which

VARIABLES e_now, e_curr, e_heap, e_lock, e_actived, e_deleted, e_expired, e_kpc,
          e_top, e_batch, e_upc, e_on, e_freed, e_started, e_fired, e_stopped,
          e_strayed
e_vars == <<e_now, e_curr, e_heap, e_lock, e_actived, e_deleted, e_expired,
            e_kpc, e_top, e_batch, e_upc, e_on, e_freed, e_started, e_fired,
            e_stopped, e_strayed>>
E == INSTANCE EvTimer WITH
    now <- e_now, curr <- e_curr, heap <- e_heap, lock <- e_lock, actived <-
    e_actived, deleted <- e_deleted, expired <- e_expired, kpc <- e_kpc, top
    <- e_top, batch <- e_batch, upc <- e_upc, on <- e_on, freed <- e_freed,
    started <- e_started, fired <- e_fired, stopped <- e_stopped, strayed <-
    e_strayed
-----------------------------------------------------------------------------
ASSUME TimerAssumptions == E!EvTimerAssumption

EventsInit ==
  /\ which \in {"thp", "timer"} /\ Init /\ E!Init
  /\ which = "thp" =>
       LET any == CHOOSE t \in Timers : TRUE
       IN  e_top = any /\ e_on = [u \in Users |-> any]

\* The two bounds: nobody submits, or claims a timer, past them.
Submitted == Cardinality({t \in Tasks : t[2] <= made[t[1]]})
Claimed ==
  Cardinality({c \in Timers \X (1..MaxStarts) : c[2] <= e_started[c[1]]})

EventsNext ==
  /\ which' = which
  /\ \/ which = "thp" /\ Next /\ UNCHANGED e_vars
     \/ which = "timer" /\ E!Next /\ UNCHANGED vars
  /\ Submitted' <= AllTasks /\ Claimed' <= AllStarts

\* Threads are scheduled, tasks return and time passes.
EventsSpec ==
  /\ EventsInit /\ [][EventsNext]_<<which, vars, e_vars>>
  /\ \A w \in Workers : WF_vars(which = "thp" /\ Working(w))
  /\ \A s \in Submitters : WF_vars(which = "thp" /\ SubmitSignal(s))
  /\ WF_vars(which = "thp" /\ \E w \in Workers : RunCreate(w) \/ RunRegister(w))
  /\ WF_e_vars(which = "timer" /\ ~E!Crashed /\ E!Tick)
  /\ WF_e_vars(which = "timer" /\ ~E!Crashed /\ E!Ticking)

-----------------------------------------------------------------------------
\* Thp: tasks start once and in order, none is left while every worker sleeps,
\* a shutdown runs what was waiting before it, and a worker finds its counter.
PoolKept ==
  TypeOK /\ TakenInOrder /\ NoTaskStranded /\ ShutdownDrains /\ StatsFound
\* EvTimer: the flag a start goes by says whether the timer is in the heap, and
\* one start leads to one callback at most.
TimersKept == E!TypeOK /\ E!ActiveInHeap /\ E!FiredOncePerStart
\* EvTimer: a timer that waits in the heap comes to be submitted.
TimerFires == E!TimerFires
\* EvTimer: what is deleted from the heap is in it, as type_heap.h asserts.
DelOfMember == E!DelOfMember
=============================================================================
