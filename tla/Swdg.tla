-------------------------------- MODULE Swdg --------------------------------
(***************************************************************************)
(* lib/swdg/swdg.c: threads register with the watchdog and feed it, and a  *)
(* monitor warns of each record that was not fed for longer than its       *)
(* threshold.  The key of the table is the id of the thread, and the       *)
(* system gives the ids of threads that ended to new ones.  The handlers   *)
(* hold the lock of the table; what the monitor reads before it takes the  *)
(* lock is a step of its own.  What the threads really did is kept apart   *)
(* from what the table says of them.                                       *)
(***************************************************************************)
EXTENDS Integers

CONSTANTS Tids, None,
          Thresholds,   \* that threads register with
          MaxTime       \* bound: the clock

SwdgAssumption == Thresholds \subseteq Nat /\ None \notin Nat \cup [last : Nat, threshold : Nat]

VARIABLES
  now,                  \* low_res_cur_time_get
  thread,               \* the registered threads: when each of them last fed
                        \* the watchdog, and the threshold it asked for
  table,                \* g_swdg_thd_stats_hashtable: a record for each id
  monitor,              \* None, or the time its round began at
  warned,               \* history: the ids of the last round
  left                  \* history: the ids of threads that deregistered

vars == <<now, thread, table, monitor, warned, left>>

Init ==
  /\ now = 0 /\ thread = [t \in Tids |-> None] /\ table = [t \in Tids |-> None]
  /\ monitor = None /\ warned = {} /\ left = {}

Alive == {t \in Tids : thread[t] # None}
Recorded == {t \in Tids : table[t] # None}

Tick ==
  /\ now < MaxTime /\ now' = now + 1
  /\ UNCHANGED <<thread, table, monitor, warned, left>>

-----------------------------------------------------------------------------
\* _swdg_register.  The hash refuses a second record with the same key: the
\* new one is lost, and the old one's threshold and last_feed remain.
Register(t, threshold) ==
  LET st == [last |-> now, threshold |-> threshold]
  IN  /\ t \notin Alive /\ thread' = [thread EXCEPT ![t] = st]
      /\ table' = [table EXCEPT ![t] = IF @ = None THEN st ELSE @]
      /\ UNCHANGED <<now, monitor, warned, left>>

\* _swdg_feed.
Feed(t) ==
  /\ t \in Alive /\ thread' = [thread EXCEPT ![t].last = now]
  /\ table' = [table EXCEPT ![t].last = now]
  /\ UNCHANGED <<now, monitor, warned, left>>

\* _swdg_deregister, the last call of a thread: the key it looks up has a name
\* and the id 0, which is no thread's, and nothing is deleted.
Deregister(t) ==
  /\ t \in Alive /\ thread' = [thread EXCEPT ![t] = None] /\ left' = left \cup {t}
  /\ UNCHANGED <<now, table, monitor, warned>>

-----------------------------------------------------------------------------
(* _swdg_monitor_wf *)

MonitorStart ==
  /\ monitor = None /\ monitor' = now
  /\ UNCHANGED <<now, thread, table, warned, left>>

OverThreshold_Reached(r, curr) ==        \* mutant: already when the threshold is reached
  r.last > curr \/ curr - r.last >= r.threshold

\* curr - last is unsigned: a time that is fed after the round began is later
\* than curr, and the difference is nearly 2^64.
OverThreshold(r, curr) == r.last > curr \/ curr - r.last > r.threshold

MonitorScan ==
  /\ monitor # None /\ monitor' = None
  /\ warned' = {t \in Recorded : OverThreshold(table[t], monitor)}
  /\ UNCHANGED <<now, thread, table, left>>

Monitor == MonitorStart \/ MonitorScan

Next ==
  \/ Tick \/ Monitor
  \/ \E t \in Tids : Feed(t) \/ Deregister(t) \/ \E h \in Thresholds : Register(t, h)

Spec == Init /\ [][Next]_vars

-----------------------------------------------------------------------------
\* A thread that had not fed the watchdog for longer than it said when curr was
\* read, and one that fed it since then.
Unfed(t, curr) == t \in Alive /\ curr - thread[t].last > thread[t].threshold
Fed(t) == t \in Alive /\ thread[t].last > monitor

\* A round warns of every thread with an id of its own that was late when the
\* round began; and who it warns of is late, or feeds the watchdog between the
\* round's reading of the clock and its scan, or has the id of a thread that
\* deregistered.
WarnsOfTheLate ==
  [][monitor # None /\ monitor' = None =>
       /\ \A t \in warned' : Unfed(t, monitor) \/ Fed(t) \/ t \in left
       /\ \A t \in Tids \ left : Unfed(t, monitor) => t \in warned']_vars

\* A thread with an id of its own that stops to feed the watchdog is reported.
Reported ==
  now = MaxTime /\ monitor = None /\ \A t \in Tids \ left : Unfed(t, now) => t \in warned

\* "deregister thread from swdg" (swdg.h:66): a round warns of no thread that
\* has deregistered.
AlarmsAreForThreads == [][monitor # None /\ monitor' = None => warned' \subseteq Alive]_vars
=============================================================================
