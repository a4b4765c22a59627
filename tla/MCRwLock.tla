------------------------------ MODULE MCRwLock ------------------------------
(* The reader-writer lock: four threads, each free to read or to write at   *)
(* every call, so that two writers compete while two readers are at         *)
(* different points of ev_rd_lock.  And, one at a time, the watchdog, the   *)
(* system log and the processes: which says whose behaviour it is, and the  *)
(* others stay as they begin.                                               *)
EXTENDS RwLock

CONSTANTS None,
          Watched, Thresholds, SwdgTime,            \* of the watchdog
          LogRing, LogQueue, MaxEntries,            \* of the system log
          Procs, Unlinking,                         \* of core
          Beating, Late, Retries, MaxStart, BeatTime    \* of the heart beat

VARIABLE which

VARIABLES d_now, d_thread, d_table, d_monitor, d_warned, d_left
d_vars == <<d_now, d_thread, d_table, d_monitor, d_warned, d_left>>
D == INSTANCE Swdg WITH Tids <- Watched, MaxTime <- SwdgTime,
    now <- d_now, thread <- d_thread, table <- d_table, monitor <- d_monitor,
    warned <- d_warned, left <- d_left

VARIABLES l_made, l_queue, l_entries, l_head, l_tail, l_flushCtx, l_static,
          l_fd, l_file, l_flash, l_running, l_pc, l_has, l_exit, l_accepted,
          l_shown, l_meant, l_astray, l_raced
l_vars == <<l_made, l_queue, l_entries, l_head, l_tail, l_flushCtx, l_static,
            l_fd, l_file, l_flash, l_running, l_pc, l_has, l_exit, l_accepted,
            l_shown, l_meant, l_astray, l_raced>>
L == INSTANCE Syslog WITH Ring <- LogRing, QueueCap <- LogQueue,
    made <- l_made, queue <- l_queue, entries <- l_entries, head <- l_head,
    tail <- l_tail, flushCtx <- l_flushCtx, static <- l_static, fd <- l_fd,
    file <- l_file, flash <- l_flash, running <- l_running, pc <- l_pc,
    has <- l_has, exit <- l_exit, accepted <- l_accepted, shown <- l_shown,
    meant <- l_meant, astray <- l_astray, raced <- l_raced

VARIABLES c_core, c_core_running, c_interrupted, c_early, c_missed, c_posted,
          c_shm, c_child, c_cli, c_cli_mode, c_input
c_vars == <<c_core, c_core_running, c_interrupted, c_early, c_missed, c_posted,
            c_shm, c_child, c_cli, c_cli_mode, c_input>>
C == INSTANCE Core WITH core <- c_core, core_running <- c_core_running,
    interrupted <- c_interrupted, early <- c_early, missed <- c_missed,
    posted <- c_posted, shm <- c_shm, child <- c_child, cli <- c_cli,
    cli_mode <- c_cli_mode, input <- c_input

VARIABLES h_now, h_tries, h_beat, h_socket, h_note, h_running, h_phase, h_due,
          h_lost, h_leaving, h_begun, h_last, h_early
h_vars == <<h_now, h_tries, h_beat, h_socket, h_note, h_running, h_phase, h_due,
            h_lost, h_leaving, h_begun, h_last, h_early>>
H == INSTANCE HeartBeat WITH Procs <- Beating, MaxTime <- BeatTime, now <- h_now, tries <- h_tries,
    beat <- h_beat, socket <- h_socket, note <- h_note, running <- h_running,
    phase <- h_phase, due <- h_due, lost <- h_lost, leaving <- h_leaving,
    begun <- h_begun, last <- h_last, early <- h_early

ASSUME ProcsAssumptions ==
  D!SwdgAssumption /\ L!SyslogAssumption /\ H!HeartBeatAssumption

-----------------------------------------------------------------------------
ProcsInit ==
  /\ which \in {"lock", "swdg", "syslog", "core", "heart_beat"}
  /\ Init /\ D!Init /\ L!Init /\ C!Init /\ H!Init
  /\ which # "core" => \A p \in Procs : c_shm[p] = None

ProcsNext ==
  /\ which' = which
  /\ \/ which = "lock" /\ Next /\ UNCHANGED <<d_vars, l_vars, c_vars, h_vars>>
     \/ which = "swdg" /\ D!Next /\ UNCHANGED <<vars, l_vars, c_vars, h_vars>>
     \/ which = "syslog" /\ L!Next /\ UNCHANGED <<vars, d_vars, c_vars, h_vars>>
     \/ which = "core" /\ C!Next /\ UNCHANGED <<vars, d_vars, l_vars, h_vars>>
     \/ which = "heart_beat" /\ H!Next /\ UNCHANGED <<vars, d_vars, l_vars, c_vars>>

\* Threads that have something to do do it.
Fairness ==
  /\ \A t \in Threads : WF_vars(which = "lock" /\ Running(t))
  /\ WF_d_vars(which = "swdg" /\ D!Tick) /\ WF_d_vars(which = "swdg" /\ D!Monitor)
  /\ WF_l_vars(which = "syslog" /\ L!Consume) /\ WF_l_vars(which = "syslog" /\ L!Open)
  /\ WF_l_vars(which = "syslog" /\ (L!Flush \/ L!WriteFlush))
  /\ WF_l_vars(which = "syslog" /\ L!Exit)
  /\ WF_c_vars(which = "core" /\ C!Alive /\ C!Main)
  /\ WF_c_vars(which = "core" /\ C!Alive /\ (C!CliWake \/ C!CliHook \/ C!CliStop \/ C!CliObey))
  /\ \A p \in Procs : WF_c_vars(which = "core" /\ C!Child(p))

ProcsSpec ==
  /\ ProcsInit /\ Fairness
  /\ [][ProcsNext]_<<which, vars, d_vars, l_vars, c_vars, h_vars>>

-----------------------------------------------------------------------------
\* Syslog: what the queue takes is analysed in order, each warning that is
\* analysed is one line of the file or on its way there, and the ring holds the
\* last entries.
LogKept == L!LoggedOnce /\ L!RingIsLast
\* Core: a process ends only when core told it to, and the command line is there
\* as long as core runs.
CoreKept == C!EndsWhenTold /\ C!CommandLineStays
\* Swdg, HeartBeat: a round of the watchdog warns of the threads that are late
\* and of no other, save the ids of threads that deregistered, and a process
\* that runs and is connected is not reported as lost.
NoFalseAlarm == D!WarnsOfTheLate /\ H!NoFalseLoss
\* HeartBeat: a process that is gone is reported, and the exit is in time.
DeadIsReported == H!DeadIsReported /\ H!ExitsInTime

\* A thread that stops to feed the watchdog is reported; the log, and core with
\* its processes, come to an end when they are told to, if no flag is set after
\* it was cleared.
Settles ==
  []<>CASE which = "swdg" -> D!Reported
        [] which = "syslog" -> L!Ended
        [] which = "core" -> C!Stopped
        [] OTHER -> TRUE
=============================================================================
