------------------------------ MODULE HeartBeat ------------------------------
(***************************************************************************)
(* procs/proc/heart_beat.c over lib/ipc/uds/uds.c: every process but core  *)
(* sends core the time each interval; a thread of core receives, and one   *)
(* more reports the processes it has not heard of for three intervals.     *)
(* Time counts quarters of the interval, the period of core's threads.  A  *)
(* thread that sleeps runs at most Late quarters after it is due: the      *)
(* system is not overloaded.                                               *)
(***************************************************************************)
EXTENDS Integers, Sequences

CONSTANTS Procs, None,
          Late,         \* assumption: the delay of a thread
          Retries,      \* UDS_SOCK_SENDER_RETRY_TIMES
          MaxStart,     \* bound: when core begins
          MaxTime       \* bound: the clock, which stops after the exit

Interval == 4           \* PROC_HEART_BEAT_INTERVAL
Workers == {"recv", "chk"}

HeartBeatAssumption == Late \in Nat /\ Late < Interval /\ Retries \in Nat /\ None \notin Nat

VARIABLES
  now,
  tries,                \* the connects each process has left, None: connected
  beat,                 \* when each process sends next, None: it does not run
  socket,               \* the datagrams in core's sockets
  note,                 \* g_heart_beat_note_array: None is the 0 it begins with
  running,              \* g_heart_beat_running, g_heart_beat_chk_running
  phase,                \* of core's threads: none, new, loop or done
  due,                  \* when they run next
  lost,                 \* the processes that the last check reported
  leaving,              \* how far proc_heart_beat_module_exit is
  begun,                \* history: when core's threads were created, and the exit
  last,                 \* history: when each process last sent
  early                 \* history: a flag was cleared before its thread set it

vars == <<now, tries, beat, socket, note, running, phase, due, lost, leaving,
          begun, last, early>>
process == <<tries, beat, last>>
core == <<note, running, phase, due, lost, leaving, begun, early>>

Init ==
  /\ now = 0 /\ tries = [p \in Procs |-> Retries]
  /\ beat = [p \in Procs |-> None] /\ socket = [p \in Procs |-> <<>>]
  /\ note = [p \in Procs |-> None] /\ lost = {}
  /\ running = [w \in Workers |-> 0] /\ phase = [w \in Workers |-> "none"]
  /\ due = [w \in Workers |-> None] /\ leaving = "no"
  /\ begun = [threads |-> None, exit |-> None]
  /\ last = [p \in Procs |-> None] /\ early = FALSE

Due(t) == t # None /\ t <= now
Overdue(t) == t # None /\ t + Late <= now
Joins(w) == leaving = w /\ phase[w] = "done"

\* The clock waits for a thread that cannot be later.
Tick ==
  /\ now < MaxTime /\ leaving # "done" /\ now' = now + 1
  /\ \A p \in Procs : ~Overdue(beat[p])
  /\ \A w \in Workers : ~Overdue(due[w]) /\ ~Joins(w)
  /\ UNCHANGED <<process, socket, core>>

-----------------------------------------------------------------------------
(* uds_mgnt_create and the thread of a process that is not core *)

Bound == begun.threads # None /\ leaving # "done"

\* A process that finds no socket tries again; after the last time it goes on
\* with a socket that is not connected, and its beats go nowhere.
Connect(p) ==
  /\ tries[p] \notin {None, 0}
  /\ tries' = [tries EXCEPT ![p] = IF Bound THEN None ELSE @ - 1]
  /\ beat' = [beat EXCEPT ![p] = IF Bound \/ tries[p] = 1 THEN now ELSE None]
  /\ UNCHANGED <<now, socket, last, core>>

Connected(p) == tries[p] = None

\* _proc_heart_beat_send.
Send(p) ==
  /\ Due(beat[p]) /\ beat' = [beat EXCEPT ![p] = now + Interval]
  /\ socket' = IF Connected(p) /\ Bound
                  THEN [socket EXCEPT ![p] = Append(@, now)] ELSE socket
  /\ last' = [last EXCEPT ![p] = now]
  /\ UNCHANGED <<now, tries, core>>

Die(p) ==
  /\ beat[p] # None /\ beat' = [beat EXCEPT ![p] = None]
  /\ UNCHANGED <<now, tries, last, socket, core>>

-----------------------------------------------------------------------------
(* core's threads *)

\* The sockets are bound, then the threads created.
Create ==
  /\ begun.threads = None /\ now <= MaxStart
  /\ begun' = [begun EXCEPT !.threads = now]
  /\ phase' = [w \in Workers |-> "new"] /\ due' = [w \in Workers |-> now]
  /\ UNCHANGED <<now, process, socket, note, running, lost, leaving, early>>

\* A thread sets its flag itself; the check sleeps for two intervals first.
Start(w) ==
  /\ phase[w] = "new" /\ phase' = [phase EXCEPT ![w] = "loop"]
  /\ running' = [running EXCEPT ![w] = 1]
  /\ due' = [due EXCEPT ![w] = IF w = "chk" THEN now + 2 * Interval ELSE now]
  /\ UNCHANGED <<now, process, socket, note, lost, leaving, begun, early>>

Wakes(w) ==
  /\ phase[w] = "loop" /\ Due(due[w])
  /\ phase' = [phase EXCEPT ![w] = IF running[w] = 1 THEN "loop" ELSE "done"]
  /\ due' = [due EXCEPT ![w] = IF running[w] = 1 THEN now + 1 ELSE None]
  /\ UNCHANGED <<now, process, running, leaving, begun, early>>

\* _proc_heart_beat_recv: one datagram of each process.
Recv_Own(w) ==                  \* mutant: the note is the time it is received at
  /\ Wakes(w) /\ UNCHANGED lost
  /\ LET from == {p \in Procs : running[w] = 1 /\ socket[p] # <<>>}
     IN /\ note' = [p \in Procs |-> IF running[w] = 1 THEN now ELSE note[p]]
        /\ socket' = [p \in Procs |-> IF p \in from THEN Tail(socket[p]) ELSE socket[p]]

Recv(w) ==
  /\ Wakes(w) /\ UNCHANGED lost
  /\ LET from == {p \in Procs : running[w] = 1 /\ socket[p] # <<>>}
     IN /\ note' = [p \in Procs |-> IF p \in from THEN socket[p][1] ELSE note[p]]
        /\ socket' = [p \in Procs |-> IF p \in from THEN Tail(socket[p]) ELSE socket[p]]

Check_Soon(w) ==                \* mutant: lost after one interval
  /\ Wakes(w) /\ UNCHANGED <<note, socket>>
  /\ lost' = IF running[w] = 0 THEN lost
             ELSE {p \in Procs : note[p] = None \/ now - note[p] > Interval}

Check(w) ==
  /\ Wakes(w) /\ UNCHANGED <<note, socket>>
  /\ lost' = IF running[w] = 0 THEN lost
             ELSE {p \in Procs : note[p] = None \/ now - note[p] > 3 * Interval}

\* _proc_heart_beat_work_cancel and the release of the sockets.
Cancel ==
  /\ \/ /\ begun.threads # None /\ leaving = "no" /\ leaving' = "chk"
        /\ begun' = [begun EXCEPT !.exit = now]
        /\ running' = [running EXCEPT !["chk"] = 0]
        /\ early' = (early \/ phase["chk"] = "new") /\ UNCHANGED socket
     \/ /\ Joins("chk") /\ leaving' = "recv"
        /\ running' = [running EXCEPT !["recv"] = 0]
        /\ early' = (early \/ phase["recv"] = "new") /\ UNCHANGED <<begun, socket>>
     \/ /\ Joins("recv") /\ leaving' = "done"
        /\ socket' = [p \in Procs |-> <<>>] /\ UNCHANGED <<running, begun, early>>
  /\ UNCHANGED <<now, process, note, phase, due, lost>>

Next ==
  \/ Tick \/ Create \/ Cancel \/ Recv("recv") \/ Check("chk")
  \/ \E w \in Workers : Start(w)
  \/ \E p \in Procs : Connect(p) \/ Send(p) \/ Die(p)

Spec == Init /\ [][Next]_vars

-----------------------------------------------------------------------------
Checks == phase["chk"] = "loop" /\ leaving = "no"

\* A process that runs and reached core's socket is reported only if its first
\* beat is so late that core cannot have received it before it checks.
FirstIsLate(p) == note[p] = None /\ (last[p] = None \/ last[p] + 1 + Late >= now)
Excused(p) == beat[p] = None \/ ~Connected(p) \/ FirstIsLate(p)
NoFalseLoss == [][\A p \in lost' \ lost : Excused(p)]_vars

\* A process that has died is reported within four intervals of its last beat,
\* one that never sent or never connected as soon as core checks.
Silent(p) ==
  \/ last[p] = None \/ ~Connected(p)
  \/ beat[p] = None /\ now > last[p] + 4 * Interval
DeadIsReported ==
  Checks /\ now > begun.threads + 2 * Interval + 2 * Late =>
    \A p \in Procs : Silent(p) => p \in lost

\* The exit takes no longer than the first sleep of the check, unless it came
\* before a thread had set its flag.
ExitsInTime ==
  leaving \in {"chk", "recv"} /\ ~early =>
    now <= begun.exit + 2 * Interval + 1 + 2 * Late
=============================================================================
