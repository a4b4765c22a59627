------------------------------ MODULE EvThread ------------------------------
(***************************************************************************)
(* The event threads of lib/event/ev_thread.c.  A thread waits, two        *)
(* seconds at most, for its semaphore, which is posted by the event loop   *)
(* when the thread's eventfd was written, and by the thread's own timer.   *)
(* ev_thd_run starts it, ev_thd_wake writes its eventfd, ev_thd_cancel     *)
(* ends it; it can be run again.                                           *)
(***************************************************************************)
EXTENDS EvLoop

CONSTANTS Main,         \* who runs and cancels the threads
          Wakers,       \* other threads that wake them
          Timed,        \* the event threads with a timeout, and so a timer
          Exits,        \* may the event loop be ended first?
          MaxRuns,      \* bound: runs of each event thread
          MaxEvents     \* bound: wakes and expiries of each; see MayHappen

Thds == Fds             \* an event thread is known by its eventfd
Users == {Main} \cup Wakers

ASSUME EvThreadAssumption ==
  /\ Main \notin Wakers /\ Timed \subseteq Thds /\ Exits \in BOOLEAN
  /\ MaxRuns \in Nat /\ MaxEvents \in Nat

VARIABLES
  run, working, sem,    \* ev_thd_attr_t of each event thread
  tpc,                  \* where the event thread is
  armed,                \* the kernel: the timers that run
  due,                  \* callbacks of the timer that were submitted
  upc, on, op,          \* each user: where it is, at which thread, doing what
  runs, events, works, woken    \* history of each thread: its runs, its wakes
                        \* and expiries, its works; is a wake unserved?

thdVars == <<sem, tpc>>
userVars == <<upc, on, op>>
history == <<runs, events, works, woken>>
vars == <<loopVars, run, working, thdVars, armed, due, userVars, history>>

Init ==
  /\ LoopInit
  /\ run = [t \in Thds |-> FALSE] /\ working = [t \in Thds |-> FALSE]
  /\ sem = [t \in Thds |-> 0] /\ tpc = [t \in Thds |-> "none"]
  /\ armed = {} /\ due = [t \in Thds |-> 0]
  /\ upc = [u \in Users |-> "idle"] /\ on \in [Users -> Thds]
  /\ op = [u \in Users |-> "wake"]
  /\ runs = [t \in Thds |-> 0] /\ events = [t \in Thds |-> 0]
  /\ works = [t \in Thds |-> 0] /\ woken = [t \in Thds |-> FALSE]

\* The bound on wakes, expiries and runs: MaxEvents in the first run, one less
\* in all with each more run, and no new run after MaxEvents of them.
MayHappen(t) == events[t] + runs[t] <= MaxEvents

-----------------------------------------------------------------------------
(* The loop calls _ev_thd_eventfd_cb, the timer's pool _ev_thd_timer_cb. *)

Post(t) == sem' = [sem EXCEPT ![t] = @ + 1]

Dispatch(t) ==
  /\ LoopDispatch(t)
  /\ IF Calls(t) THEN Post(t) ELSE sem' = sem
  /\ UNCHANGED <<run, working, tpc, armed, due, userVars, history>>

Loop ==
  \/ \E t \in Thds : Dispatch(t)
  \/ LoopStep /\ UNCHANGED <<run, working, thdVars, armed, due, userVars, history>>

\* The timer is periodic: it is not disarmed when it expires.
TimerExpire(t) ==
  /\ t \in armed /\ MayHappen(t)
  /\ due' = [due EXCEPT ![t] = @ + 1]
  /\ events' = [events EXCEPT ![t] = @ + 1]
  /\ UNCHANGED <<loopVars, run, working, thdVars, armed, userVars, runs, works, woken>>

TimerCall(t) ==
  /\ due[t] > 0 /\ due' = [due EXCEPT ![t] = @ - 1]
  /\ Post(t)
  /\ UNCHANGED <<loopVars, run, working, tpc, armed, userVars, history>>

-----------------------------------------------------------------------------
(* ev_thd_routine *)

Goto(t, from, to) == tpc[t] = from /\ tpc' = [tpc EXCEPT ![t] = to]

\* ev_thd_event_init: the eventfd is registered, the timer is started.
ThdReg(t) ==
  /\ Goto(t, "begin", "announce")
  /\ ListReg(t, TRUE)
  /\ UNCHANGED <<run, working, sem, armed, due, userVars, history>>

ThdAnnounce(t) ==
  /\ Goto(t, "announce", "arm")
  /\ AnnounceReg
  /\ UNCHANGED <<run, working, sem, armed, due, userVars, history>>

ThdArm(t) ==
  /\ Goto(t, "arm", "up")
  /\ armed' = armed \cup ({t} \cap Timed)
  /\ UNCHANGED <<loopVars, run, working, sem, due, userVars, history>>

ThdUp(t) ==
  /\ Goto(t, "up", "check")
  /\ working' = [working EXCEPT ![t] = TRUE]
  /\ UNCHANGED <<loopVars, run, sem, armed, due, userVars, history>>

ThdCheck(t) ==
  /\ Goto(t, "check", IF run[t] THEN "wait" ELSE "down")
  /\ UNCHANGED <<loopVars, run, working, sem, armed, due, userVars, history>>

ThdWake_Untested(t) ==          \* mutant: counted down before it is tested
  /\ Goto(t, "wait", IF sem[t] > 0 THEN "recheck" ELSE "check")
  /\ sem' = [sem EXCEPT ![t] = @ - 1]
  /\ UNCHANGED <<loopVars, run, working, armed, due, userVars, history>>

ThdWake(t) ==
  /\ sem[t] > 0 /\ Goto(t, "wait", "recheck")
  /\ sem' = [sem EXCEPT ![t] = @ - 1]
  /\ UNCHANGED <<loopVars, run, working, armed, due, userVars, history>>

ThdTimeout_Forever(t) == FALSE /\ UNCHANGED vars        \* mutant: no timeout

ThdTimeout_Wakes(t) ==          \* mutant: a timeout is taken for a post
  /\ sem[t] = 0 /\ Goto(t, "wait", "recheck")
  /\ UNCHANGED <<loopVars, run, working, sem, armed, due, userVars, history>>

ThdTimeout(t) ==
  /\ sem[t] = 0 /\ Goto(t, "wait", "check")
  /\ UNCHANGED <<loopVars, run, working, sem, armed, due, userVars, history>>

\* The hooks and the work.
ThdWork(t) ==
  /\ run[t] /\ Goto(t, "recheck", "check")
  /\ works' = [works EXCEPT ![t] = @ + 1] /\ woken' = [woken EXCEPT ![t] = FALSE]
  /\ UNCHANGED <<loopVars, run, working, sem, armed, due, userVars, runs, events>>

ThdSkip(t) ==
  /\ ~run[t] /\ Goto(t, "recheck", "check")
  /\ UNCHANGED <<loopVars, run, working, sem, armed, due, userVars, history>>

ThdDown(t) ==
  /\ Goto(t, "down", "dereg")
  /\ working' = [working EXCEPT ![t] = FALSE]
  /\ UNCHANGED <<loopVars, run, sem, armed, due, userVars, history>>

\* ev_thd_event_fini
ThdDereg(t) ==
  /\ Goto(t, "dereg", "retract")
  /\ ListReg(t, FALSE)
  /\ UNCHANGED <<run, working, sem, armed, due, userVars, history>>

ThdRetract_Silent(t) ==         \* mutant: the loop is not told
  /\ Goto(t, "retract", "disarm")
  /\ UNCHANGED <<loopVars, run, working, sem, armed, due, userVars, history>>

ThdRetract(t) ==
  /\ Goto(t, "retract", "disarm")
  /\ AnnounceReg
  /\ UNCHANGED <<run, working, sem, armed, due, userVars, history>>

ThdDisarm(t) ==
  /\ Goto(t, "disarm", "ended")
  /\ armed' = armed \ {t}
  /\ UNCHANGED <<loopVars, run, working, sem, due, userVars, history>>

ThdStep(t) ==
  \/ ThdReg(t) \/ ThdAnnounce(t) \/ ThdArm(t) \/ ThdUp(t) \/ ThdCheck(t)
  \/ ThdWake(t) \/ ThdTimeout(t) \/ ThdWork(t) \/ ThdSkip(t) \/ ThdDown(t)
  \/ ThdDereg(t) \/ ThdRetract(t) \/ ThdDisarm(t)

-----------------------------------------------------------------------------
(* _ev_thd_run, _ev_thd_wake and _ev_thd_cancel *)

Move(u, from, to) == upc[u] = from /\ upc' = [upc EXCEPT ![u] = to]
At(u, t, what) == on' = [on EXCEPT ![u] = t] /\ op' = [op EXCEPT ![u] = what]

\* Not once the program is on its way down.  The thread begins.
Run(t) ==
  /\ ~run[t] /\ runs[t] < MaxRuns /\ MayHappen(t) /\ lpc # "ended"
  /\ Move(Main, "idle", "await") /\ At(Main, t, "run")
  /\ run' = [run EXCEPT ![t] = TRUE] /\ tpc' = [tpc EXCEPT ![t] = "begin"]
  /\ runs' = [runs EXCEPT ![t] = @ + 1] /\ woken' = [woken EXCEPT ![t] = FALSE]
  /\ UNCHANGED <<loopVars, working, sem, armed, due, events, works>>

RunReturn ==
  /\ working[on[Main]] /\ Move(Main, "await", "idle")
  /\ UNCHANGED <<loopVars, run, working, thdVars, armed, due, on, op, history>>

Cancel(t) ==
  /\ run[t]
  /\ Move(Main, "idle", "wake") /\ At(Main, t, "cancel")
  /\ run' = [run EXCEPT ![t] = FALSE] /\ woken' = [woken EXCEPT ![t] = FALSE]
  /\ UNCHANGED <<loopVars, working, thdVars, armed, due, runs, events, works>>

\* A thread that is cancelled is woken, if it has not ended yet.
CancelWake ==
  /\ Move(Main, "wake", IF working[on[Main]] THEN "stop" ELSE "join")
  /\ UNCHANGED <<loopVars, run, working, thdVars, armed, due, on, op, history>>

CancelJoin ==
  LET t == on[Main] IN
  /\ tpc[t] = "ended" /\ Move(Main, "join", "idle")
  /\ tpc' = [tpc EXCEPT ![t] = "none"]
  /\ UNCHANGED <<loopVars, run, working, sem, armed, due, on, op, history>>

Wake(u, t) ==
  /\ working[t] /\ MayHappen(t)
  /\ Move(u, "idle", "stop") /\ At(u, t, "wake")
  /\ UNCHANGED <<loopVars, run, working, thdVars, armed, due, history>>

\* ev_thd_event_wake: the timer is stopped, the eventfd written, the timer
\* started.
WakeStop(u) ==
  /\ Move(u, "stop", "write")
  /\ armed' = armed \ {on[u]}
  /\ UNCHANGED <<loopVars, run, working, thdVars, due, on, op, history>>

Told(u) ==                      \* history: a wake of a thread that runs
  LET t == on[u] IN
  /\ events' = IF op[u] = "wake" THEN [events EXCEPT ![t] = @ + 1] ELSE events
  /\ woken' = [woken EXCEPT ![t] = @ \/ run[t]]
  /\ UNCHANGED <<runs, works>>

WakeWrite_Lost(u) ==            \* mutant: the eventfd is not written
  /\ Move(u, "write", "start")
  /\ Told(u)
  /\ UNCHANGED <<loopVars, run, working, thdVars, armed, due, on, op>>

WakeWrite(u) ==
  /\ Move(u, "write", "start")
  /\ WriteFd(on[u]) /\ Told(u)
  /\ UNCHANGED <<run, working, thdVars, armed, due, on, op>>

WakeStart(u) ==
  /\ Move(u, "start", IF op[u] = "cancel" THEN "join" ELSE "idle")
  /\ armed' = armed \cup ({on[u]} \cap Timed)
  /\ UNCHANGED <<loopVars, run, working, thdVars, due, on, op, history>>

\* The program's exit ends the loop before the threads that are still there.
Exit ==
  /\ Exits /\ LoopExit /\ Move(Main, "idle", "exit")
  /\ UNCHANGED <<run, working, thdVars, armed, due, on, op, history>>

ExitJoin ==
  /\ LoopJoined /\ Move(Main, "exit", "idle")
  /\ UNCHANGED <<run, working, thdVars, armed, due, on, op, history>>

Waking(u) == WakeStop(u) \/ WakeWrite(u) \/ WakeStart(u)
Working == RunReturn \/ CancelWake \/ CancelJoin \/ ExitJoin

-----------------------------------------------------------------------------
Next ==
  \/ Loop \/ Exit \/ Working
  \/ \E t \in Thds :
       \/ TimerExpire(t) \/ TimerCall(t) \/ ThdStep(t) \/ Run(t) \/ Cancel(t)
       \/ \E u \in Wakers : Wake(u, t)
  \/ \E u \in Users : Waking(u)

Spec == Init /\ [][Next]_vars

\* Every thread goes on with what it has begun.
FairSpec ==
  /\ Spec
  /\ WF_vars(Loop) /\ WF_vars(Working)
  /\ \A t \in Thds : WF_vars(ThdStep(t))
  /\ \A u \in Users : WF_vars(Waking(u))

-----------------------------------------------------------------------------
TypeOK ==
  /\ LoopTypeOK
  /\ run \in [Thds -> BOOLEAN] /\ working \in [Thds -> BOOLEAN]
  /\ sem \in [Thds -> Nat] /\ due \in [Thds -> Nat]
  /\ tpc \in [Thds -> {"none", "begin", "announce", "arm", "up", "check", "wait",
                       "recheck", "down", "dereg", "retract", "disarm", "ended"}]
  /\ armed \subseteq Timed
  /\ upc \in [Users -> {"idle", "await", "wake", "stop", "write", "start",
                        "join", "exit"}]
  /\ on \in [Users -> Thds] /\ op \in [Users -> {"run", "wake", "cancel"}]
  /\ runs \in [Thds -> 0..MaxRuns] /\ events \in [Thds -> Nat]
  /\ works \in [Thds -> Nat] /\ woken \in [Thds -> BOOLEAN]

Registered == {"announce", "arm", "up", "check", "wait", "recheck", "down", "dereg"}

\* Although registrations are handled later, by another thread, what is in the
\* list and what the loop watches always add up to this: an event thread is
\* watched from its start to its end, through every run.
RegistrationSettles ==
  \A t \in Thds : WillListen(t) <=> tpc[t] \in Registered

\* A request that is in the list has been told to the loop, or is about to be:
\* it is never left there while the loop sleeps.
RegistrationTold ==
  regs # <<>> =>
    \/ Own \in edges \cup fired \/ lpc = "regs"
    \/ \E t \in Thds : tpc[t] \in {"announce", "retract"}

\* A thread works only when it was woken or its timer expired, once for each;
\* in a later run it may do so twice besides, for the post left by the wake of
\* the cancel and for the eventfd that was written and never read.
WorkNeedsEvent ==
  \A t \in Thds : runs[t] > 0 => works[t] <= events[t] + 2 * (runs[t] - 1)

\* A wake of a running thread leads to work, unless the thread is cancelled or
\* the loop is ended.
WakeWorks ==
  \A t \in Thds : woken[t] ~> (~woken[t] \/ (lpc # "start" /\ ~lrun))

\* ev_thd_run, which waits for the thread, ev_thd_cancel, which joins it, and
\* the exit of the loop return, in whichever order the two ends come.
CallsReturn == upc[Main] # "idle" ~> upc[Main] = "idle"
=============================================================================
