-------------------------------- MODULE Thp --------------------------------
(***************************************************************************)
(* lib/thp/thp.c: a pool of worker threads over one list of tasks, a mutex *)
(* and a condition variable.  The timers submit every callback to such a   *)
(* pool.  The shutdown flag is an atomic that no lock protects.            *)
(***************************************************************************)
EXTENDS Naturals, Sequences

CONSTANTS Workers,      \* the slots of thp_t.thread_array
          Submitters,   \* the threads that submit tasks
          MaxTasks,     \* bound: how many tasks each of them submits
          MaxRuns       \* bound: how many times the pool is run

ASSUME ThpAssumption == MaxTasks \in Nat /\ MaxRuns \in Nat

NoOne == "no one"
ASSUME NoOneAssumption == NoOne \notin Workers

VARIABLES
  shutdown,             \* thp_t.shutdown
  wl,                   \* thp_t.wl, the tasks that wait
  mtx,                  \* the worker that holds thp_t.mtx, or NoOne
  stats,                \* the workers g_thp_worker_stats_hashtable has
  wpc, task,            \* where each worker is, and the task it took
  spc, made,            \* where each submitter is, how many tasks it made
  kpc, todo, runs,      \* the thread that runs and shuts the pool down: where
                        \* it is, the workers it has still to create or join
  added, taken, done,   \* history: tasks put in the list, taken, and run
  before                \* history: tasks in the list before the shutdown

workVars == <<wpc, task, taken, done>>
subVars == <<spc, made, added>>
ctlVars == <<kpc, todo, runs, stats, before>>
vars == <<shutdown, wl, mtx, workVars, subVars, ctlVars>>

NoTask == <<>>
Tasks == Submitters \X (1..MaxTasks)

\* declare_thp
Init ==
  /\ shutdown = 1 /\ wl = <<>> /\ mtx = NoOne /\ stats = {}
  /\ wpc = [w \in Workers |-> "none"] /\ task = [w \in Workers |-> NoTask]
  /\ spc = [s \in Submitters |-> "idle"] /\ made = [s \in Submitters |-> 0]
  /\ kpc = "idle" /\ todo = {} /\ runs = 0
  /\ added = <<>> /\ taken = <<>> /\ done = {} /\ before = 0

-----------------------------------------------------------------------------
(* _thp_thread_routine *)

WorkGoto(w, from, to) == wpc[w] = from /\ wpc' = [wpc EXCEPT ![w] = to]

\* pthread_mutex_lock, or the return from pthread_cond_wait.
WorkLock(w) ==
  /\ WorkGoto(w, "lock", "test")
  /\ mtx = NoOne /\ mtx' = w
  /\ UNCHANGED <<shutdown, wl, task, taken, done, subVars, ctlVars>>

WorkTest_Shutdown(w) ==         \* mutant: shutdown is looked at first
  /\ WorkGoto(w, "test", IF shutdown = 1 THEN "exit"
                         ELSE IF wl # <<>> THEN "take" ELSE "sleep")
  /\ UNCHANGED <<shutdown, wl, mtx, task, taken, done, subVars, ctlVars>>

\* Both conditions: sleep while there is no task and no shutdown, exit when
\* there is a shutdown and no task.
WorkTest(w) ==
  /\ WorkGoto(w, "test", IF wl # <<>> THEN "take"
                         ELSE IF shutdown = 1 THEN "exit" ELSE "sleep")
  /\ UNCHANGED <<shutdown, wl, mtx, task, taken, done, subVars, ctlVars>>

\* pthread_cond_wait gives the mutex back and sleeps.
WorkSleep(w) ==
  /\ WorkGoto(w, "sleep", "wait")
  /\ mtx' = NoOne
  /\ UNCHANGED <<shutdown, wl, task, taken, done, subVars, ctlVars>>

\* pthread_cond_wait may return for no reason.
WorkSpurious(w) ==
  /\ WorkGoto(w, "wait", "lock")
  /\ UNCHANGED <<shutdown, wl, mtx, task, taken, done, subVars, ctlVars>>

WorkTake_Peek(w) ==             \* mutant: the task is read, not popped
  /\ WorkGoto(w, "take", "run")
  /\ task' = [task EXCEPT ![w] = Head(wl)]
  /\ taken' = Append(taken, Head(wl))
  /\ mtx' = NoOne
  /\ UNCHANGED <<shutdown, wl, done, subVars, ctlVars>>

WorkTake(w) ==
  /\ WorkGoto(w, "take", "run")
  /\ task' = [task EXCEPT ![w] = Head(wl)]
  /\ taken' = Append(taken, Head(wl)) /\ wl' = Tail(wl)
  /\ mtx' = NoOne
  /\ UNCHANGED <<shutdown, done, subVars, ctlVars>>

\* task->wf(task->args), and the node back to its memory pool.
WorkRun(w) ==
  /\ WorkGoto(w, "run", "stats")
  /\ done' = done \cup {task[w]}
  /\ task' = [task EXCEPT ![w] = NoTask]
  /\ UNCHANGED <<shutdown, wl, mtx, taken, subVars, ctlVars>>

\* The worker looks its counter up and adds one to it.
WorkStats(w) ==
  /\ WorkGoto(w, "stats", "lock")
  /\ UNCHANGED <<shutdown, wl, mtx, task, taken, done, subVars, ctlVars>>

WorkExit(w) ==
  /\ WorkGoto(w, "exit", "exited")
  /\ mtx' = NoOne
  /\ UNCHANGED <<shutdown, wl, task, taken, done, subVars, ctlVars>>

\* A worker's steps, but for waking up.
Working(w) ==
  \/ WorkLock(w) \/ WorkTest(w) \/ WorkSleep(w) \/ WorkTake(w)
  \/ WorkRun(w) \/ WorkStats(w) \/ WorkExit(w)

-----------------------------------------------------------------------------
(* _thp_submit_task *)

SubmitGoto(s, from, to) == spc[s] = from /\ spc' = [spc EXCEPT ![s] = to]

\* A pool that is shut down takes no task; nor does one for which the memory
\* pool of the task nodes is empty.  Nobody submits to a pool before thp_run
\* has returned: the timer module runs its two pools before any timer is there.
SubmitCheck(s) ==
  /\ made[s] < MaxTasks
  /\ kpc \notin {"create", "register"}
  /\ shutdown = 0
  /\ SubmitGoto(s, "idle", "add")
  /\ made' = [made EXCEPT ![s] = @ + 1]
  /\ UNCHANGED <<shutdown, wl, mtx, added, workVars, ctlVars>>

SubmitDrop_Unchecked(s) ==      \* mutant: the failed allocation goes unseen
  /\ SubmitGoto(s, "add", "signal")
  /\ wl' = Append(wl, NoTask) /\ added' = Append(added, NoTask)
  /\ UNCHANGED <<shutdown, mtx, made, workVars, ctlVars>>

SubmitDrop(s) ==
  /\ SubmitGoto(s, "add", "idle")
  /\ UNCHANGED <<shutdown, wl, mtx, made, added, workVars, ctlVars>>

\* The mutex is taken and given back around the insertion at the tail.
SubmitAdd(s) ==
  /\ SubmitGoto(s, "add", "signal")
  /\ mtx = NoOne
  /\ wl' = Append(wl, <<s, made[s]>>) /\ added' = Append(added, <<s, made[s]>>)
  /\ UNCHANGED <<shutdown, mtx, made, workVars, ctlVars>>

SubmitSignal_Lost(s) ==         \* mutant: the signal is left out
  /\ SubmitGoto(s, "signal", "idle")
  /\ UNCHANGED <<shutdown, wl, mtx, made, added, workVars, ctlVars>>

\* pthread_cond_signal wakes one sleeper, if there is one.
SubmitSignal(s) ==
  /\ SubmitGoto(s, "signal", "idle")
  /\ LET sleepers == {w \in Workers : wpc[w] = "wait"}
     IN IF sleepers = {} THEN wpc' = wpc
        ELSE \E w \in sleepers : wpc' = [wpc EXCEPT ![w] = "lock"]
  /\ UNCHANGED <<shutdown, wl, mtx, made, added, task, taken, done, ctlVars>>

Submitting(s) == SubmitCheck(s) \/ SubmitDrop(s) \/ SubmitAdd(s) \/ SubmitSignal(s)

-----------------------------------------------------------------------------
(* _thp_run and _thp_shutdown *)

\* The compare-and-swap of shutdown from 1 to 0.
RunStart ==
  /\ kpc = "idle" /\ runs < MaxRuns
  /\ shutdown = 1 /\ shutdown' = 0
  /\ kpc' = "create" /\ todo' = Workers /\ runs' = runs + 1
  /\ UNCHANGED <<wl, mtx, stats, before, workVars, subVars>>

\* The slots whose thread does not run.
Stopped == {w \in Workers : wpc[w] \in {"none", "exited"}}

\* pthread_create; the thread, new to the table of counters, starts at once.
RunCreate(w) ==
  /\ kpc = "create" /\ w \in todo
  /\ wpc' = [wpc EXCEPT ![w] = "lock"] /\ stats' = stats \ {w}
  /\ kpc' = "register"
  /\ UNCHANGED <<shutdown, wl, mtx, todo, runs, before, task, taken, done, subVars>>

RunRegister_Missing(w) ==       \* mutant: the last worker gets no counter
  /\ kpc = "register" /\ w \in todo \ Stopped
  /\ todo' = todo \ {w}
  /\ stats' = IF todo' = {} THEN stats ELSE stats \cup {w}
  /\ kpc' = IF todo' = {} THEN "running" ELSE "create"
  /\ UNCHANGED <<shutdown, wl, mtx, runs, before, workVars, subVars>>

\* Only then its counter is added to the table.
RunRegister(w) ==
  /\ kpc = "register" /\ w \in todo \ Stopped
  /\ todo' = todo \ {w} /\ stats' = stats \cup {w}
  /\ kpc' = IF todo' = {} THEN "running" ELSE "create"
  /\ UNCHANGED <<shutdown, wl, mtx, runs, before, workVars, subVars>>

\* The compare-and-swap of shutdown from 0 to 1.
ShutdownStart ==
  /\ kpc = "running" /\ kpc' = "broadcast"
  /\ shutdown' = 1
  /\ before' = Len(added)
  /\ UNCHANGED <<wl, mtx, todo, runs, stats, workVars, subVars>>

ShutdownBroadcast ==
  /\ kpc = "broadcast" /\ kpc' = "join"
  /\ wpc' = [w \in Workers |-> IF wpc[w] = "wait" THEN "lock" ELSE wpc[w]]
  /\ todo' = Workers
  /\ UNCHANGED <<shutdown, wl, mtx, runs, stats, before, task, taken, done, subVars>>

\* pthread_join of each worker, and thread_array is freed.
ShutdownJoin ==
  /\ kpc = "join"
  /\ \E w \in todo : wpc[w] = "exited" /\ todo' = todo \ {w}
  /\ kpc' = IF todo' = {} THEN "idle" ELSE "join"
  /\ UNCHANGED <<shutdown, wl, mtx, runs, stats, before, workVars, subVars>>

Controlling ==
  \/ RunStart \/ \E w \in Workers : RunCreate(w) \/ RunRegister(w)
  \/ ShutdownStart \/ ShutdownBroadcast \/ ShutdownJoin

-----------------------------------------------------------------------------
Next ==
  \/ \E w \in Workers : Working(w) \/ WorkSpurious(w)
  \/ \E s \in Submitters : Submitting(s)
  \/ Controlling

Spec == Init /\ [][Next]_vars

\* Threads are scheduled and tasks return.  The mutex need not be fair, and
\* nobody has to submit or to shut the pool down.
FairSpec ==
  /\ Spec
  /\ \A w \in Workers : WF_vars(Working(w))
  /\ \A s \in Submitters : WF_vars(SubmitSignal(s))
  /\ WF_vars(\E w \in Workers : RunCreate(w) \/ RunRegister(w))

-----------------------------------------------------------------------------
TypeOK ==
  /\ shutdown \in 0..1 /\ wl \in Seq(Tasks) /\ mtx \in Workers \cup {NoOne}
  /\ stats \subseteq Workers
  /\ wpc \in [Workers -> {"none", "lock", "test", "sleep", "wait", "take", "run",
                          "stats", "exit", "exited"}]
  /\ task \in [Workers -> Tasks \cup {NoTask}]
  /\ spc \in [Submitters -> {"idle", "add", "signal"}]
  /\ made \in [Submitters -> 0..MaxTasks]
  /\ kpc \in {"idle", "create", "register", "running", "broadcast", "join"}
  /\ todo \subseteq Workers /\ runs \in 0..MaxRuns
  /\ added \in Seq(Tasks) /\ taken \in Seq(Tasks) /\ done \subseteq Tasks
  /\ before \in Nat

\* Tasks start in the order they were added and none starts twice.
TakenInOrder == taken \o wl = added

\* A task is never left in the list while every worker sleeps: some worker is
\* awake, or the submitter is about to signal one.
NoTaskStranded ==
  wl # <<>> /\ kpc = "running"
    => \/ \E w \in Workers : wpc[w] # "wait"
       \/ \E s \in Submitters : spc[s] = "signal"

\* A shutdown that returns has run everything that was in the list before it
\* began, although its workers only exit when they please.
ShutdownDrains ==
  kpc = "idle" => \A k \in 1..before : added[k] \in done

\* A worker finds its counter, which the thread that created it adds after the
\* worker has begun to run, in the one run the program makes of each pool.  (In
\* a second run a task left over from the first may come before the counter.)
StatsFound == runs = 1 => \A w \in Workers : wpc[w] = "stats" => w \in stats

\* Every task that was put in the list of a pool that runs is run.
TaskDone ==
  \A t \in Tasks : (\E k \in 1..Len(wl) : wl[k] = t) ~> (t \in done \/ shutdown = 1)

\* _thp_shutdown says that it sets the flag, wakes all the threads and waits for
\* their exit: after the broadcast nobody is asleep, or the join would not end.
ShutdownWakesAll == kpc = "join" => \A w \in Workers : wpc[w] # "wait"
=============================================================================
