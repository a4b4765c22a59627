----------------------------- MODULE Thp_proofs -----------------------------
(* What the thread pool of lib/thp keeps, for every number of workers,       *)
(* submitters, tasks and runs (PoolKept), and the timers of lib/event        *)
(* (TimersKept), for any timers and users.                                   *)
EXTENDS MCThp, FiniteSets, SequenceTheorems, FiniteSetTheorems, TLAPS

-----------------------------------------------------------------------------
(* The inductive invariant *)

\* The mutex: a worker between its lock and its unlock is the one that holds
\* it, so that nobody changes the list while it goes by what it saw there.
MutexHeld ==
  \A w \in Workers :
    /\ wpc[w] \in {"test", "sleep", "take", "exit"} => mtx = w
    /\ wpc[w] = "take" => wl # <<>>
    /\ wpc[w] \in {"sleep", "exit"} => wl = <<>>

\* A task that was added has a number.
Numbered == \A s \in Submitters : spc[s] = "add" => made[s] \in 1..MaxTasks

\* Tasks that were taken are run, or a worker is about to run them.
TakenRuns ==
  /\ \A w \in Workers : wpc[w] = "run" => task[w] \in Tasks
  /\ \A k \in 1..Len(taken) :
       \/ taken[k] \in done
       \/ \E w \in Workers : wpc[w] = "run" /\ task[w] = taken[k]

\* Which workers there are, in each phase of a run.
Phases ==
  /\ kpc = "idle" => shutdown = 1 /\ \A w \in Workers : wpc[w] \in {"none", "exited"}
  /\ kpc \in {"create", "register", "running"} =>
       /\ shutdown = 0
       /\ \A w \in Workers : wpc[w] # "exit"
       /\ \A w \in Workers \ todo : wpc[w] \notin {"none", "exited"}
  /\ kpc = "create" => \A w \in todo : wpc[w] \in {"none", "exited"}
  /\ kpc = "register" =>
       \A v \in todo, w \in todo :
         wpc[v] \notin {"none", "exited"} /\ wpc[w] \notin {"none", "exited"} => v = w
  /\ kpc = "running" => todo = {} /\ Workers # {}
  /\ kpc \in {"broadcast", "join"} =>
       shutdown = 1 /\ Workers # {} /\ \A w \in Workers : wpc[w] # "none"
  /\ kpc = "join" => \A w \in Workers \ todo : wpc[w] = "exited"

\* Before its workers are all there too, the pool has somebody awake for its
\* list, unless it has nobody at all.
SomeoneAwake ==
  kpc \in {"create", "register", "running"} /\ wl # <<>> =>
    \/ \A w \in Workers : wpc[w] \in {"none", "exited"}
    \/ \E w \in Workers : wpc[w] \notin {"none", "exited", "wait"}
    \/ \E s \in Submitters : spc[s] = "signal"

\* A worker that exits, exits after the tasks from before the shutdown are taken.
Drained ==
  /\ kpc = "idle" => before <= Len(taken)
  /\ kpc \in {"broadcast", "join"} =>
       /\ before <= Len(added)
       /\ (\E w \in Workers : wpc[w] \in {"exit", "exited"}) => before <= Len(taken)

\* Until the first run has its workers there is no task.
FirstRun ==
  /\ runs = 0 => kpc = "idle"
  /\ runs = 0 \/ (runs = 1 /\ kpc \in {"create", "register"}) =>
       /\ wl = <<>> /\ \A s \in Submitters : spc[s] = "idle"
       /\ \A w \in Workers : wpc[w] \notin {"take", "run", "stats"}
  /\ runs = 1 /\ kpc \in {"create", "register"} => Workers \ todo \subseteq stats
  /\ runs = 1 /\ kpc \in {"running", "broadcast", "join"} => Workers \subseteq stats

PoolInv ==
  /\ TypeOK /\ TakenInOrder /\ MutexHeld /\ Numbered /\ TakenRuns
  /\ Phases /\ SomeoneAwake /\ Drained /\ FirstRun

-----------------------------------------------------------------------------
(* Every step keeps it *)

\* The head of the list may go to the tasks that were taken.
LEMMA HeadMoves ==
  ASSUME NEW S, NEW s \in Seq(S), NEW t \in Seq(S), t # <<>>
  PROVE  Append(s, Head(t)) \o Tail(t) = s \o t
<1>1. Append(s, Head(t)) \in Seq(S) /\ Tail(t) \in Seq(S) /\ Len(t) > 0
  OBVIOUS
<1>2. Len(Append(s, Head(t)) \o Tail(t)) = Len(s \o t)
  BY <1>1
<1>3. ASSUME NEW i \in 1..Len(s \o t)
      PROVE  (Append(s, Head(t)) \o Tail(t))[i] = (s \o t)[i]
  BY <1>1
<1>4. QED
  BY <1>1, <1>2, <1>3, SeqEqual

\* The types: what is popped is there, and what is run was taken.
LEMMA TypeStep == PoolInv /\ [Next]_vars => TypeOK'
<1> SUFFICES ASSUME PoolInv, [Next]_vars PROVE TypeOK'
  OBVIOUS
<1>1. ASSUME NEW w \in Workers, WorkLock(w) PROVE TypeOK'
  BY <1>1 DEF WorkLock, WorkGoto, workVars, subVars, ctlVars, PoolInv, TypeOK, Numbered,
       MutexHeld, TakenRuns, NoTask, Tasks, Stopped
<1>2. ASSUME NEW w \in Workers, WorkTest(w) PROVE TypeOK'
  BY <1>2 DEF WorkTest, WorkGoto, workVars, subVars, ctlVars, PoolInv, TypeOK, Numbered,
       MutexHeld, TakenRuns, NoTask, Tasks, Stopped
<1>3. ASSUME NEW w \in Workers, WorkSleep(w) PROVE TypeOK'
  BY <1>3 DEF WorkSleep, WorkGoto, workVars, subVars, ctlVars, PoolInv, TypeOK, Numbered,
       MutexHeld, TakenRuns, NoTask, Tasks, Stopped
<1>4. ASSUME NEW w \in Workers, WorkSpurious(w) PROVE TypeOK'
  BY <1>4 DEF WorkSpurious, WorkGoto, workVars, subVars, ctlVars, PoolInv, TypeOK,
       Numbered, MutexHeld, TakenRuns, NoTask, Tasks, Stopped
<1>5. ASSUME NEW w \in Workers, WorkTake(w) PROVE TypeOK'
  BY <1>5 DEF WorkTake, WorkGoto, workVars, subVars, ctlVars, PoolInv, TypeOK, Numbered,
       MutexHeld, TakenRuns, NoTask, Tasks, Stopped
<1>6. ASSUME NEW w \in Workers, WorkRun(w) PROVE TypeOK'
  BY <1>6 DEF WorkRun, WorkGoto, workVars, subVars, ctlVars, PoolInv, TypeOK, Numbered,
       MutexHeld, TakenRuns, NoTask, Tasks, Stopped
<1>7. ASSUME NEW w \in Workers, WorkStats(w) PROVE TypeOK'
  BY <1>7 DEF WorkStats, WorkGoto, workVars, subVars, ctlVars, PoolInv, TypeOK, Numbered,
       MutexHeld, TakenRuns, NoTask, Tasks, Stopped
<1>8. ASSUME NEW w \in Workers, WorkExit(w) PROVE TypeOK'
  BY <1>8 DEF WorkExit, WorkGoto, workVars, subVars, ctlVars, PoolInv, TypeOK, Numbered,
       MutexHeld, TakenRuns, NoTask, Tasks, Stopped
<1>9. ASSUME NEW s \in Submitters, SubmitCheck(s) PROVE TypeOK'
  BY <1>9, ThpAssumption DEF SubmitCheck, SubmitGoto, workVars, subVars, ctlVars,
       PoolInv, TypeOK, Numbered, MutexHeld, TakenRuns, NoTask, Tasks, Stopped
<1>10. ASSUME NEW s \in Submitters, SubmitDrop(s) PROVE TypeOK'
  BY <1>10 DEF SubmitDrop, SubmitGoto, workVars, subVars, ctlVars, PoolInv, TypeOK,
       Numbered, MutexHeld, TakenRuns, NoTask, Tasks, Stopped
<1>11. ASSUME NEW s \in Submitters, SubmitAdd(s) PROVE TypeOK'
  BY <1>11 DEF SubmitAdd, SubmitGoto, workVars, subVars, ctlVars, PoolInv, TypeOK,
       Numbered, MutexHeld, TakenRuns, NoTask, Tasks, Stopped
<1>12. ASSUME NEW s \in Submitters, SubmitSignal(s) PROVE TypeOK'
  BY <1>12 DEF SubmitSignal, SubmitGoto, workVars, subVars, ctlVars, PoolInv, TypeOK,
       Numbered, MutexHeld, TakenRuns, NoTask, Tasks, Stopped
<1>13. CASE RunStart
  BY <1>13, ThpAssumption DEF RunStart, workVars, subVars, ctlVars, PoolInv, TypeOK,
       Numbered, MutexHeld, TakenRuns, NoTask, Tasks, Stopped
<1>14. ASSUME NEW w \in Workers, RunCreate(w) PROVE TypeOK'
  BY <1>14 DEF RunCreate, workVars, subVars, ctlVars, PoolInv, TypeOK, Numbered,
       MutexHeld, TakenRuns, NoTask, Tasks, Stopped
<1>15. ASSUME NEW w \in Workers, RunRegister(w) PROVE TypeOK'
  BY <1>15 DEF RunRegister, workVars, subVars, ctlVars, PoolInv, TypeOK, Numbered,
       MutexHeld, TakenRuns, NoTask, Tasks, Stopped
<1>16. CASE ShutdownStart
  BY <1>16 DEF ShutdownStart, workVars, subVars, ctlVars, PoolInv, TypeOK, Numbered,
       MutexHeld, TakenRuns, NoTask, Tasks, Stopped
<1>17. CASE ShutdownBroadcast
  BY <1>17 DEF ShutdownBroadcast, workVars, subVars, ctlVars, PoolInv, TypeOK, Numbered,
       MutexHeld, TakenRuns, NoTask, Tasks, Stopped
<1>18. CASE ShutdownJoin
  BY <1>18 DEF ShutdownJoin, workVars, subVars, ctlVars, PoolInv, TypeOK, Numbered,
       MutexHeld, TakenRuns, NoTask, Tasks, Stopped
<1>19. CASE UNCHANGED vars
  BY <1>19 DEF vars, workVars, subVars, ctlVars, PoolInv, TypeOK, Numbered, MutexHeld,
       TakenRuns, NoTask, Tasks, Stopped
<1>20. QED
  BY <1>1, <1>2, <1>3, <1>4, <1>5, <1>6, <1>7, <1>8, <1>9, <1>10, <1>11, <1>12, <1>13,
       <1>14, <1>15, <1>16, <1>17, <1>18, <1>19 DEF Next, Working, Submitting,
       Controlling

\* A task goes from the head of the list to the end of those taken.
LEMMA OrderStep == PoolInv /\ [Next]_vars => TakenInOrder'
<1> SUFFICES ASSUME PoolInv, [Next]_vars PROVE TakenInOrder'
  OBVIOUS
<1>1. ASSUME NEW w \in Workers, WorkLock(w) PROVE TakenInOrder'
  BY <1>1 DEF WorkLock, WorkGoto, workVars, subVars, ctlVars, PoolInv, TypeOK,
       TakenInOrder, MutexHeld
<1>2. ASSUME NEW w \in Workers, WorkTest(w) PROVE TakenInOrder'
  BY <1>2 DEF WorkTest, WorkGoto, workVars, subVars, ctlVars, PoolInv, TypeOK,
       TakenInOrder, MutexHeld
<1>3. ASSUME NEW w \in Workers, WorkSleep(w) PROVE TakenInOrder'
  BY <1>3 DEF WorkSleep, WorkGoto, workVars, subVars, ctlVars, PoolInv, TypeOK,
       TakenInOrder, MutexHeld
<1>4. ASSUME NEW w \in Workers, WorkSpurious(w) PROVE TakenInOrder'
  BY <1>4 DEF WorkSpurious, WorkGoto, workVars, subVars, ctlVars, PoolInv, TypeOK,
       TakenInOrder, MutexHeld
<1>5. ASSUME NEW w \in Workers, WorkTake(w) PROVE TakenInOrder'
  BY <1>5, HeadMoves DEF WorkTake, WorkGoto, workVars, subVars, ctlVars, PoolInv, TypeOK,
       TakenInOrder, MutexHeld
<1>6. ASSUME NEW w \in Workers, WorkRun(w) PROVE TakenInOrder'
  BY <1>6 DEF WorkRun, WorkGoto, workVars, subVars, ctlVars, PoolInv, TypeOK,
       TakenInOrder, MutexHeld
<1>7. ASSUME NEW w \in Workers, WorkStats(w) PROVE TakenInOrder'
  BY <1>7 DEF WorkStats, WorkGoto, workVars, subVars, ctlVars, PoolInv, TypeOK,
       TakenInOrder, MutexHeld
<1>8. ASSUME NEW w \in Workers, WorkExit(w) PROVE TakenInOrder'
  BY <1>8 DEF WorkExit, WorkGoto, workVars, subVars, ctlVars, PoolInv, TypeOK,
       TakenInOrder, MutexHeld
<1>9. ASSUME NEW s \in Submitters, SubmitCheck(s) PROVE TakenInOrder'
  BY <1>9 DEF SubmitCheck, SubmitGoto, workVars, subVars, ctlVars, PoolInv, TypeOK,
       TakenInOrder, MutexHeld
<1>10. ASSUME NEW s \in Submitters, SubmitDrop(s) PROVE TakenInOrder'
  BY <1>10 DEF SubmitDrop, SubmitGoto, workVars, subVars, ctlVars, PoolInv, TypeOK,
       TakenInOrder, MutexHeld
<1>11. ASSUME NEW s \in Submitters, SubmitAdd(s) PROVE TakenInOrder'
  BY <1>11 DEF SubmitAdd, SubmitGoto, workVars, subVars, ctlVars, PoolInv, TypeOK,
       TakenInOrder, MutexHeld
<1>12. ASSUME NEW s \in Submitters, SubmitSignal(s) PROVE TakenInOrder'
  BY <1>12 DEF SubmitSignal, SubmitGoto, workVars, subVars, ctlVars, PoolInv, TypeOK,
       TakenInOrder, MutexHeld
<1>13. CASE RunStart
  BY <1>13 DEF RunStart, workVars, subVars, ctlVars, PoolInv, TypeOK, TakenInOrder,
       MutexHeld
<1>14. ASSUME NEW w \in Workers, RunCreate(w) PROVE TakenInOrder'
  BY <1>14 DEF RunCreate, workVars, subVars, ctlVars, PoolInv, TypeOK, TakenInOrder,
       MutexHeld
<1>15. ASSUME NEW w \in Workers, RunRegister(w) PROVE TakenInOrder'
  BY <1>15 DEF RunRegister, workVars, subVars, ctlVars, PoolInv, TypeOK, TakenInOrder,
       MutexHeld
<1>16. CASE ShutdownStart
  BY <1>16 DEF ShutdownStart, workVars, subVars, ctlVars, PoolInv, TypeOK, TakenInOrder,
       MutexHeld
<1>17. CASE ShutdownBroadcast
  BY <1>17 DEF ShutdownBroadcast, workVars, subVars, ctlVars, PoolInv, TypeOK,
       TakenInOrder, MutexHeld
<1>18. CASE ShutdownJoin
  BY <1>18 DEF ShutdownJoin, workVars, subVars, ctlVars, PoolInv, TypeOK, TakenInOrder,
       MutexHeld
<1>19. CASE UNCHANGED vars
  BY <1>19 DEF vars, workVars, subVars, ctlVars, PoolInv, TypeOK, TakenInOrder, MutexHeld
<1>20. QED
  BY <1>1, <1>2, <1>3, <1>4, <1>5, <1>6, <1>7, <1>8, <1>9, <1>10, <1>11, <1>12, <1>13,
       <1>14, <1>15, <1>16, <1>17, <1>18, <1>19 DEF Next, Working, Submitting,
       Controlling

\* The list changes only while nobody holds the mutex, or by its holder.
LEMMA MutexStep == PoolInv /\ [Next]_vars => MutexHeld'
<1> SUFFICES ASSUME PoolInv, [Next]_vars PROVE MutexHeld'
  OBVIOUS
<1>1. ASSUME NEW w \in Workers, WorkLock(w) PROVE MutexHeld'
  BY <1>1, NoOneAssumption DEF WorkLock, WorkGoto, workVars, subVars, ctlVars, PoolInv,
       TypeOK, MutexHeld, Phases, Stopped
<1>2. ASSUME NEW w \in Workers, WorkTest(w) PROVE MutexHeld'
  BY <1>2 DEF WorkTest, WorkGoto, workVars, subVars, ctlVars, PoolInv, TypeOK, MutexHeld,
       Phases, Stopped
<1>3. ASSUME NEW w \in Workers, WorkSleep(w) PROVE MutexHeld'
  BY <1>3 DEF WorkSleep, WorkGoto, workVars, subVars, ctlVars, PoolInv, TypeOK,
       MutexHeld, Phases, Stopped
<1>4. ASSUME NEW w \in Workers, WorkSpurious(w) PROVE MutexHeld'
  BY <1>4 DEF WorkSpurious, WorkGoto, workVars, subVars, ctlVars, PoolInv, TypeOK,
       MutexHeld, Phases, Stopped
<1>5. ASSUME NEW w \in Workers, WorkTake(w) PROVE MutexHeld'
  BY <1>5 DEF WorkTake, WorkGoto, workVars, subVars, ctlVars, PoolInv, TypeOK, MutexHeld,
       Phases, Stopped
<1>6. ASSUME NEW w \in Workers, WorkRun(w) PROVE MutexHeld'
  BY <1>6 DEF WorkRun, WorkGoto, workVars, subVars, ctlVars, PoolInv, TypeOK, MutexHeld,
       Phases, Stopped
<1>7. ASSUME NEW w \in Workers, WorkStats(w) PROVE MutexHeld'
  BY <1>7 DEF WorkStats, WorkGoto, workVars, subVars, ctlVars, PoolInv, TypeOK,
       MutexHeld, Phases, Stopped
<1>8. ASSUME NEW w \in Workers, WorkExit(w) PROVE MutexHeld'
  BY <1>8 DEF WorkExit, WorkGoto, workVars, subVars, ctlVars, PoolInv, TypeOK, MutexHeld,
       Phases, Stopped
<1>9. ASSUME NEW s \in Submitters, SubmitCheck(s) PROVE MutexHeld'
  BY <1>9 DEF SubmitCheck, SubmitGoto, workVars, subVars, ctlVars, PoolInv, TypeOK,
       MutexHeld, Phases, Stopped
<1>10. ASSUME NEW s \in Submitters, SubmitDrop(s) PROVE MutexHeld'
  BY <1>10 DEF SubmitDrop, SubmitGoto, workVars, subVars, ctlVars, PoolInv, TypeOK,
       MutexHeld, Phases, Stopped
<1>11. ASSUME NEW s \in Submitters, SubmitAdd(s) PROVE MutexHeld'
  BY <1>11, NoOneAssumption DEF SubmitAdd, SubmitGoto, workVars, subVars, ctlVars,
       PoolInv, TypeOK, MutexHeld, Phases, Stopped
<1>12. ASSUME NEW s \in Submitters, SubmitSignal(s) PROVE MutexHeld'
  BY <1>12 DEF SubmitSignal, SubmitGoto, workVars, subVars, ctlVars, PoolInv, TypeOK,
       MutexHeld, Phases, Stopped
<1>13. CASE RunStart
  BY <1>13 DEF RunStart, workVars, subVars, ctlVars, PoolInv, TypeOK, MutexHeld, Phases,
       Stopped
<1>14. ASSUME NEW w \in Workers, RunCreate(w) PROVE MutexHeld'
  BY <1>14 DEF RunCreate, workVars, subVars, ctlVars, PoolInv, TypeOK, MutexHeld, Phases,
       Stopped
<1>15. ASSUME NEW w \in Workers, RunRegister(w) PROVE MutexHeld'
  BY <1>15 DEF RunRegister, workVars, subVars, ctlVars, PoolInv, TypeOK, MutexHeld,
       Phases, Stopped
<1>16. CASE ShutdownStart
  BY <1>16 DEF ShutdownStart, workVars, subVars, ctlVars, PoolInv, TypeOK, MutexHeld,
       Phases, Stopped
<1>17. CASE ShutdownBroadcast
  BY <1>17 DEF ShutdownBroadcast, workVars, subVars, ctlVars, PoolInv, TypeOK, MutexHeld,
       Phases, Stopped
<1>18. CASE ShutdownJoin
  BY <1>18 DEF ShutdownJoin, workVars, subVars, ctlVars, PoolInv, TypeOK, MutexHeld,
       Phases, Stopped
<1>19. CASE UNCHANGED vars
  BY <1>19 DEF vars, workVars, subVars, ctlVars, PoolInv, TypeOK, MutexHeld, Phases, Stopped
<1>20. QED
  BY <1>1, <1>2, <1>3, <1>4, <1>5, <1>6, <1>7, <1>8, <1>9, <1>10, <1>11, <1>12, <1>13,
       <1>14, <1>15, <1>16, <1>17, <1>18, <1>19 DEF Next, Working, Submitting,
       Controlling

\* A task is numbered when it is made.
LEMMA NumberedStep == PoolInv /\ [Next]_vars => Numbered'
<1> SUFFICES ASSUME PoolInv, [Next]_vars PROVE Numbered'
  OBVIOUS
<1>1. ASSUME NEW w \in Workers, WorkLock(w) PROVE Numbered'
  BY <1>1 DEF WorkLock, WorkGoto, workVars, subVars, ctlVars, PoolInv, TypeOK, Numbered
<1>2. ASSUME NEW w \in Workers, WorkTest(w) PROVE Numbered'
  BY <1>2 DEF WorkTest, WorkGoto, workVars, subVars, ctlVars, PoolInv, TypeOK, Numbered
<1>3. ASSUME NEW w \in Workers, WorkSleep(w) PROVE Numbered'
  BY <1>3 DEF WorkSleep, WorkGoto, workVars, subVars, ctlVars, PoolInv, TypeOK, Numbered
<1>4. ASSUME NEW w \in Workers, WorkSpurious(w) PROVE Numbered'
  BY <1>4 DEF WorkSpurious, WorkGoto, workVars, subVars, ctlVars, PoolInv, TypeOK, Numbered
<1>5. ASSUME NEW w \in Workers, WorkTake(w) PROVE Numbered'
  BY <1>5 DEF WorkTake, WorkGoto, workVars, subVars, ctlVars, PoolInv, TypeOK, Numbered
<1>6. ASSUME NEW w \in Workers, WorkRun(w) PROVE Numbered'
  BY <1>6 DEF WorkRun, WorkGoto, workVars, subVars, ctlVars, PoolInv, TypeOK, Numbered
<1>7. ASSUME NEW w \in Workers, WorkStats(w) PROVE Numbered'
  BY <1>7 DEF WorkStats, WorkGoto, workVars, subVars, ctlVars, PoolInv, TypeOK, Numbered
<1>8. ASSUME NEW w \in Workers, WorkExit(w) PROVE Numbered'
  BY <1>8 DEF WorkExit, WorkGoto, workVars, subVars, ctlVars, PoolInv, TypeOK, Numbered
<1>9. ASSUME NEW s \in Submitters, SubmitCheck(s) PROVE Numbered'
  BY <1>9, ThpAssumption DEF SubmitCheck, SubmitGoto, workVars, subVars, ctlVars,
       PoolInv, TypeOK, Numbered
<1>10. ASSUME NEW s \in Submitters, SubmitDrop(s) PROVE Numbered'
  BY <1>10 DEF SubmitDrop, SubmitGoto, workVars, subVars, ctlVars, PoolInv, TypeOK, Numbered
<1>11. ASSUME NEW s \in Submitters, SubmitAdd(s) PROVE Numbered'
  BY <1>11 DEF SubmitAdd, SubmitGoto, workVars, subVars, ctlVars, PoolInv, TypeOK, Numbered
<1>12. ASSUME NEW s \in Submitters, SubmitSignal(s) PROVE Numbered'
  BY <1>12 DEF SubmitSignal, SubmitGoto, workVars, subVars, ctlVars, PoolInv, TypeOK,
       Numbered
<1>13. CASE RunStart
  BY <1>13 DEF RunStart, workVars, subVars, ctlVars, PoolInv, TypeOK, Numbered
<1>14. ASSUME NEW w \in Workers, RunCreate(w) PROVE Numbered'
  BY <1>14 DEF RunCreate, workVars, subVars, ctlVars, PoolInv, TypeOK, Numbered
<1>15. ASSUME NEW w \in Workers, RunRegister(w) PROVE Numbered'
  BY <1>15 DEF RunRegister, workVars, subVars, ctlVars, PoolInv, TypeOK, Numbered
<1>16. CASE ShutdownStart
  BY <1>16 DEF ShutdownStart, workVars, subVars, ctlVars, PoolInv, TypeOK, Numbered
<1>17. CASE ShutdownBroadcast
  BY <1>17 DEF ShutdownBroadcast, workVars, subVars, ctlVars, PoolInv, TypeOK, Numbered
<1>18. CASE ShutdownJoin
  BY <1>18 DEF ShutdownJoin, workVars, subVars, ctlVars, PoolInv, TypeOK, Numbered
<1>19. CASE UNCHANGED vars
  BY <1>19 DEF vars, workVars, subVars, ctlVars, PoolInv, TypeOK, Numbered
<1>20. QED
  BY <1>1, <1>2, <1>3, <1>4, <1>5, <1>6, <1>7, <1>8, <1>9, <1>10, <1>11, <1>12, <1>13,
       <1>14, <1>15, <1>16, <1>17, <1>18, <1>19 DEF Next, Working, Submitting,
       Controlling

\* What is taken is in the hands of one worker until it is run.
LEMMA RunsStep == PoolInv /\ [Next]_vars => TakenRuns'
<1> SUFFICES ASSUME PoolInv, [Next]_vars PROVE TakenRuns'
  OBVIOUS
<1>1. ASSUME NEW w \in Workers, WorkLock(w) PROVE TakenRuns'
  BY <1>1 DEF WorkLock, WorkGoto, workVars, subVars, ctlVars, PoolInv, TypeOK, TakenRuns,
       MutexHeld, Phases, Stopped
<1>2. ASSUME NEW w \in Workers, WorkTest(w) PROVE TakenRuns'
  BY <1>2 DEF WorkTest, WorkGoto, workVars, subVars, ctlVars, PoolInv, TypeOK, TakenRuns,
       MutexHeld, Phases, Stopped
<1>3. ASSUME NEW w \in Workers, WorkSleep(w) PROVE TakenRuns'
  BY <1>3 DEF WorkSleep, WorkGoto, workVars, subVars, ctlVars, PoolInv, TypeOK,
       TakenRuns, MutexHeld, Phases, Stopped
<1>4. ASSUME NEW w \in Workers, WorkSpurious(w) PROVE TakenRuns'
  BY <1>4 DEF WorkSpurious, WorkGoto, workVars, subVars, ctlVars, PoolInv, TypeOK,
       TakenRuns, MutexHeld, Phases, Stopped
<1>5. ASSUME NEW w \in Workers, WorkTake(w) PROVE TakenRuns'
  BY <1>5 DEF WorkTake, WorkGoto, workVars, subVars, ctlVars, PoolInv, TypeOK, TakenRuns,
       MutexHeld, Phases, Stopped
<1>6. ASSUME NEW w \in Workers, WorkRun(w) PROVE TakenRuns'
  BY <1>6 DEF WorkRun, WorkGoto, workVars, subVars, ctlVars, PoolInv, TypeOK, TakenRuns,
       MutexHeld, Phases, Stopped
<1>7. ASSUME NEW w \in Workers, WorkStats(w) PROVE TakenRuns'
  BY <1>7 DEF WorkStats, WorkGoto, workVars, subVars, ctlVars, PoolInv, TypeOK,
       TakenRuns, MutexHeld, Phases, Stopped
<1>8. ASSUME NEW w \in Workers, WorkExit(w) PROVE TakenRuns'
  <2>1. \A v \in Workers : wpc[v] = "run" <=> wpc'[v] = "run"
    BY <1>8 DEF WorkExit, WorkGoto, PoolInv, TypeOK
  <2>2. task' = task /\ taken' = taken /\ done' = done
    BY <1>8 DEF WorkExit
  <2>3. QED
    BY <2>1, <2>2 DEF PoolInv, TakenRuns
<1>9. ASSUME NEW s \in Submitters, SubmitCheck(s) PROVE TakenRuns'
  BY <1>9 DEF SubmitCheck, SubmitGoto, workVars, subVars, ctlVars, PoolInv, TypeOK,
       TakenRuns, MutexHeld, Phases, Stopped
<1>10. ASSUME NEW s \in Submitters, SubmitDrop(s) PROVE TakenRuns'
  BY <1>10 DEF SubmitDrop, SubmitGoto, workVars, subVars, ctlVars, PoolInv, TypeOK,
       TakenRuns, MutexHeld, Phases, Stopped
<1>11. ASSUME NEW s \in Submitters, SubmitAdd(s) PROVE TakenRuns'
  BY <1>11 DEF SubmitAdd, SubmitGoto, workVars, subVars, ctlVars, PoolInv, TypeOK,
       TakenRuns, MutexHeld, Phases, Stopped
<1>12. ASSUME NEW s \in Submitters, SubmitSignal(s) PROVE TakenRuns'
  BY <1>12 DEF SubmitSignal, SubmitGoto, workVars, subVars, ctlVars, PoolInv, TypeOK,
       TakenRuns, MutexHeld, Phases, Stopped
<1>13. CASE RunStart
  BY <1>13 DEF RunStart, workVars, subVars, ctlVars, PoolInv, TypeOK, TakenRuns,
       MutexHeld, Phases, Stopped
<1>14. ASSUME NEW w \in Workers, RunCreate(w) PROVE TakenRuns'
  BY <1>14 DEF RunCreate, workVars, subVars, ctlVars, PoolInv, TypeOK, TakenRuns,
       MutexHeld, Phases, Stopped
<1>15. ASSUME NEW w \in Workers, RunRegister(w) PROVE TakenRuns'
  BY <1>15 DEF RunRegister, workVars, subVars, ctlVars, PoolInv, TypeOK, TakenRuns,
       MutexHeld, Phases, Stopped
<1>16. CASE ShutdownStart
  BY <1>16 DEF ShutdownStart, workVars, subVars, ctlVars, PoolInv, TypeOK, TakenRuns,
       MutexHeld, Phases, Stopped
<1>17. CASE ShutdownBroadcast
  BY <1>17 DEF ShutdownBroadcast, workVars, subVars, ctlVars, PoolInv, TypeOK, TakenRuns,
       MutexHeld, Phases, Stopped
<1>18. CASE ShutdownJoin
  BY <1>18 DEF ShutdownJoin, workVars, subVars, ctlVars, PoolInv, TypeOK, TakenRuns,
       MutexHeld, Phases, Stopped
<1>19. CASE UNCHANGED vars
  BY <1>19 DEF vars, workVars, subVars, ctlVars, PoolInv, TypeOK, TakenRuns, MutexHeld,
       Phases, Stopped
<1>20. QED
  BY <1>1, <1>2, <1>3, <1>4, <1>5, <1>6, <1>7, <1>8, <1>9, <1>10, <1>11, <1>12, <1>13,
       <1>14, <1>15, <1>16, <1>17, <1>18, <1>19 DEF Next, Working, Submitting,
       Controlling

\* The phases follow the thread that runs and shuts the pool down; a worker
\* only exits when the flag of the shutdown is up.
LEMMA PhasesStep == PoolInv /\ [Next]_vars => Phases'
<1> SUFFICES ASSUME PoolInv, [Next]_vars PROVE Phases'
  OBVIOUS
<1>1. ASSUME NEW w \in Workers, WorkLock(w) PROVE Phases'
  BY <1>1 DEF WorkLock, WorkGoto, workVars, subVars, ctlVars, PoolInv, TypeOK, Phases,
       Stopped
<1>2. ASSUME NEW w \in Workers, WorkTest(w) PROVE Phases'
  BY <1>2 DEF WorkTest, WorkGoto, workVars, subVars, ctlVars, PoolInv, TypeOK, Phases,
       Stopped
<1>3. ASSUME NEW w \in Workers, WorkSleep(w) PROVE Phases'
  BY <1>3 DEF WorkSleep, WorkGoto, workVars, subVars, ctlVars, PoolInv, TypeOK, Phases,
       Stopped
<1>4. ASSUME NEW w \in Workers, WorkSpurious(w) PROVE Phases'
  BY <1>4 DEF WorkSpurious, WorkGoto, workVars, subVars, ctlVars, PoolInv, TypeOK,
       Phases, Stopped
<1>5. ASSUME NEW w \in Workers, WorkTake(w) PROVE Phases'
  BY <1>5 DEF WorkTake, WorkGoto, workVars, subVars, ctlVars, PoolInv, TypeOK, Phases,
       Stopped
<1>6. ASSUME NEW w \in Workers, WorkRun(w) PROVE Phases'
  BY <1>6 DEF WorkRun, WorkGoto, workVars, subVars, ctlVars, PoolInv, TypeOK, Phases,
       Stopped
<1>7. ASSUME NEW w \in Workers, WorkStats(w) PROVE Phases'
  BY <1>7 DEF WorkStats, WorkGoto, workVars, subVars, ctlVars, PoolInv, TypeOK, Phases,
       Stopped
<1>8. ASSUME NEW w \in Workers, WorkExit(w) PROVE Phases'
  BY <1>8 DEF WorkExit, WorkGoto, workVars, subVars, ctlVars, PoolInv, TypeOK, Phases,
       Stopped
<1>9. ASSUME NEW s \in Submitters, SubmitCheck(s) PROVE Phases'
  BY <1>9 DEF SubmitCheck, SubmitGoto, workVars, subVars, ctlVars, PoolInv, TypeOK,
       Phases, Stopped
<1>10. ASSUME NEW s \in Submitters, SubmitDrop(s) PROVE Phases'
  BY <1>10 DEF SubmitDrop, SubmitGoto, workVars, subVars, ctlVars, PoolInv, TypeOK,
       Phases, Stopped
<1>11. ASSUME NEW s \in Submitters, SubmitAdd(s) PROVE Phases'
  BY <1>11 DEF SubmitAdd, SubmitGoto, workVars, subVars, ctlVars, PoolInv, TypeOK,
       Phases, Stopped
<1>12. ASSUME NEW s \in Submitters, SubmitSignal(s) PROVE Phases'
  BY <1>12 DEF SubmitSignal, SubmitGoto, workVars, subVars, ctlVars, PoolInv, TypeOK,
       Phases, Stopped
<1>13. CASE RunStart
  BY <1>13 DEF RunStart, workVars, subVars, ctlVars, PoolInv, TypeOK, Phases, Stopped
<1>14. ASSUME NEW w \in Workers, RunCreate(w) PROVE Phases'
  BY <1>14 DEF RunCreate, workVars, subVars, ctlVars, PoolInv, TypeOK, Phases, Stopped
<1>15. ASSUME NEW w \in Workers, RunRegister(w) PROVE Phases'
  BY <1>15 DEF RunRegister, workVars, subVars, ctlVars, PoolInv, TypeOK, Phases, Stopped
<1>16. CASE ShutdownStart
  BY <1>16 DEF ShutdownStart, workVars, subVars, ctlVars, PoolInv, TypeOK, Phases, Stopped
<1>17. CASE ShutdownBroadcast
  BY <1>17 DEF ShutdownBroadcast, workVars, subVars, ctlVars, PoolInv, TypeOK, Phases,
       Stopped
<1>18. CASE ShutdownJoin
  BY <1>18 DEF ShutdownJoin, workVars, subVars, ctlVars, PoolInv, TypeOK, Phases, Stopped
<1>19. CASE UNCHANGED vars
  BY <1>19 DEF vars, workVars, subVars, ctlVars, PoolInv, TypeOK, Phases, Stopped
<1>20. QED
  BY <1>1, <1>2, <1>3, <1>4, <1>5, <1>6, <1>7, <1>8, <1>9, <1>10, <1>11, <1>12, <1>13,
       <1>14, <1>15, <1>16, <1>17, <1>18, <1>19 DEF Next, Working, Submitting,
       Controlling

\* A worker falls asleep on an empty list; a task that is added is followed by
\* a signal, and the signal wakes somebody if it finds anybody asleep.
LEMMA AwakeStep == PoolInv /\ [Next]_vars => SomeoneAwake'
<1> SUFFICES ASSUME PoolInv, [Next]_vars PROVE SomeoneAwake'
  OBVIOUS
<1>1. ASSUME NEW w \in Workers, WorkLock(w) PROVE SomeoneAwake'
  BY <1>1 DEF WorkLock, WorkGoto, workVars, subVars, ctlVars, PoolInv, TypeOK, Phases,
       SomeoneAwake, MutexHeld, Stopped
<1>2. ASSUME NEW w \in Workers, WorkTest(w) PROVE SomeoneAwake'
  BY <1>2 DEF WorkTest, WorkGoto, workVars, subVars, ctlVars, PoolInv, TypeOK, Phases,
       SomeoneAwake, MutexHeld, Stopped
<1>3. ASSUME NEW w \in Workers, WorkSleep(w) PROVE SomeoneAwake'
  BY <1>3 DEF WorkSleep, WorkGoto, workVars, subVars, ctlVars, PoolInv, TypeOK, Phases,
       SomeoneAwake, MutexHeld, Stopped
<1>4. ASSUME NEW w \in Workers, WorkSpurious(w) PROVE SomeoneAwake'
  BY <1>4 DEF WorkSpurious, WorkGoto, workVars, subVars, ctlVars, PoolInv, TypeOK,
       Phases, SomeoneAwake, MutexHeld, Stopped
<1>5. ASSUME NEW w \in Workers, WorkTake(w) PROVE SomeoneAwake'
  BY <1>5 DEF WorkTake, WorkGoto, workVars, subVars, ctlVars, PoolInv, TypeOK, Phases,
       SomeoneAwake, MutexHeld, Stopped
<1>6. ASSUME NEW w \in Workers, WorkRun(w) PROVE SomeoneAwake'
  BY <1>6 DEF WorkRun, WorkGoto, workVars, subVars, ctlVars, PoolInv, TypeOK, Phases,
       SomeoneAwake, MutexHeld, Stopped
<1>7. ASSUME NEW w \in Workers, WorkStats(w) PROVE SomeoneAwake'
  BY <1>7 DEF WorkStats, WorkGoto, workVars, subVars, ctlVars, PoolInv, TypeOK, Phases,
       SomeoneAwake, MutexHeld, Stopped
<1>8. ASSUME NEW w \in Workers, WorkExit(w) PROVE SomeoneAwake'
  BY <1>8 DEF WorkExit, WorkGoto, workVars, subVars, ctlVars, PoolInv, TypeOK, Phases,
       SomeoneAwake, MutexHeld, Stopped
<1>9. ASSUME NEW s \in Submitters, SubmitCheck(s) PROVE SomeoneAwake'
  BY <1>9 DEF SubmitCheck, SubmitGoto, workVars, subVars, ctlVars, PoolInv, TypeOK,
       Phases, SomeoneAwake, MutexHeld, Stopped
<1>10. ASSUME NEW s \in Submitters, SubmitDrop(s) PROVE SomeoneAwake'
  BY <1>10 DEF SubmitDrop, SubmitGoto, workVars, subVars, ctlVars, PoolInv, TypeOK,
       Phases, SomeoneAwake, MutexHeld, Stopped
<1>11. ASSUME NEW s \in Submitters, SubmitAdd(s) PROVE SomeoneAwake'
  BY <1>11 DEF SubmitAdd, SubmitGoto, workVars, subVars, ctlVars, PoolInv, TypeOK,
       Phases, SomeoneAwake, MutexHeld, Stopped
<1>12. ASSUME NEW s \in Submitters, SubmitSignal(s) PROVE SomeoneAwake'
  BY <1>12 DEF SubmitSignal, SubmitGoto, workVars, subVars, ctlVars, PoolInv, TypeOK,
       Phases, SomeoneAwake, MutexHeld, Stopped
<1>13. CASE RunStart
  BY <1>13 DEF RunStart, workVars, subVars, ctlVars, PoolInv, TypeOK, Phases,
       SomeoneAwake, MutexHeld, Stopped
<1>14. ASSUME NEW w \in Workers, RunCreate(w) PROVE SomeoneAwake'
  BY <1>14 DEF RunCreate, workVars, subVars, ctlVars, PoolInv, TypeOK, Phases,
       SomeoneAwake, MutexHeld, Stopped
<1>15. ASSUME NEW w \in Workers, RunRegister(w) PROVE SomeoneAwake'
  BY <1>15 DEF RunRegister, workVars, subVars, ctlVars, PoolInv, TypeOK, Phases,
       SomeoneAwake, MutexHeld, Stopped
<1>16. CASE ShutdownStart
  BY <1>16 DEF ShutdownStart, workVars, subVars, ctlVars, PoolInv, TypeOK, Phases,
       SomeoneAwake, MutexHeld, Stopped
<1>17. CASE ShutdownBroadcast
  BY <1>17 DEF ShutdownBroadcast, workVars, subVars, ctlVars, PoolInv, TypeOK, Phases,
       SomeoneAwake, MutexHeld, Stopped
<1>18. CASE ShutdownJoin
  BY <1>18 DEF ShutdownJoin, workVars, subVars, ctlVars, PoolInv, TypeOK, Phases,
       SomeoneAwake, MutexHeld, Stopped
<1>19. CASE UNCHANGED vars
  BY <1>19 DEF vars, workVars, subVars, ctlVars, PoolInv, TypeOK, Phases, SomeoneAwake,
       MutexHeld, Stopped
<1>20. QED
  BY <1>1, <1>2, <1>3, <1>4, <1>5, <1>6, <1>7, <1>8, <1>9, <1>10, <1>11, <1>12, <1>13,
       <1>14, <1>15, <1>16, <1>17, <1>18, <1>19 DEF Next, Working, Submitting,
       Controlling

\* A worker exits when it finds the list empty with the mutex in its hands, and
\* then everything that was added has been taken.
LEMMA DrainedStep == PoolInv /\ [Next]_vars => Drained'
<1> SUFFICES ASSUME PoolInv, [Next]_vars PROVE Drained'
  OBVIOUS
<1>1. ASSUME NEW w \in Workers, WorkLock(w) PROVE Drained'
  BY <1>1 DEF WorkLock, WorkGoto, workVars, subVars, ctlVars, PoolInv, TypeOK, Phases,
       Drained, TakenInOrder, MutexHeld, Stopped
<1>2. ASSUME NEW w \in Workers, WorkTest(w) PROVE Drained'
  BY <1>2 DEF WorkTest, WorkGoto, workVars, subVars, ctlVars, PoolInv, TypeOK, Phases,
       Drained, TakenInOrder, MutexHeld, Stopped
<1>3. ASSUME NEW w \in Workers, WorkSleep(w) PROVE Drained'
  BY <1>3 DEF WorkSleep, WorkGoto, workVars, subVars, ctlVars, PoolInv, TypeOK, Phases,
       Drained, TakenInOrder, MutexHeld, Stopped
<1>4. ASSUME NEW w \in Workers, WorkSpurious(w) PROVE Drained'
  BY <1>4 DEF WorkSpurious, WorkGoto, workVars, subVars, ctlVars, PoolInv, TypeOK,
       Phases, Drained, TakenInOrder, MutexHeld, Stopped
<1>5. ASSUME NEW w \in Workers, WorkTake(w) PROVE Drained'
  BY <1>5 DEF WorkTake, WorkGoto, workVars, subVars, ctlVars, PoolInv, TypeOK, Phases,
       Drained, TakenInOrder, MutexHeld, Stopped
<1>6. ASSUME NEW w \in Workers, WorkRun(w) PROVE Drained'
  BY <1>6 DEF WorkRun, WorkGoto, workVars, subVars, ctlVars, PoolInv, TypeOK, Phases,
       Drained, TakenInOrder, MutexHeld, Stopped
<1>7. ASSUME NEW w \in Workers, WorkStats(w) PROVE Drained'
  BY <1>7 DEF WorkStats, WorkGoto, workVars, subVars, ctlVars, PoolInv, TypeOK, Phases,
       Drained, TakenInOrder, MutexHeld, Stopped
<1>8. ASSUME NEW w \in Workers, WorkExit(w) PROVE Drained'
  BY <1>8 DEF WorkExit, WorkGoto, workVars, subVars, ctlVars, PoolInv, TypeOK, Phases,
       Drained, TakenInOrder, MutexHeld, Stopped
<1>9. ASSUME NEW s \in Submitters, SubmitCheck(s) PROVE Drained'
  BY <1>9 DEF SubmitCheck, SubmitGoto, workVars, subVars, ctlVars, PoolInv, TypeOK,
       Phases, Drained, TakenInOrder, MutexHeld, Stopped
<1>10. ASSUME NEW s \in Submitters, SubmitDrop(s) PROVE Drained'
  BY <1>10 DEF SubmitDrop, SubmitGoto, workVars, subVars, ctlVars, PoolInv, TypeOK,
       Phases, Drained, TakenInOrder, MutexHeld, Stopped
<1>11. ASSUME NEW s \in Submitters, SubmitAdd(s) PROVE Drained'
  BY <1>11 DEF SubmitAdd, SubmitGoto, workVars, subVars, ctlVars, PoolInv, TypeOK,
       Phases, Drained, TakenInOrder, MutexHeld, Stopped
<1>12. ASSUME NEW s \in Submitters, SubmitSignal(s) PROVE Drained'
  BY <1>12 DEF SubmitSignal, SubmitGoto, workVars, subVars, ctlVars, PoolInv, TypeOK,
       Phases, Drained, TakenInOrder, MutexHeld, Stopped
<1>13. CASE RunStart
  BY <1>13 DEF RunStart, workVars, subVars, ctlVars, PoolInv, TypeOK, Phases, Drained,
       TakenInOrder, MutexHeld, Stopped
<1>14. ASSUME NEW w \in Workers, RunCreate(w) PROVE Drained'
  BY <1>14 DEF RunCreate, workVars, subVars, ctlVars, PoolInv, TypeOK, Phases, Drained,
       TakenInOrder, MutexHeld, Stopped
<1>15. ASSUME NEW w \in Workers, RunRegister(w) PROVE Drained'
  BY <1>15 DEF RunRegister, workVars, subVars, ctlVars, PoolInv, TypeOK, Phases, Drained,
       TakenInOrder, MutexHeld, Stopped
<1>16. CASE ShutdownStart
  BY <1>16 DEF ShutdownStart, workVars, subVars, ctlVars, PoolInv, TypeOK, Phases,
       Drained, TakenInOrder, MutexHeld, Stopped
<1>17. CASE ShutdownBroadcast
  BY <1>17 DEF ShutdownBroadcast, workVars, subVars, ctlVars, PoolInv, TypeOK, Phases,
       Drained, TakenInOrder, MutexHeld, Stopped
<1>18. CASE ShutdownJoin
  BY <1>18 DEF ShutdownJoin, workVars, subVars, ctlVars, PoolInv, TypeOK, Phases,
       Drained, TakenInOrder, MutexHeld, Stopped
<1>19. CASE UNCHANGED vars
  BY <1>19 DEF vars, workVars, subVars, ctlVars, PoolInv, TypeOK, Phases, Drained,
       TakenInOrder, MutexHeld, Stopped
<1>20. QED
  BY <1>1, <1>2, <1>3, <1>4, <1>5, <1>6, <1>7, <1>8, <1>9, <1>10, <1>11, <1>12, <1>13,
       <1>14, <1>15, <1>16, <1>17, <1>18, <1>19 DEF Next, Working, Submitting,
       Controlling

\* Nobody submits to the pool before its first run has all its workers and
\* their counters.
LEMMA FirstStep == PoolInv /\ [Next]_vars => FirstRun'
<1> SUFFICES ASSUME PoolInv, [Next]_vars PROVE FirstRun'
  OBVIOUS
<1>1. ASSUME NEW w \in Workers, WorkLock(w) PROVE FirstRun'
  BY <1>1 DEF WorkLock, WorkGoto, workVars, subVars, ctlVars, PoolInv, TypeOK, Phases,
       FirstRun, MutexHeld, Stopped
<1>2. ASSUME NEW w \in Workers, WorkTest(w) PROVE FirstRun'
  BY <1>2 DEF WorkTest, WorkGoto, workVars, subVars, ctlVars, PoolInv, TypeOK, Phases,
       FirstRun, MutexHeld, Stopped
<1>3. ASSUME NEW w \in Workers, WorkSleep(w) PROVE FirstRun'
  BY <1>3 DEF WorkSleep, WorkGoto, workVars, subVars, ctlVars, PoolInv, TypeOK, Phases,
       FirstRun, MutexHeld, Stopped
<1>4. ASSUME NEW w \in Workers, WorkSpurious(w) PROVE FirstRun'
  BY <1>4 DEF WorkSpurious, WorkGoto, workVars, subVars, ctlVars, PoolInv, TypeOK,
       Phases, FirstRun, MutexHeld, Stopped
<1>5. ASSUME NEW w \in Workers, WorkTake(w) PROVE FirstRun'
  BY <1>5 DEF WorkTake, WorkGoto, workVars, subVars, ctlVars, PoolInv, TypeOK, Phases,
       FirstRun, MutexHeld, Stopped
<1>6. ASSUME NEW w \in Workers, WorkRun(w) PROVE FirstRun'
  BY <1>6 DEF WorkRun, WorkGoto, workVars, subVars, ctlVars, PoolInv, TypeOK, Phases,
       FirstRun, MutexHeld, Stopped
<1>7. ASSUME NEW w \in Workers, WorkStats(w) PROVE FirstRun'
  BY <1>7 DEF WorkStats, WorkGoto, workVars, subVars, ctlVars, PoolInv, TypeOK, Phases,
       FirstRun, MutexHeld, Stopped
<1>8. ASSUME NEW w \in Workers, WorkExit(w) PROVE FirstRun'
  BY <1>8 DEF WorkExit, WorkGoto, workVars, subVars, ctlVars, PoolInv, TypeOK, Phases,
       FirstRun, MutexHeld, Stopped
<1>9. ASSUME NEW s \in Submitters, SubmitCheck(s) PROVE FirstRun'
  BY <1>9 DEF SubmitCheck, SubmitGoto, workVars, subVars, ctlVars, PoolInv, TypeOK,
       Phases, FirstRun, MutexHeld, Stopped
<1>10. ASSUME NEW s \in Submitters, SubmitDrop(s) PROVE FirstRun'
  BY <1>10 DEF SubmitDrop, SubmitGoto, workVars, subVars, ctlVars, PoolInv, TypeOK,
       Phases, FirstRun, MutexHeld, Stopped
<1>11. ASSUME NEW s \in Submitters, SubmitAdd(s) PROVE FirstRun'
  BY <1>11 DEF SubmitAdd, SubmitGoto, workVars, subVars, ctlVars, PoolInv, TypeOK,
       Phases, FirstRun, MutexHeld, Stopped
<1>12. ASSUME NEW s \in Submitters, SubmitSignal(s) PROVE FirstRun'
  BY <1>12 DEF SubmitSignal, SubmitGoto, workVars, subVars, ctlVars, PoolInv, TypeOK,
       Phases, FirstRun, MutexHeld, Stopped
<1>13. CASE RunStart
  BY <1>13 DEF RunStart, workVars, subVars, ctlVars, PoolInv, TypeOK, Phases, FirstRun,
       MutexHeld, Stopped
<1>14. ASSUME NEW w \in Workers, RunCreate(w) PROVE FirstRun'
  BY <1>14 DEF RunCreate, workVars, subVars, ctlVars, PoolInv, TypeOK, Phases, FirstRun,
       MutexHeld, Stopped
<1>15. ASSUME NEW w \in Workers, RunRegister(w) PROVE FirstRun'
  BY <1>15 DEF RunRegister, workVars, subVars, ctlVars, PoolInv, TypeOK, Phases,
       FirstRun, MutexHeld, Stopped
<1>16. CASE ShutdownStart
  BY <1>16 DEF ShutdownStart, workVars, subVars, ctlVars, PoolInv, TypeOK, Phases,
       FirstRun, MutexHeld, Stopped
<1>17. CASE ShutdownBroadcast
  BY <1>17 DEF ShutdownBroadcast, workVars, subVars, ctlVars, PoolInv, TypeOK, Phases,
       FirstRun, MutexHeld, Stopped
<1>18. CASE ShutdownJoin
  BY <1>18 DEF ShutdownJoin, workVars, subVars, ctlVars, PoolInv, TypeOK, Phases,
       FirstRun, MutexHeld, Stopped
<1>19. CASE UNCHANGED vars
  BY <1>19 DEF vars, workVars, subVars, ctlVars, PoolInv, TypeOK, Phases, FirstRun,
       MutexHeld, Stopped
<1>20. QED
  BY <1>1, <1>2, <1>3, <1>4, <1>5, <1>6, <1>7, <1>8, <1>9, <1>10, <1>11, <1>12, <1>13,
       <1>14, <1>15, <1>16, <1>17, <1>18, <1>19 DEF Next, Working, Submitting,
       Controlling
-----------------------------------------------------------------------------
LEMMA PoolInitially == Init => PoolInv
<1> SUFFICES ASSUME Init PROVE PoolInv
  OBVIOUS
<1>1. TypeOK
  BY ThpAssumption DEF Init, TypeOK, NoTask
<1>2. TakenInOrder
  BY DEF Init, TakenInOrder
<1>3. MutexHeld /\ Numbered /\ TakenRuns
  BY DEF Init, MutexHeld, Numbered, TakenRuns
<1>4. Phases /\ SomeoneAwake /\ Drained /\ FirstRun
  BY DEF Init, Phases, SomeoneAwake, Drained, FirstRun
<1>5. QED
  BY <1>1, <1>2, <1>3, <1>4 DEF PoolInv

LEMMA PoolStep == PoolInv /\ [Next]_vars => PoolInv'
  BY TypeStep, OrderStep, MutexStep, NumberedStep, RunsStep, PhasesStep, AwakeStep,
     DrainedStep, FirstStep DEF PoolInv

\* The invariant is enough: before a shutdown returns every worker has exited,
\* so all that was in the list is taken, and nobody is left with a task to run.
LEMMA PoolInvKept == PoolInv => PoolKept
<1> SUFFICES ASSUME PoolInv PROVE PoolKept
  OBVIOUS
<1>1. NoTaskStranded
  BY DEF PoolInv, SomeoneAwake, Phases, NoTaskStranded
<1>2. ShutdownDrains
  <2> SUFFICES ASSUME kpc = "idle", NEW k \in 1..before PROVE added[k] \in done
    BY DEF ShutdownDrains
  <2>1. k \in 1..Len(taken)
    BY DEF PoolInv, Drained, TypeOK
  <2>2. added[k] = taken[k]
    BY <2>1 DEF PoolInv, TakenInOrder, TypeOK
  <2>3. \A w \in Workers : wpc[w] # "run"
    BY DEF PoolInv, Phases
  <2>4. QED
    BY <2>1, <2>2, <2>3 DEF PoolInv, TakenRuns
<1>3. StatsFound
  BY DEF PoolInv, FirstRun, Phases, TypeOK, StatsFound
<1>4. QED
  BY <1>1, <1>2, <1>3 DEF PoolInv, PoolKept

\* lib/thp: whatever the workers, the submitters and the thread that runs and
\* shuts the pool down do, tasks start once and in the order of the list, no
\* task is left while all workers sleep, a shutdown runs what was waiting before
\* it, and in the first run every worker finds its counter.
THEOREM PoolKeptAlways == Spec => []PoolKept
<1>1. Init => PoolInv
  BY PoolInitially
<1>2. PoolInv /\ [Next]_vars => PoolInv'
  BY PoolStep
<1>3. PoolInv => PoolKept
  BY PoolInvKept
<1>4. QED
  BY <1>1, <1>2, <1>3, PTL DEF Spec
-----------------------------------------------------------------------------
(* The timers of lib/event *)

\* The clock has the lock while it is at the heap, and there it goes by the
\* timer it found at the top.
ClockAtHeap ==
  /\ e_lock = E!Clock <=> e_kpc \in {"look", "drop", "reset", "take"}
  /\ e_kpc \in {"drop", "take"} => e_top \in e_heap
  /\ e_kpc = "take" => Len(e_batch) < Batch

\* Two users are not at one timer, and nobody starts a timer that was destroyed.
UsersApart ==
  /\ \A u, v \in Users :
       e_upc[u] # "idle" /\ e_upc[v] # "idle" /\ e_on[u] = e_on[v] => u = v
  /\ \A u \in Users :
       /\ e_upc[u] \in {"remove", "clear", "claim", "set", "add"} => e_on[u] \notin e_freed
       /\ e_upc[u] \in {"remove", "clear", "claim"} => e_started[e_on[u]] < MaxStarts

\* A user has the flag of the timer set and the timer out of the heap.
Between(t) == \E u \in Users : e_on[u] = t /\ e_upc[u] \in {"clear", "set", "add"}

FlagIsHeap ==
  \A t \in Timers :
    ~e_strayed /\ E!Kept(t) =>
      /\ e_actived[t] = 1 <=> t \in e_heap \/ Between(t)
      /\ ~(t \in e_heap /\ Between(t))

InBatch(b, t) == Cardinality({i \in 1..Len(b) : b[i] = t})
Once(p) == IF p THEN 1 ELSE 0
Starting(t) == \E u \in Users : e_on[u] = t /\ e_upc[u] \in {"set", "add"}

\* A start that took effect is on its way to the heap, in it, in the batch or
\* submitted.
StartsCounted ==
  \A t \in Timers :
    e_fired[t] + InBatch(e_batch, t) + Once(t \in e_heap) + Once(Starting(t))
      <= e_started[t]

TimerInv == E!TypeOK /\ ClockAtHeap /\ UsersApart /\ FlagIsHeap /\ StartsCounted

LEMMA TimerConstants ==
  /\ Timeout \in [Timers -> Nat] /\ Batch \in Nat /\ MaxStarts \in Nat
  BY TimerAssumptions DEF TimerAssumptions, E!EvTimerAssumption

\* The types.
LEMMA TimerTypeStep == TimerInv /\ [E!Next]_(E!vars) => E!TypeOK'
<1> SUFFICES ASSUME TimerInv, [E!Next]_(E!vars) PROVE E!TypeOK'
  OBVIOUS
<1>1. CASE E!Tick
  BY <1>1 DEF E!Tick, E!timerVars, E!clockVars, E!userVars, E!heapVars, TimerInv,
       E!TypeOK, ClockAtHeap, UsersApart
<1>2. CASE E!ClockSet
  BY <1>2 DEF E!ClockSet, E!timerVars, E!clockVars, E!userVars, E!heapVars, TimerInv,
       E!TypeOK, ClockAtHeap, UsersApart
<1>3. CASE E!ClockLock
  BY <1>3 DEF E!ClockLock, E!timerVars, E!clockVars, E!userVars, E!heapVars, TimerInv,
       E!TypeOK, ClockAtHeap, UsersApart
<1>4. CASE E!ClockLook
  BY <1>4 DEF E!ClockLook, E!Full, E!Tops, E!timerVars, E!clockVars, E!userVars,
       E!heapVars, TimerInv, E!TypeOK, ClockAtHeap, UsersApart
<1>5. CASE E!ClockUnlock
  BY <1>5 DEF E!ClockUnlock, E!Full, E!Tops, E!timerVars, E!clockVars, E!userVars,
       E!heapVars, TimerInv, E!TypeOK, ClockAtHeap, UsersApart
<1>6. CASE E!ClockDrop
  BY <1>6 DEF E!ClockDrop, E!timerVars, E!clockVars, E!userVars, E!heapVars, TimerInv,
       E!TypeOK, ClockAtHeap, UsersApart
<1>7. CASE E!ClockReset
  BY <1>7 DEF E!ClockReset, E!timerVars, E!clockVars, E!userVars, E!heapVars, TimerInv,
       E!TypeOK, ClockAtHeap, UsersApart
<1>8. CASE E!ClockTake
  <2>1. e_heap' \subseteq Timers /\ e_actived' \in [Timers -> {0, 1}]
    BY <1>8 DEF E!ClockTake, TimerInv, E!TypeOK
  <2>2. e_batch' \in Seq(Timers) /\ Len(e_batch') <= Batch
    BY <1>8, TimerConstants DEF E!ClockTake, TimerInv, E!TypeOK, ClockAtHeap
  <2>3. QED
    BY <1>8, <2>1, <2>2 DEF E!ClockTake, E!timerVars, E!clockVars, E!userVars,
         E!heapVars, TimerInv, E!TypeOK
<1>9. CASE E!ClockSubmit
  <2>1. CASE e_batch = <<>> \/ Head(e_batch) \in e_freed
    BY <1>9, <2>1 DEF E!ClockSubmit, E!timerVars, E!clockVars, E!userVars, E!heapVars,
         TimerInv, E!TypeOK
  <2>2. CASE e_batch # <<>> /\ Head(e_batch) \notin e_freed
    <3>1. e_batch' \in Seq(Timers) /\ Len(e_batch') <= Batch /\ Head(e_batch) \in Timers
      <4>1. e_batch \in Seq(Timers) /\ Len(e_batch) <= Batch /\ e_batch # <<>>
        BY <2>2 DEF TimerInv, E!TypeOK
      <4>2. e_batch' = Tail(e_batch)
        BY <1>9, <2>2 DEF E!ClockSubmit
      <4>3. Tail(e_batch) \in Seq(Timers) /\ Len(Tail(e_batch)) = Len(e_batch) - 1
        BY <4>1
      <4>4. QED
        BY <4>1, <4>2, <4>3, TimerConstants
    <3>2. e_fired' \in [Timers -> Nat]
      <4>1. e_fired' = [e_fired EXCEPT ![Head(e_batch)] = e_fired[Head(e_batch)] + 1]
        BY <1>9, <2>2 DEF E!ClockSubmit
      <4>2. e_fired \in [Timers -> Nat]
        BY DEF TimerInv, E!TypeOK
      <4>3. QED
        BY <4>1, <4>2, <3>1
    <3>3. QED
      BY <1>9, <2>2, <3>1, <3>2 DEF E!ClockSubmit, E!timerVars, E!clockVars, E!userVars,
           E!heapVars, TimerInv, E!TypeOK
  <2>3. QED
    BY <2>1, <2>2
<1>10. ASSUME NEW t \in Timers, E!Stop(t) PROVE E!TypeOK'
  BY <1>10 DEF E!Stop, E!Kept, E!Adding, E!timerVars, E!clockVars, E!userVars,
       E!heapVars, TimerInv, E!TypeOK, ClockAtHeap, UsersApart
<1>11. ASSUME NEW u \in Users, NEW t \in Timers, E!StartCall(u, t) PROVE E!TypeOK'
  BY <1>11 DEF E!StartCall, E!Kept, E!Quiet, E!Goto, E!timerVars, E!clockVars,
       E!userVars, E!heapVars, TimerInv, E!TypeOK, ClockAtHeap, UsersApart
<1>12. ASSUME NEW u \in Users, E!StartRemove(u) PROVE E!TypeOK'
  BY <1>12 DEF E!StartRemove, E!Remove, E!Goto, E!timerVars, E!clockVars, E!userVars,
       E!heapVars, TimerInv, E!TypeOK, ClockAtHeap, UsersApart
<1>13. ASSUME NEW u \in Users, E!StartClear(u) PROVE E!TypeOK'
  BY <1>13 DEF E!StartClear, E!Goto, E!timerVars, E!clockVars, E!userVars, E!heapVars,
       TimerInv, E!TypeOK, ClockAtHeap, UsersApart
<1>14. ASSUME NEW u \in Users, E!StartClaim(u) PROVE E!TypeOK'
  <2>1. /\ e_upc[u] = "claim" /\ e_on[u] \in Timers
        /\ e_started[e_on[u]] \in 0..MaxStarts
        /\ e_started[e_on[u]] < MaxStarts
    BY <1>14 DEF E!StartClaim, E!Goto, TimerInv, E!TypeOK, UsersApart
  <2>2. e_started[e_on[u]] + 1 \in 0..MaxStarts
    BY <2>1, TimerConstants
  <2>3. e_started' \in [Timers -> 0..MaxStarts]
    BY <1>14, <2>1, <2>2 DEF E!StartClaim, TimerInv, E!TypeOK
  <2>4. QED
    BY <1>14, <2>3 DEF E!StartClaim, E!Goto, E!timerVars, E!clockVars, E!userVars,
         E!heapVars, TimerInv, E!TypeOK
<1>15. ASSUME NEW u \in Users, E!StartSet(u) PROVE E!TypeOK'
  <2>1. e_expired' \in [Timers -> Nat] /\ e_deleted' \in [Timers -> {0, 1}]
    <3>1. e_on[u] \in Timers /\ e_curr \in Nat /\ Timeout[e_on[u]] \in Nat
      BY TimerConstants DEF TimerInv, E!TypeOK
    <3>2. e_curr + Timeout[e_on[u]] \in Nat
      BY <3>1
    <3>3. e_expired' = [e_expired EXCEPT ![e_on[u]] = e_curr + Timeout[e_on[u]]]
          /\ e_deleted' = [e_deleted EXCEPT ![e_on[u]] = 0]
      BY <1>15 DEF E!StartSet
    <3>4. QED
      BY <3>1, <3>2, <3>3 DEF TimerInv, E!TypeOK
  <2>2. QED
    BY <1>15, <2>1 DEF E!StartSet, E!Goto, E!timerVars, E!clockVars, E!userVars,
         E!heapVars, TimerInv, E!TypeOK
<1>16. ASSUME NEW u \in Users, E!StartAdd(u) PROVE E!TypeOK'
  BY <1>16 DEF E!StartAdd, E!Goto, E!timerVars, E!clockVars, E!userVars, E!heapVars,
       TimerInv, E!TypeOK, ClockAtHeap, UsersApart
<1>17. ASSUME NEW u \in Users, NEW t \in Timers, E!DestroyCall(u, t) PROVE E!TypeOK'
  BY <1>17 DEF E!DestroyCall, E!Kept, E!Quiet, E!Goto, E!timerVars, E!clockVars,
       E!userVars, E!heapVars, TimerInv, E!TypeOK, ClockAtHeap, UsersApart
<1>18. ASSUME NEW u \in Users, E!DestroyRemove(u) PROVE E!TypeOK'
  BY <1>18 DEF E!DestroyRemove, E!Remove, E!Goto, E!timerVars, E!clockVars, E!userVars,
       E!heapVars, TimerInv, E!TypeOK, ClockAtHeap, UsersApart
<1>19. ASSUME NEW u \in Users, E!DestroyFree(u) PROVE E!TypeOK'
  BY <1>19 DEF E!DestroyFree, E!Goto, E!timerVars, E!clockVars, E!userVars, E!heapVars,
       TimerInv, E!TypeOK, ClockAtHeap, UsersApart
<1>20. CASE UNCHANGED E!vars
  BY <1>20 DEF E!vars, E!timerVars, E!clockVars, E!userVars, E!heapVars, TimerInv,
       E!TypeOK, ClockAtHeap, UsersApart
<1>21. QED
  BY <1>1, <1>2, <1>3, <1>4, <1>5, <1>6, <1>7, <1>8, <1>9, <1>10, <1>11, <1>12, <1>13,
       <1>14, <1>15, <1>16, <1>17, <1>18, <1>19, <1>20 DEF E!Next, E!Ticking, E!Using

\* The top the clock has found is in the heap until it takes it out: the others
\* are at the heap only when the lock is free.
LEMMA ClockStep == TimerInv /\ [E!Next]_(E!vars) => ClockAtHeap'
<1> SUFFICES ASSUME TimerInv, [E!Next]_(E!vars) PROVE ClockAtHeap'
  OBVIOUS
<1>1. CASE E!Tick
  BY <1>1 DEF E!Tick, E!timerVars, E!clockVars, E!userVars, E!heapVars, TimerInv,
       E!TypeOK, ClockAtHeap, E!Clock, E!NoOne
<1>2. CASE E!ClockSet
  BY <1>2 DEF E!ClockSet, E!timerVars, E!clockVars, E!userVars, E!heapVars, TimerInv,
       E!TypeOK, ClockAtHeap, E!Clock, E!NoOne
<1>3. CASE E!ClockLock
  BY <1>3 DEF E!ClockLock, E!timerVars, E!clockVars, E!userVars, E!heapVars, TimerInv,
       E!TypeOK, ClockAtHeap, E!Clock, E!NoOne
<1>4. CASE E!ClockLook
  BY <1>4, TimerConstants DEF E!ClockLook, E!Full, E!Tops, E!timerVars, E!clockVars,
       E!userVars, E!heapVars, TimerInv, E!TypeOK, ClockAtHeap, E!Clock, E!NoOne
<1>5. CASE E!ClockUnlock
  BY <1>5 DEF E!ClockUnlock, E!Full, E!Tops, E!timerVars, E!clockVars, E!userVars,
       E!heapVars, TimerInv, E!TypeOK, ClockAtHeap, E!Clock, E!NoOne
<1>6. CASE E!ClockDrop
  BY <1>6 DEF E!ClockDrop, E!timerVars, E!clockVars, E!userVars, E!heapVars, TimerInv,
       E!TypeOK, ClockAtHeap, E!Clock, E!NoOne
<1>7. CASE E!ClockReset
  BY <1>7 DEF E!ClockReset, E!timerVars, E!clockVars, E!userVars, E!heapVars, TimerInv,
       E!TypeOK, ClockAtHeap, E!Clock, E!NoOne
<1>8. CASE E!ClockTake
  BY <1>8 DEF E!ClockTake, E!timerVars, E!clockVars, E!userVars, E!heapVars, TimerInv,
       E!TypeOK, ClockAtHeap, E!Clock, E!NoOne
<1>9. CASE E!ClockSubmit
  BY <1>9 DEF E!ClockSubmit, E!timerVars, E!clockVars, E!userVars, E!heapVars, TimerInv,
       E!TypeOK, ClockAtHeap, E!Clock, E!NoOne
<1>10. ASSUME NEW t \in Timers, E!Stop(t) PROVE ClockAtHeap'
  BY <1>10 DEF E!Stop, E!Kept, E!Adding, E!timerVars, E!clockVars, E!userVars,
       E!heapVars, TimerInv, E!TypeOK, ClockAtHeap, E!Clock, E!NoOne
<1>11. ASSUME NEW u \in Users, NEW t \in Timers, E!StartCall(u, t) PROVE ClockAtHeap'
  BY <1>11 DEF E!StartCall, E!Kept, E!Quiet, E!Goto, E!timerVars, E!clockVars,
       E!userVars, E!heapVars, TimerInv, E!TypeOK, ClockAtHeap, E!Clock, E!NoOne
<1>12. ASSUME NEW u \in Users, E!StartRemove(u) PROVE ClockAtHeap'
  BY <1>12 DEF E!StartRemove, E!Remove, E!Goto, E!timerVars, E!clockVars, E!userVars,
       E!heapVars, TimerInv, E!TypeOK, ClockAtHeap, E!Clock, E!NoOne
<1>13. ASSUME NEW u \in Users, E!StartClear(u) PROVE ClockAtHeap'
  BY <1>13 DEF E!StartClear, E!Goto, E!timerVars, E!clockVars, E!userVars, E!heapVars,
       TimerInv, E!TypeOK, ClockAtHeap, E!Clock, E!NoOne
<1>14. ASSUME NEW u \in Users, E!StartClaim(u) PROVE ClockAtHeap'
  BY <1>14 DEF E!StartClaim, E!Goto, E!timerVars, E!clockVars, E!userVars, E!heapVars,
       TimerInv, E!TypeOK, ClockAtHeap, E!Clock, E!NoOne
<1>15. ASSUME NEW u \in Users, E!StartSet(u) PROVE ClockAtHeap'
  BY <1>15 DEF E!StartSet, E!Goto, E!timerVars, E!clockVars, E!userVars, E!heapVars,
       TimerInv, E!TypeOK, ClockAtHeap, E!Clock, E!NoOne
<1>16. ASSUME NEW u \in Users, E!StartAdd(u) PROVE ClockAtHeap'
  BY <1>16 DEF E!StartAdd, E!Goto, E!timerVars, E!clockVars, E!userVars, E!heapVars,
       TimerInv, E!TypeOK, ClockAtHeap, E!Clock, E!NoOne
<1>17. ASSUME NEW u \in Users, NEW t \in Timers, E!DestroyCall(u, t) PROVE ClockAtHeap'
  BY <1>17 DEF E!DestroyCall, E!Kept, E!Quiet, E!Goto, E!timerVars, E!clockVars,
       E!userVars, E!heapVars, TimerInv, E!TypeOK, ClockAtHeap, E!Clock, E!NoOne
<1>18. ASSUME NEW u \in Users, E!DestroyRemove(u) PROVE ClockAtHeap'
  BY <1>18 DEF E!DestroyRemove, E!Remove, E!Goto, E!timerVars, E!clockVars, E!userVars,
       E!heapVars, TimerInv, E!TypeOK, ClockAtHeap, E!Clock, E!NoOne
<1>19. ASSUME NEW u \in Users, E!DestroyFree(u) PROVE ClockAtHeap'
  BY <1>19 DEF E!DestroyFree, E!Goto, E!timerVars, E!clockVars, E!userVars, E!heapVars,
       TimerInv, E!TypeOK, ClockAtHeap, E!Clock, E!NoOne
<1>20. CASE UNCHANGED E!vars
  BY <1>20 DEF E!vars, E!timerVars, E!clockVars, E!userVars, E!heapVars, TimerInv,
       E!TypeOK, ClockAtHeap, E!Clock, E!NoOne
<1>21. QED
  BY <1>1, <1>2, <1>3, <1>4, <1>5, <1>6, <1>7, <1>8, <1>9, <1>10, <1>11, <1>12, <1>13,
       <1>14, <1>15, <1>16, <1>17, <1>18, <1>19, <1>20 DEF E!Next, E!Ticking, E!Using

\* A call begins only when no other user is at the timer.
LEMMA ApartStep == TimerInv /\ [E!Next]_(E!vars) => UsersApart'
<1> SUFFICES ASSUME TimerInv, [E!Next]_(E!vars) PROVE UsersApart'
  OBVIOUS
<1>1. CASE E!Tick
  BY <1>1 DEF E!Tick, E!timerVars, E!clockVars, E!userVars, E!heapVars, TimerInv,
       E!TypeOK, UsersApart
<1>2. CASE E!ClockSet
  BY <1>2 DEF E!ClockSet, E!timerVars, E!clockVars, E!userVars, E!heapVars, TimerInv,
       E!TypeOK, UsersApart
<1>3. CASE E!ClockLock
  BY <1>3 DEF E!ClockLock, E!timerVars, E!clockVars, E!userVars, E!heapVars, TimerInv,
       E!TypeOK, UsersApart
<1>4. CASE E!ClockLook
  BY <1>4 DEF E!ClockLook, E!Full, E!Tops, E!timerVars, E!clockVars, E!userVars,
       E!heapVars, TimerInv, E!TypeOK, UsersApart
<1>5. CASE E!ClockUnlock
  BY <1>5 DEF E!ClockUnlock, E!Full, E!Tops, E!timerVars, E!clockVars, E!userVars,
       E!heapVars, TimerInv, E!TypeOK, UsersApart
<1>6. CASE E!ClockDrop
  BY <1>6 DEF E!ClockDrop, E!timerVars, E!clockVars, E!userVars, E!heapVars, TimerInv,
       E!TypeOK, UsersApart
<1>7. CASE E!ClockReset
  BY <1>7 DEF E!ClockReset, E!timerVars, E!clockVars, E!userVars, E!heapVars, TimerInv,
       E!TypeOK, UsersApart
<1>8. CASE E!ClockTake
  BY <1>8 DEF E!ClockTake, E!timerVars, E!clockVars, E!userVars, E!heapVars, TimerInv,
       E!TypeOK, UsersApart
<1>9. CASE E!ClockSubmit
  BY <1>9 DEF E!ClockSubmit, E!timerVars, E!clockVars, E!userVars, E!heapVars, TimerInv,
       E!TypeOK, UsersApart
<1>10. ASSUME NEW t \in Timers, E!Stop(t) PROVE UsersApart'
  BY <1>10 DEF E!Stop, E!Kept, E!Adding, E!timerVars, E!clockVars, E!userVars,
       E!heapVars, TimerInv, E!TypeOK, UsersApart
<1>11. ASSUME NEW u \in Users, NEW t \in Timers, E!StartCall(u, t) PROVE UsersApart'
  BY <1>11 DEF E!StartCall, E!Kept, E!Quiet, E!Goto, E!timerVars, E!clockVars,
       E!userVars, E!heapVars, TimerInv, E!TypeOK, UsersApart
<1>12. ASSUME NEW u \in Users, E!StartRemove(u) PROVE UsersApart'
  BY <1>12 DEF E!StartRemove, E!Remove, E!Goto, E!timerVars, E!clockVars, E!userVars,
       E!heapVars, TimerInv, E!TypeOK, UsersApart
<1>13. ASSUME NEW u \in Users, E!StartClear(u) PROVE UsersApart'
  BY <1>13 DEF E!StartClear, E!Goto, E!timerVars, E!clockVars, E!userVars, E!heapVars,
       TimerInv, E!TypeOK, UsersApart
<1>14. ASSUME NEW u \in Users, E!StartClaim(u) PROVE UsersApart'
  <2>1. \A v \in Users \ {u} : e_upc[v] # "idle" => e_on[v] # e_on[u]
    BY <1>14 DEF E!StartClaim, E!Goto, TimerInv, UsersApart
  <2>2. \A v \in Users \ {u} : e_upc'[v] = e_upc[v] /\ e_on' = e_on /\ e_freed' = e_freed
    BY <1>14 DEF E!StartClaim, E!Goto, E!timerVars, E!clockVars, E!userVars, E!heapVars,
         TimerInv, E!TypeOK
  <2>3. e_upc'[u] \in {"set", "idle"}
    BY <1>14 DEF E!StartClaim, E!Goto, TimerInv, E!TypeOK
  <2>4. \A s \in Timers \ {e_on[u]} : e_started'[s] = e_started[s]
    BY <1>14 DEF E!StartClaim, E!timerVars, E!clockVars, E!userVars, E!heapVars,
         TimerInv, E!TypeOK
  <2>5. e_upc[u] = "claim" /\ e_on \in [Users -> Timers] /\ e_freed' = e_freed /\ e_on' = e_on
    BY <1>14 DEF E!StartClaim, E!Goto, E!timerVars, E!clockVars, E!userVars, E!heapVars,
         TimerInv, E!TypeOK
  <2>6. QED
    BY <2>1, <2>2, <2>3, <2>4, <2>5 DEF TimerInv, UsersApart
<1>15. ASSUME NEW u \in Users, E!StartSet(u) PROVE UsersApart'
  BY <1>15 DEF E!StartSet, E!Goto, E!timerVars, E!clockVars, E!userVars, E!heapVars,
       TimerInv, E!TypeOK, UsersApart
<1>16. ASSUME NEW u \in Users, E!StartAdd(u) PROVE UsersApart'
  BY <1>16 DEF E!StartAdd, E!Goto, E!timerVars, E!clockVars, E!userVars, E!heapVars,
       TimerInv, E!TypeOK, UsersApart
<1>17. ASSUME NEW u \in Users, NEW t \in Timers, E!DestroyCall(u, t) PROVE UsersApart'
  BY <1>17 DEF E!DestroyCall, E!Kept, E!Quiet, E!Goto, E!timerVars, E!clockVars,
       E!userVars, E!heapVars, TimerInv, E!TypeOK, UsersApart
<1>18. ASSUME NEW u \in Users, E!DestroyRemove(u) PROVE UsersApart'
  BY <1>18 DEF E!DestroyRemove, E!Remove, E!Goto, E!timerVars, E!clockVars, E!userVars,
       E!heapVars, TimerInv, E!TypeOK, UsersApart
<1>19. ASSUME NEW u \in Users, E!DestroyFree(u) PROVE UsersApart'
  BY <1>19 DEF E!DestroyFree, E!Goto, E!timerVars, E!clockVars, E!userVars, E!heapVars,
       TimerInv, E!TypeOK, UsersApart
<1>20. CASE UNCHANGED E!vars
  BY <1>20 DEF E!vars, E!timerVars, E!clockVars, E!userVars, E!heapVars, TimerInv,
       E!TypeOK, UsersApart
<1>21. QED
  BY <1>1, <1>2, <1>3, <1>4, <1>5, <1>6, <1>7, <1>8, <1>9, <1>10, <1>11, <1>12, <1>13,
       <1>14, <1>15, <1>16, <1>17, <1>18, <1>19, <1>20 DEF E!Next, E!Ticking, E!Using

\* The flag follows the heap as long as nothing strays: what a user takes out of
\* the heap is its own timer, and the clock resets the flag of what it takes.
LEMMA FlagStep == TimerInv /\ [E!Next]_(E!vars) => FlagIsHeap'
<1> SUFFICES ASSUME TimerInv, [E!Next]_(E!vars) PROVE FlagIsHeap'
  OBVIOUS
<1>1. CASE E!Tick
  BY <1>1 DEF E!Tick, E!timerVars, E!clockVars, E!userVars, E!heapVars, TimerInv,
       E!TypeOK, ClockAtHeap, UsersApart, FlagIsHeap, Between, E!Kept, E!Clock, E!NoOne
<1>2. CASE E!ClockSet
  BY <1>2 DEF E!ClockSet, E!timerVars, E!clockVars, E!userVars, E!heapVars, TimerInv,
       E!TypeOK, ClockAtHeap, UsersApart, FlagIsHeap, Between, E!Kept, E!Clock, E!NoOne
<1>3. CASE E!ClockLock
  BY <1>3 DEF E!ClockLock, E!timerVars, E!clockVars, E!userVars, E!heapVars, TimerInv,
       E!TypeOK, ClockAtHeap, UsersApart, FlagIsHeap, Between, E!Kept, E!Clock, E!NoOne
<1>4. CASE E!ClockLook
  BY <1>4 DEF E!ClockLook, E!Full, E!Tops, E!timerVars, E!clockVars, E!userVars,
       E!heapVars, TimerInv, E!TypeOK, ClockAtHeap, UsersApart, FlagIsHeap, Between,
       E!Kept, E!Clock, E!NoOne
<1>5. CASE E!ClockUnlock
  BY <1>5 DEF E!ClockUnlock, E!Full, E!Tops, E!timerVars, E!clockVars, E!userVars,
       E!heapVars, TimerInv, E!TypeOK, ClockAtHeap, UsersApart, FlagIsHeap, Between,
       E!Kept, E!Clock, E!NoOne
<1>6. CASE E!ClockDrop
  BY <1>6 DEF E!ClockDrop, E!timerVars, E!clockVars, E!userVars, E!heapVars, TimerInv,
       E!TypeOK, ClockAtHeap, UsersApart, FlagIsHeap, Between, E!Kept, E!Clock, E!NoOne
<1>7. CASE E!ClockReset
  BY <1>7 DEF E!ClockReset, E!timerVars, E!clockVars, E!userVars, E!heapVars, TimerInv,
       E!TypeOK, ClockAtHeap, UsersApart, FlagIsHeap, Between, E!Kept, E!Clock, E!NoOne
<1>8. CASE E!ClockTake
  BY <1>8 DEF E!ClockTake, E!timerVars, E!clockVars, E!userVars, E!heapVars, TimerInv,
       E!TypeOK, ClockAtHeap, UsersApart, FlagIsHeap, Between, E!Kept, E!Clock, E!NoOne
<1>9. CASE E!ClockSubmit
  BY <1>9 DEF E!ClockSubmit, E!timerVars, E!clockVars, E!userVars, E!heapVars, TimerInv,
       E!TypeOK, ClockAtHeap, UsersApart, FlagIsHeap, Between, E!Kept, E!Clock, E!NoOne
<1>10. ASSUME NEW t \in Timers, E!Stop(t) PROVE FlagIsHeap'
  BY <1>10 DEF E!Stop, E!Kept, E!Adding, E!timerVars, E!clockVars, E!userVars,
       E!heapVars, TimerInv, E!TypeOK, ClockAtHeap, UsersApart, FlagIsHeap, Between,
       E!Clock, E!NoOne
<1>11. ASSUME NEW u \in Users, NEW t \in Timers, E!StartCall(u, t) PROVE FlagIsHeap'
  <2> SUFFICES ASSUME NEW s \in Timers, ~e_strayed', E!Kept(s)'
               PROVE  /\ e_actived'[s] = 1 <=> s \in e_heap' \/ Between(s)'
                      /\ ~(s \in e_heap' /\ Between(s)')
    BY DEF FlagIsHeap
  <2>1. ~e_strayed /\ E!Kept(s)
    BY <1>11 DEF E!StartCall, E!Goto, E!timerVars, E!clockVars, E!userVars, E!heapVars,
         TimerInv, E!TypeOK, E!Kept
  <2>2. /\ e_actived[s] = 1 <=> s \in e_heap \/ Between(s)
        /\ ~(s \in e_heap /\ Between(s))
    BY <2>1 DEF TimerInv, FlagIsHeap
  <2>3. Between(s)' <=> Between(s)
    BY <1>11 DEF E!StartCall, E!Goto, E!timerVars, E!clockVars, E!userVars, E!heapVars,
         TimerInv, E!TypeOK, E!Kept, Between
  <2>4. e_actived' = e_actived /\ e_heap' = e_heap
    BY <1>11 DEF E!StartCall, E!Goto, E!timerVars, E!clockVars, E!userVars, E!heapVars,
         TimerInv, E!TypeOK, E!Kept
  <2>5. QED
    BY <2>2, <2>3, <2>4
<1>12. ASSUME NEW u \in Users, E!StartRemove(u) PROVE FlagIsHeap'
  <2> SUFFICES ASSUME NEW s \in Timers, ~e_strayed', E!Kept(s)'
               PROVE  /\ e_actived'[s] = 1 <=> s \in e_heap' \/ Between(s)'
                      /\ ~(s \in e_heap' /\ Between(s)')
    BY DEF FlagIsHeap
  <2>1. ~e_strayed /\ E!Kept(s)
    BY <1>12 DEF E!StartRemove, E!Goto, E!timerVars, E!clockVars, E!userVars, E!heapVars,
         TimerInv, E!TypeOK, E!Kept, E!Remove
  <2>2. /\ e_actived[s] = 1 <=> s \in e_heap \/ Between(s)
        /\ ~(s \in e_heap /\ Between(s))
    BY <2>1 DEF TimerInv, FlagIsHeap
  <2>3. CASE s # e_on[u]
    <3>1. Between(s)' <=> Between(s)
      BY <1>12, <2>3 DEF E!StartRemove, E!Goto, E!timerVars, E!clockVars, E!userVars,
           E!heapVars, TimerInv, E!TypeOK, E!Kept, Between, E!Remove
    <3>2. e_actived'[s] = e_actived[s] /\ (s \in e_heap' <=> s \in e_heap)
      BY <1>12, <2>3 DEF E!StartRemove, E!Goto, E!timerVars, E!clockVars, E!userVars,
           E!heapVars, TimerInv, E!TypeOK, E!Kept, E!Remove
    <3>3. QED
      BY <2>2, <3>1, <3>2
  <2>4. CASE s = e_on[u]
    <3>1. s \in e_heap
      BY <1>12, <2>4 DEF E!StartRemove, E!Goto, E!timerVars, E!clockVars, E!userVars,
           E!heapVars, TimerInv, E!TypeOK, E!Kept, Between, E!Remove
    <3>2. Between(s)'
      BY <1>12, <2>4 DEF E!StartRemove, E!Goto, E!timerVars, E!clockVars, E!userVars,
           E!heapVars, TimerInv, E!TypeOK, E!Kept, Between, E!Remove
    <3>3. e_actived'[s] = e_actived[s] /\ s \notin e_heap'
      BY <1>12, <2>4 DEF E!StartRemove, E!Goto, E!timerVars, E!clockVars, E!userVars,
           E!heapVars, TimerInv, E!TypeOK, E!Kept, Between, E!Remove
    <3>4. QED
      BY <2>2, <3>1, <3>2, <3>3
  <2>5. QED
    BY <2>3, <2>4
<1>13. ASSUME NEW u \in Users, E!StartClear(u) PROVE FlagIsHeap'
  <2> SUFFICES ASSUME NEW s \in Timers, ~e_strayed', E!Kept(s)'
               PROVE  /\ e_actived'[s] = 1 <=> s \in e_heap' \/ Between(s)'
                      /\ ~(s \in e_heap' /\ Between(s)')
    BY DEF FlagIsHeap
  <2>1. ~e_strayed /\ E!Kept(s)
    BY <1>13 DEF E!StartClear, E!Goto, E!timerVars, E!clockVars, E!userVars, E!heapVars,
         TimerInv, E!TypeOK, E!Kept
  <2>2. /\ e_actived[s] = 1 <=> s \in e_heap \/ Between(s)
        /\ ~(s \in e_heap /\ Between(s))
    BY <2>1 DEF TimerInv, FlagIsHeap
  <2>3. CASE s # e_on[u]
    <3>1. Between(s)' <=> Between(s)
      BY <1>13, <2>3 DEF E!StartClear, E!Goto, E!timerVars, E!clockVars, E!userVars,
           E!heapVars, TimerInv, E!TypeOK, E!Kept, Between
    <3>2. e_actived'[s] = e_actived[s] /\ (s \in e_heap' <=> s \in e_heap)
      BY <1>13, <2>3 DEF E!StartClear, E!Goto, E!timerVars, E!clockVars, E!userVars,
           E!heapVars, TimerInv, E!TypeOK, E!Kept
    <3>3. QED
      BY <2>2, <3>1, <3>2
  <2>4. CASE s = e_on[u]
    <3>1. Between(s)
      BY <1>13, <2>4 DEF E!StartClear, E!Goto, E!timerVars, E!clockVars, E!userVars,
           E!heapVars, TimerInv, E!TypeOK, E!Kept, Between
    <3>2. ~Between(s)'
      BY <1>13, <2>4 DEF E!StartClear, E!Goto, E!timerVars, E!clockVars, E!userVars,
           E!heapVars, TimerInv, E!TypeOK, E!Kept, Between, UsersApart
    <3>3. e_actived'[s] = 0 /\ e_heap' = e_heap
      BY <1>13, <2>4 DEF E!StartClear, E!Goto, E!timerVars, E!clockVars, E!userVars,
           E!heapVars, TimerInv, E!TypeOK, E!Kept, Between
    <3>4. QED
      BY <2>2, <3>1, <3>2, <3>3
  <2>5. QED
    BY <2>3, <2>4
<1>14. ASSUME NEW u \in Users, E!StartClaim(u) PROVE FlagIsHeap'
  <2> SUFFICES ASSUME NEW s \in Timers, ~e_strayed', E!Kept(s)'
               PROVE  /\ e_actived'[s] = 1 <=> s \in e_heap' \/ Between(s)'
                      /\ ~(s \in e_heap' /\ Between(s)')
    BY DEF FlagIsHeap
  <2>1. ~e_strayed /\ E!Kept(s)
    BY <1>14 DEF E!StartClaim, E!Goto, E!timerVars, E!clockVars, E!userVars, E!heapVars,
         TimerInv, E!TypeOK, E!Kept
  <2>2. /\ e_actived[s] = 1 <=> s \in e_heap \/ Between(s)
        /\ ~(s \in e_heap /\ Between(s))
    BY <2>1 DEF TimerInv, FlagIsHeap
  <2>3. CASE s # e_on[u]
    <3>1. Between(s)' <=> Between(s)
      BY <1>14, <2>3 DEF E!StartClaim, E!Goto, E!timerVars, E!clockVars, E!userVars,
           E!heapVars, TimerInv, E!TypeOK, E!Kept, Between
    <3>2. e_actived'[s] = e_actived[s] /\ (s \in e_heap' <=> s \in e_heap)
      BY <1>14, <2>3 DEF E!StartClaim, E!Goto, E!timerVars, E!clockVars, E!userVars,
           E!heapVars, TimerInv, E!TypeOK, E!Kept
    <3>3. QED
      BY <2>2, <3>1, <3>2
  <2>4. CASE s = e_on[u]
    <3>1. CASE e_actived[s] = 0 /\ e_upc'[u] = "set"
      <4>1. Between(s)'
        BY <1>14, <2>4, <3>1 DEF E!StartClaim, E!Goto, E!timerVars, E!clockVars,
             E!userVars, E!heapVars, TimerInv, E!TypeOK, E!Kept, Between
      <4>2. e_actived'[s] = 1 /\ e_heap' = e_heap
        BY <1>14, <2>4, <3>1 DEF E!StartClaim, E!Goto, E!timerVars, E!clockVars,
             E!userVars, E!heapVars, TimerInv, E!TypeOK, E!Kept, Between
      <4>3. QED
        BY <2>2, <3>1, <4>1, <4>2
    <3>2. CASE e_actived' = e_actived /\ e_upc'[u] = "idle"
      <4>1. Between(s)' <=> Between(s)
        BY <1>14, <2>4, <3>2 DEF E!StartClaim, E!Goto, E!timerVars, E!clockVars,
             E!userVars, E!heapVars, TimerInv, E!TypeOK, E!Kept, Between
      <4>2. e_heap' = e_heap
        BY <1>14, <2>4, <3>2 DEF E!StartClaim, E!Goto, E!timerVars, E!clockVars,
             E!userVars, E!heapVars, TimerInv, E!TypeOK, E!Kept, Between
      <4>3. QED
        BY <2>2, <3>2, <4>1, <4>2
    <3>3. QED
      BY <1>14, <2>4, <3>1, <3>2 DEF E!StartClaim, E!Goto, E!timerVars, TimerInv, E!TypeOK
  <2>5. QED
    BY <2>3, <2>4
<1>15. ASSUME NEW u \in Users, E!StartSet(u) PROVE FlagIsHeap'
  <2> SUFFICES ASSUME NEW s \in Timers, ~e_strayed', E!Kept(s)'
               PROVE  /\ e_actived'[s] = 1 <=> s \in e_heap' \/ Between(s)'
                      /\ ~(s \in e_heap' /\ Between(s)')
    BY DEF FlagIsHeap
  <2>1. ~e_strayed /\ E!Kept(s)
    BY <1>15 DEF E!StartSet, E!Goto, E!timerVars, E!clockVars, E!userVars, E!heapVars,
         TimerInv, E!TypeOK, E!Kept
  <2>2. /\ e_actived[s] = 1 <=> s \in e_heap \/ Between(s)
        /\ ~(s \in e_heap /\ Between(s))
    BY <2>1 DEF TimerInv, FlagIsHeap
  <2>3. Between(s)' <=> Between(s)
    BY <1>15 DEF E!StartSet, E!Goto, E!timerVars, E!clockVars, E!userVars, E!heapVars,
         TimerInv, E!TypeOK, E!Kept, Between
  <2>4. e_actived' = e_actived /\ e_heap' = e_heap
    BY <1>15 DEF E!StartSet, E!Goto, E!timerVars, E!clockVars, E!userVars, E!heapVars,
         TimerInv, E!TypeOK, E!Kept
  <2>5. QED
    BY <2>2, <2>3, <2>4
<1>16. ASSUME NEW u \in Users, E!StartAdd(u) PROVE FlagIsHeap'
  <2> SUFFICES ASSUME NEW s \in Timers, ~e_strayed', E!Kept(s)'
               PROVE  /\ e_actived'[s] = 1 <=> s \in e_heap' \/ Between(s)'
                      /\ ~(s \in e_heap' /\ Between(s)')
    BY DEF FlagIsHeap
  <2>1. ~e_strayed /\ E!Kept(s)
    BY <1>16 DEF E!StartAdd, E!Goto, E!timerVars, E!clockVars, E!userVars, E!heapVars,
         TimerInv, E!TypeOK, E!Kept
  <2>2. /\ e_actived[s] = 1 <=> s \in e_heap \/ Between(s)
        /\ ~(s \in e_heap /\ Between(s))
    BY <2>1 DEF TimerInv, FlagIsHeap
  <2>3. CASE s # e_on[u]
    <3>1. Between(s)' <=> Between(s)
      BY <1>16, <2>3 DEF E!StartAdd, E!Goto, E!timerVars, E!clockVars, E!userVars,
           E!heapVars, TimerInv, E!TypeOK, E!Kept, Between
    <3>2. e_actived'[s] = e_actived[s] /\ (s \in e_heap' <=> s \in e_heap)
      BY <1>16, <2>3 DEF E!StartAdd, E!Goto, E!timerVars, E!clockVars, E!userVars,
           E!heapVars, TimerInv, E!TypeOK, E!Kept
    <3>3. QED
      BY <2>2, <3>1, <3>2
  <2>4. CASE s = e_on[u]
    <3>1. Between(s)
      BY <1>16, <2>4 DEF E!StartAdd, E!Goto, E!timerVars, E!clockVars, E!userVars,
           E!heapVars, TimerInv, E!TypeOK, E!Kept, Between
    <3>2. ~Between(s)'
      BY <1>16, <2>4 DEF E!StartAdd, E!Goto, E!timerVars, E!clockVars, E!userVars,
           E!heapVars, TimerInv, E!TypeOK, E!Kept, Between, UsersApart
    <3>3. e_actived'[s] = e_actived[s] /\ s \in e_heap'
      BY <1>16, <2>4 DEF E!StartAdd, E!Goto, E!timerVars, E!clockVars, E!userVars,
           E!heapVars, TimerInv, E!TypeOK, E!Kept, Between
    <3>4. QED
      BY <2>2, <3>1, <3>2, <3>3
  <2>5. QED
    BY <2>3, <2>4
<1>17. ASSUME NEW u \in Users, NEW t \in Timers, E!DestroyCall(u, t) PROVE FlagIsHeap'
  <2> SUFFICES ASSUME NEW s \in Timers, ~e_strayed', E!Kept(s)'
               PROVE  /\ e_actived'[s] = 1 <=> s \in e_heap' \/ Between(s)'
                      /\ ~(s \in e_heap' /\ Between(s)')
    BY DEF FlagIsHeap
  <2>1. ~e_strayed /\ E!Kept(s)
    BY <1>17 DEF E!DestroyCall, E!Goto, E!timerVars, E!clockVars, E!userVars, E!heapVars,
         TimerInv, E!TypeOK, E!Kept
  <2>2. /\ e_actived[s] = 1 <=> s \in e_heap \/ Between(s)
        /\ ~(s \in e_heap /\ Between(s))
    BY <2>1 DEF TimerInv, FlagIsHeap
  <2>3. Between(s)' <=> Between(s)
    BY <1>17 DEF E!DestroyCall, E!Goto, E!timerVars, E!clockVars, E!userVars, E!heapVars,
         TimerInv, E!TypeOK, E!Kept, Between
  <2>4. e_actived' = e_actived /\ e_heap' = e_heap
    BY <1>17 DEF E!DestroyCall, E!Goto, E!timerVars, E!clockVars, E!userVars, E!heapVars,
         TimerInv, E!TypeOK, E!Kept
  <2>5. QED
    BY <2>2, <2>3, <2>4
<1>18. ASSUME NEW u \in Users, E!DestroyRemove(u) PROVE FlagIsHeap'
  <2> SUFFICES ASSUME NEW s \in Timers, ~e_strayed', E!Kept(s)'
               PROVE  /\ e_actived'[s] = 1 <=> s \in e_heap' \/ Between(s)'
                      /\ ~(s \in e_heap' /\ Between(s)')
    BY DEF FlagIsHeap
  <2>1. ~e_strayed /\ E!Kept(s)
    BY <1>18 DEF E!DestroyRemove, E!Goto, E!timerVars, E!clockVars, E!userVars,
         E!heapVars, TimerInv, E!TypeOK, E!Kept, E!Remove
  <2>2. /\ e_actived[s] = 1 <=> s \in e_heap \/ Between(s)
        /\ ~(s \in e_heap /\ Between(s))
    BY <2>1 DEF TimerInv, FlagIsHeap
  <2>3. CASE s # e_on[u]
    <3>1. Between(s)' <=> Between(s)
      BY <1>18, <2>3 DEF E!DestroyRemove, E!Goto, E!timerVars, E!clockVars, E!userVars,
           E!heapVars, TimerInv, E!TypeOK, E!Kept, Between, E!Remove
    <3>2. e_actived'[s] = e_actived[s] /\ (s \in e_heap' <=> s \in e_heap)
      BY <1>18, <2>3 DEF E!DestroyRemove, E!Goto, E!timerVars, E!clockVars, E!userVars,
           E!heapVars, TimerInv, E!TypeOK, E!Kept, E!Remove
    <3>3. QED
      BY <2>2, <3>1, <3>2
  <2>4. CASE s = e_on[u]
    BY <1>18, <2>4 DEF E!DestroyRemove, E!Goto, E!timerVars, E!clockVars, E!userVars,
         E!heapVars, TimerInv, E!TypeOK, E!Kept, Between, E!Remove
  <2>5. QED
    BY <2>3, <2>4
<1>19. ASSUME NEW u \in Users, E!DestroyFree(u) PROVE FlagIsHeap'
  <2> SUFFICES ASSUME NEW s \in Timers, ~e_strayed', E!Kept(s)'
               PROVE  /\ e_actived'[s] = 1 <=> s \in e_heap' \/ Between(s)'
                      /\ ~(s \in e_heap' /\ Between(s)')
    BY DEF FlagIsHeap
  <2>1. ~e_strayed /\ E!Kept(s)
    BY <1>19 DEF E!DestroyFree, E!Goto, E!timerVars, E!clockVars, E!userVars, E!heapVars,
         TimerInv, E!TypeOK, E!Kept
  <2>2. /\ e_actived[s] = 1 <=> s \in e_heap \/ Between(s)
        /\ ~(s \in e_heap /\ Between(s))
    BY <2>1 DEF TimerInv, FlagIsHeap
  <2>3. Between(s)' <=> Between(s)
    BY <1>19 DEF E!DestroyFree, E!Goto, E!timerVars, E!clockVars, E!userVars, E!heapVars,
         TimerInv, E!TypeOK, E!Kept, Between
  <2>4. e_actived' = e_actived /\ e_heap' = e_heap
    BY <1>19 DEF E!DestroyFree, E!Goto, E!timerVars, E!clockVars, E!userVars, E!heapVars,
         TimerInv, E!TypeOK, E!Kept
  <2>5. QED
    BY <2>2, <2>3, <2>4
<1>20. CASE UNCHANGED E!vars
  BY <1>20 DEF E!vars, E!timerVars, E!clockVars, E!userVars, E!heapVars, TimerInv,
       E!TypeOK, ClockAtHeap, UsersApart, FlagIsHeap, Between, E!Kept, E!Clock, E!NoOne
<1>21. QED
  BY <1>1, <1>2, <1>3, <1>4, <1>5, <1>6, <1>7, <1>8, <1>9, <1>10, <1>11, <1>12, <1>13,
       <1>14, <1>15, <1>16, <1>17, <1>18, <1>19, <1>20 DEF E!Next, E!Ticking, E!Using
\* What the batch counts of a timer, as one is put in it and as the first leaves.
LEMMA BatchCount ==
  ASSUME NEW S, NEW b \in Seq(S), NEW s
  PROVE  IsFiniteSet({i \in 1..Len(b) : b[i] = s}) /\ InBatch(b, s) \in Nat
<1>1. IsFiniteSet(1..Len(b)) /\ {i \in 1..Len(b) : b[i] = s} \in SUBSET (1..Len(b))
  BY FS_Interval
<1>2. IsFiniteSet({i \in 1..Len(b) : b[i] = s})
  BY <1>1, FS_Subset
<1>3. QED
  BY <1>2, FS_CardinalityType DEF InBatch

LEMMA BatchAppend ==
  ASSUME NEW S, NEW b \in Seq(S), NEW x \in S, NEW s
  PROVE  InBatch(Append(b, x), s) = InBatch(b, s) + Once(x = s)
<1> DEFINE at == {i \in 1..Len(b) : b[i] = s}
           then == {i \in 1..Len(Append(b, x)) : Append(b, x)[i] = s}
<1>1. IsFiniteSet(at) /\ Len(b) + 1 \notin at /\ Cardinality(at) \in Nat
  <2>1. IsFiniteSet(at)
    BY BatchCount
  <2>2. QED
    BY <2>1, FS_CardinalityType
<1>2. CASE x = s
  <2>1. then = at \cup {Len(b) + 1}
    BY <1>2
  <2>2. Cardinality(then) = Cardinality(at) + 1
    BY <1>1, <2>1, FS_AddElement
  <2>3. QED
    BY <1>2, <2>2 DEF InBatch, Once
<1>3. CASE x # s
  <2>1. then = at
    BY <1>3
  <2>2. InBatch(Append(b, x), s) = InBatch(b, s) /\ InBatch(b, s) \in Nat
    BY <1>1, <2>1 DEF InBatch
  <2>3. QED
    BY <1>3, <2>2 DEF Once
<1>4. QED
  BY <1>2, <1>3

LEMMA BatchTail ==
  ASSUME NEW S, NEW b \in Seq(S), b # <<>>, NEW s
  PROVE  /\ InBatch(b, s) = InBatch(Tail(b), s) + Once(Head(b) = s)
         /\ InBatch(Tail(b), s) \in Nat
<1> DEFINE at == {i \in 1..Len(b) : b[i] = s}
           later == {i \in 2..Len(b) : b[i] = s}
           then == {i \in 1..Len(Tail(b)) : Tail(b)[i] = s}
<1>1. Tail(b) \in Seq(S) /\ Len(Tail(b)) = Len(b) - 1 /\ Len(b) \in Nat /\ Len(b) > 0
  OBVIOUS
<1>2. IsFiniteSet(at) /\ IsFiniteSet(then) /\ InBatch(Tail(b), s) \in Nat
  BY <1>1, BatchCount
<1>3. later \in SUBSET at
  BY <1>1
<1>4. IsFiniteSet(later) /\ Cardinality(later) \in Nat
  BY <1>2, <1>3, FS_Subset, FS_CardinalityType
<1>5. Cardinality(later) = Cardinality(then)
  <2> DEFINE down == [i \in later |-> i - 1]
             up == [i \in then |-> i + 1]
  <2>1. \A i \in 1..Len(Tail(b)) : Tail(b)[i] = b[i + 1]
    BY <1>1
  <2>2. \A i \in later : i - 1 \in then
    BY <1>1, <2>1
  <2>3. \A i \in then : i + 1 \in later
    BY <1>1, <2>1
  <2>4. down \in Injection(later, then)
    BY <2>2 DEF Injection, IsInjective
  <2>5. up \in Injection(then, later)
    BY <2>3 DEF Injection, IsInjective
  <2> HIDE DEF later, then, down, up
  <2>6. Cardinality(later) <= Cardinality(then) /\ Cardinality(then) <= Cardinality(later)
    <3>1. Cardinality(later) <= Cardinality(then)
      BY <1>2, <2>4, FS_Injection
    <3>2. Cardinality(then) <= Cardinality(later)
      BY <1>4, <2>5, FS_Injection
    <3>3. QED
      BY <3>1, <3>2
  <2>7. Cardinality(then) \in Nat
    BY <1>2, FS_CardinalityType
  <2>8. QED
    BY <1>4, <2>6, <2>7
<1>6. CASE Head(b) = s
  <2>1. at = later \cup {1} /\ 1 \notin later
    BY <1>1, <1>6
  <2>2. Cardinality(at) = Cardinality(later) + 1
    BY <1>4, <2>1, FS_AddElement
  <2>3. QED
    BY <1>2, <1>5, <1>6, <2>2 DEF InBatch, Once
<1>7. CASE Head(b) # s
  <2>1. at = later
    BY <1>1, <1>7
  <2>2. InBatch(b, s) = InBatch(Tail(b), s)
    BY <1>5, <2>1 DEF InBatch
  <2>3. QED
    BY <1>2, <1>7, <2>2 DEF Once
<1>8. QED
  BY <1>6, <1>7

\* A start is counted when it claims the flag; then it goes from the user to the
\* heap, to the batch, to the pool, or is lost on the way.
LEMMA StartsStep == TimerInv /\ [E!Next]_(E!vars) => StartsCounted'
<1> SUFFICES ASSUME TimerInv, [E!Next]_(E!vars), NEW s \in Timers
             PROVE  e_fired'[s] + InBatch(e_batch', s) + Once(s \in e_heap')
                      + Once(Starting(s)') <= e_started'[s]
  BY DEF StartsCounted
<1>a. e_fired[s] + InBatch(e_batch, s) + Once(s \in e_heap) + Once(Starting(s))
        <= e_started[s]
  BY DEF TimerInv, StartsCounted
<1>b. e_fired[s] \in Nat /\ InBatch(e_batch, s) \in Nat /\ e_started[s] \in Nat
  <2>1. e_batch \in Seq(Timers)
    BY DEF TimerInv, E!TypeOK
  <2>2. InBatch(e_batch, s) \in Nat
    BY <2>1, BatchCount
  <2>3. QED
    BY <2>2 DEF TimerInv, E!TypeOK
<1>c. ASSUME e_fired' = e_fired, e_batch' = e_batch, e_started' = e_started,
             e_heap' \subseteq e_heap, Starting(s)' => Starting(s)
      PROVE  e_fired'[s] + InBatch(e_batch', s) + Once(s \in e_heap')
               + Once(Starting(s)') <= e_started'[s]
  BY <1>a, <1>b, <1>c DEF Once
<1>1. CASE E!Tick
  <2>1. e_fired' = e_fired /\ e_batch' = e_batch /\ e_started' = e_started
    BY <1>1 DEF E!Tick, E!timerVars, E!clockVars, E!userVars, E!heapVars
  <2>2. e_heap' \subseteq e_heap
    BY <1>1 DEF E!Tick, E!timerVars, E!clockVars, E!userVars, E!heapVars
  <2>3. Starting(s)' => Starting(s)
    BY <1>1 DEF E!Tick, E!timerVars, E!clockVars, E!userVars, E!heapVars, Starting,
         TimerInv, E!TypeOK
  <2>4. QED
    BY <2>1, <2>2, <2>3, <1>c
<1>2. CASE E!ClockSet
  <2>1. e_fired' = e_fired /\ e_batch' = e_batch /\ e_started' = e_started
    BY <1>2 DEF E!ClockSet, E!timerVars, E!clockVars, E!userVars, E!heapVars
  <2>2. e_heap' \subseteq e_heap
    BY <1>2 DEF E!ClockSet, E!timerVars, E!clockVars, E!userVars, E!heapVars
  <2>3. Starting(s)' => Starting(s)
    BY <1>2 DEF E!ClockSet, E!timerVars, E!clockVars, E!userVars, E!heapVars, Starting,
         TimerInv, E!TypeOK
  <2>4. QED
    BY <2>1, <2>2, <2>3, <1>c
<1>3. CASE E!ClockLock
  <2>1. e_fired' = e_fired /\ e_batch' = e_batch /\ e_started' = e_started
    BY <1>3 DEF E!ClockLock, E!timerVars, E!clockVars, E!userVars, E!heapVars
  <2>2. e_heap' \subseteq e_heap
    BY <1>3 DEF E!ClockLock, E!timerVars, E!clockVars, E!userVars, E!heapVars
  <2>3. Starting(s)' => Starting(s)
    BY <1>3 DEF E!ClockLock, E!timerVars, E!clockVars, E!userVars, E!heapVars, Starting,
         TimerInv, E!TypeOK
  <2>4. QED
    BY <2>1, <2>2, <2>3, <1>c
<1>4. CASE E!ClockLook
  <2>1. e_fired' = e_fired /\ e_batch' = e_batch /\ e_started' = e_started
    BY <1>4 DEF E!ClockLook, E!timerVars, E!clockVars, E!userVars, E!heapVars
  <2>2. e_heap' \subseteq e_heap
    BY <1>4 DEF E!ClockLook, E!timerVars, E!clockVars, E!userVars, E!heapVars
  <2>3. Starting(s)' => Starting(s)
    BY <1>4 DEF E!ClockLook, E!timerVars, E!clockVars, E!userVars, E!heapVars, Starting,
         TimerInv, E!TypeOK
  <2>4. QED
    BY <2>1, <2>2, <2>3, <1>c
<1>5. CASE E!ClockUnlock
  <2>1. e_fired' = e_fired /\ e_batch' = e_batch /\ e_started' = e_started
    BY <1>5 DEF E!ClockUnlock, E!timerVars, E!clockVars, E!userVars, E!heapVars
  <2>2. e_heap' \subseteq e_heap
    BY <1>5 DEF E!ClockUnlock, E!timerVars, E!clockVars, E!userVars, E!heapVars
  <2>3. Starting(s)' => Starting(s)
    BY <1>5 DEF E!ClockUnlock, E!timerVars, E!clockVars, E!userVars, E!heapVars,
         Starting, TimerInv, E!TypeOK
  <2>4. QED
    BY <2>1, <2>2, <2>3, <1>c
<1>6. CASE E!ClockDrop
  <2>1. e_fired' = e_fired /\ e_batch' = e_batch /\ e_started' = e_started
    BY <1>6 DEF E!ClockDrop, E!timerVars, E!clockVars, E!userVars, E!heapVars
  <2>2. e_heap' \subseteq e_heap
    BY <1>6 DEF E!ClockDrop, E!timerVars, E!clockVars, E!userVars, E!heapVars
  <2>3. Starting(s)' => Starting(s)
    BY <1>6 DEF E!ClockDrop, E!timerVars, E!clockVars, E!userVars, E!heapVars, Starting,
         TimerInv, E!TypeOK
  <2>4. QED
    BY <2>1, <2>2, <2>3, <1>c
<1>7. CASE E!ClockReset
  <2>1. e_fired' = e_fired /\ e_batch' = e_batch /\ e_started' = e_started
    BY <1>7 DEF E!ClockReset, E!timerVars, E!clockVars, E!userVars, E!heapVars
  <2>2. e_heap' \subseteq e_heap
    BY <1>7 DEF E!ClockReset, E!timerVars, E!clockVars, E!userVars, E!heapVars
  <2>3. Starting(s)' => Starting(s)
    BY <1>7 DEF E!ClockReset, E!timerVars, E!clockVars, E!userVars, E!heapVars, Starting,
         TimerInv, E!TypeOK
  <2>4. QED
    BY <2>1, <2>2, <2>3, <1>c
<1>8. CASE E!ClockTake
  <2>1. e_top \in e_heap /\ e_heap' = e_heap \ {e_top} /\ e_batch' = Append(e_batch, e_top)
        /\ e_fired' = e_fired /\ e_started' = e_started
    BY <1>8 DEF E!ClockTake, E!timerVars, E!clockVars, E!userVars, E!heapVars, TimerInv,
         ClockAtHeap
  <2>2. Starting(s)' <=> Starting(s)
    BY <1>8 DEF E!ClockTake, E!userVars, Starting
  <2>3. InBatch(e_batch', s) = InBatch(e_batch, s) + Once(e_top = s)
    BY <2>1, BatchAppend DEF TimerInv, E!TypeOK
  <2>4. Once(e_top = s) + Once(s \in e_heap') = Once(s \in e_heap)
    BY <2>1 DEF Once
  <2>5. QED
    BY <2>1, <2>2, <2>3, <2>4, <1>a, <1>b DEF Once
<1>9. CASE E!ClockSubmit
  <2>1. e_heap' = e_heap /\ e_started' = e_started
    BY <1>9 DEF E!ClockSubmit, E!timerVars, E!clockVars, E!userVars, E!heapVars
  <2>2. Starting(s)' <=> Starting(s)
    BY <1>9 DEF E!ClockSubmit, E!userVars, Starting
  <2>3. CASE e_batch' = e_batch /\ e_fired' = e_fired
    BY <2>1, <2>2, <2>3, <1>a, <1>b DEF Once
  <2>4. CASE /\ e_batch # <<>> /\ e_batch' = Tail(e_batch)
             /\ e_fired' = [e_fired EXCEPT ![Head(e_batch)] = @ + 1]
    <3>1. InBatch(e_batch, s) = InBatch(e_batch', s) + Once(Head(e_batch) = s)
          /\ InBatch(e_batch', s) \in Nat
      BY <2>4, BatchTail DEF TimerInv, E!TypeOK
    <3>2. e_fired'[s] = e_fired[s] + Once(Head(e_batch) = s)
      BY <2>4, <1>b DEF Once, TimerInv, E!TypeOK
    <3>3. QED
      BY <2>1, <2>2, <3>1, <3>2, <1>a, <1>b DEF Once
  <2>5. QED
    BY <1>9, <2>3, <2>4 DEF E!ClockSubmit
<1>10. ASSUME NEW t \in Timers, E!Stop(t)
      PROVE  e_fired'[s] + InBatch(e_batch', s) + Once(s \in e_heap')
               + Once(Starting(s)') <= e_started'[s]
  <2>1. e_fired' = e_fired /\ e_batch' = e_batch /\ e_started' = e_started
    BY <1>10 DEF E!Stop, E!timerVars, E!clockVars, E!userVars, E!heapVars
  <2>2. e_heap' \subseteq e_heap
    BY <1>10 DEF E!Stop, E!timerVars, E!clockVars, E!userVars, E!heapVars
  <2>3. Starting(s)' => Starting(s)
    BY <1>10 DEF E!Stop, E!timerVars, E!clockVars, E!userVars, E!heapVars, Starting,
         TimerInv, E!TypeOK
  <2>4. QED
    BY <2>1, <2>2, <2>3, <1>c
<1>11. ASSUME NEW u \in Users, NEW t \in Timers, E!StartCall(u, t)
      PROVE  e_fired'[s] + InBatch(e_batch', s) + Once(s \in e_heap')
               + Once(Starting(s)') <= e_started'[s]
  <2>1. e_fired' = e_fired /\ e_batch' = e_batch /\ e_started' = e_started
    BY <1>11 DEF E!StartCall, E!Kept, E!Quiet, E!Goto, E!timerVars, E!clockVars,
         E!userVars, E!heapVars
  <2>2. e_heap' \subseteq e_heap
    BY <1>11 DEF E!StartCall, E!Kept, E!Quiet, E!Goto, E!timerVars, E!clockVars,
         E!userVars, E!heapVars
  <2>3. Starting(s)' => Starting(s)
    BY <1>11 DEF E!StartCall, E!Kept, E!Quiet, E!Goto, E!timerVars, E!clockVars,
         E!userVars, E!heapVars, Starting, TimerInv, E!TypeOK
  <2>4. QED
    BY <2>1, <2>2, <2>3, <1>c
<1>12. ASSUME NEW u \in Users, E!StartRemove(u)
      PROVE  e_fired'[s] + InBatch(e_batch', s) + Once(s \in e_heap')
               + Once(Starting(s)') <= e_started'[s]
  <2>1. e_fired' = e_fired /\ e_batch' = e_batch /\ e_started' = e_started
    BY <1>12 DEF E!StartRemove, E!Remove, E!Goto, E!timerVars, E!clockVars, E!userVars,
         E!heapVars
  <2>2. e_heap' \subseteq e_heap
    BY <1>12 DEF E!StartRemove, E!Remove, E!Goto, E!timerVars, E!clockVars, E!userVars,
         E!heapVars
  <2>3. Starting(s)' => Starting(s)
    BY <1>12 DEF E!StartRemove, E!Remove, E!Goto, E!timerVars, E!clockVars, E!userVars,
         E!heapVars, Starting, TimerInv, E!TypeOK
  <2>4. QED
    BY <2>1, <2>2, <2>3, <1>c
<1>13. ASSUME NEW u \in Users, E!StartClear(u)
      PROVE  e_fired'[s] + InBatch(e_batch', s) + Once(s \in e_heap')
               + Once(Starting(s)') <= e_started'[s]
  <2>1. e_fired' = e_fired /\ e_batch' = e_batch /\ e_started' = e_started
    BY <1>13 DEF E!StartClear, E!Goto, E!timerVars, E!clockVars, E!userVars, E!heapVars
  <2>2. e_heap' \subseteq e_heap
    BY <1>13 DEF E!StartClear, E!Goto, E!timerVars, E!clockVars, E!userVars, E!heapVars
  <2>3. Starting(s)' => Starting(s)
    BY <1>13 DEF E!StartClear, E!Goto, E!timerVars, E!clockVars, E!userVars, E!heapVars,
         Starting, TimerInv, E!TypeOK
  <2>4. QED
    BY <2>1, <2>2, <2>3, <1>c
<1>14. ASSUME NEW u \in Users, E!StartClaim(u)
      PROVE  e_fired'[s] + InBatch(e_batch', s) + Once(s \in e_heap')
               + Once(Starting(s)') <= e_started'[s]
  <2>1. e_heap' = e_heap /\ e_batch' = e_batch /\ e_fired' = e_fired /\ e_on' = e_on
    BY <1>14 DEF E!StartClaim, E!timerVars, E!clockVars, E!userVars, E!heapVars
  <2>2. CASE e_upc'[u] = "idle" /\ e_started' = e_started
    <3>1. Starting(s)' => Starting(s)
      BY <1>14, <2>1, <2>2 DEF E!StartClaim, E!Goto, Starting, TimerInv, E!TypeOK
    <3>2. QED
      BY <2>1, <2>2, <3>1, <1>a, <1>b DEF Once
  <2>3. CASE e_upc'[u] = "set" /\ e_started' = [e_started EXCEPT ![e_on[u]] = @ + 1]
    <3>1. CASE s = e_on[u]
      <4>1. e_started'[s] = e_started[s] + 1
        BY <2>3, <3>1 DEF TimerInv, E!TypeOK
      <4>2. ~Starting(s)
        BY <1>14, <3>1 DEF E!StartClaim, E!Goto, Starting, TimerInv, UsersApart
      <4>3. QED
        BY <2>1, <4>1, <4>2, <1>a, <1>b DEF Once
    <3>2. CASE s # e_on[u]
      <4>1. e_started'[s] = e_started[s]
        BY <2>3, <3>2 DEF TimerInv, E!TypeOK
      <4>2. Starting(s)' => Starting(s)
        BY <1>14, <2>1, <3>2 DEF E!StartClaim, E!Goto, Starting, TimerInv, E!TypeOK
      <4>3. QED
        BY <2>1, <4>1, <4>2, <1>a, <1>b DEF Once
    <3>3. QED
      BY <3>1, <3>2
  <2>4. QED
    BY <1>14, <2>2, <2>3 DEF E!StartClaim, E!Goto, TimerInv, E!TypeOK
<1>15. ASSUME NEW u \in Users, E!StartSet(u)
      PROVE  e_fired'[s] + InBatch(e_batch', s) + Once(s \in e_heap')
               + Once(Starting(s)') <= e_started'[s]
  <2>1. e_fired' = e_fired /\ e_batch' = e_batch /\ e_started' = e_started
    BY <1>15 DEF E!StartSet, E!Goto, E!timerVars, E!clockVars, E!userVars, E!heapVars
  <2>2. e_heap' \subseteq e_heap
    BY <1>15 DEF E!StartSet, E!Goto, E!timerVars, E!clockVars, E!userVars, E!heapVars
  <2>3. Starting(s)' => Starting(s)
    BY <1>15 DEF E!StartSet, E!Goto, E!timerVars, E!clockVars, E!userVars, E!heapVars,
         Starting, TimerInv, E!TypeOK
  <2>4. QED
    BY <2>1, <2>2, <2>3, <1>c
<1>16. ASSUME NEW u \in Users, E!StartAdd(u)
      PROVE  e_fired'[s] + InBatch(e_batch', s) + Once(s \in e_heap')
               + Once(Starting(s)') <= e_started'[s]
  <2>1. /\ e_heap' = e_heap \cup {e_on[u]} /\ e_batch' = e_batch
        /\ e_fired' = e_fired /\ e_on' = e_on /\ e_started' = e_started
    BY <1>16 DEF E!StartAdd, E!timerVars, E!clockVars, E!userVars, E!heapVars
  <2>2. CASE s = e_on[u]
    <3>1. Starting(s)
      BY <1>16, <2>2 DEF E!StartAdd, E!Goto, Starting
    <3>2. ~Starting(s)'
      BY <1>16, <2>1, <2>2 DEF E!StartAdd, E!Goto, Starting, TimerInv, E!TypeOK, UsersApart
    <3>3. QED
      BY <2>1, <3>1, <3>2, <1>a, <1>b DEF Once
  <2>3. CASE s # e_on[u]
    <3>1. Starting(s)' => Starting(s)
      BY <1>16, <2>1, <2>3 DEF E!StartAdd, E!Goto, Starting, TimerInv, E!TypeOK
    <3>2. QED
      BY <2>1, <2>3, <3>1, <1>a, <1>b DEF Once
  <2>4. QED
    BY <2>2, <2>3
<1>17. ASSUME NEW u \in Users, NEW t \in Timers, E!DestroyCall(u, t)
      PROVE  e_fired'[s] + InBatch(e_batch', s) + Once(s \in e_heap')
               + Once(Starting(s)') <= e_started'[s]
  <2>1. e_fired' = e_fired /\ e_batch' = e_batch /\ e_started' = e_started
    BY <1>17 DEF E!DestroyCall, E!Kept, E!Quiet, E!Goto, E!timerVars, E!clockVars,
         E!userVars, E!heapVars
  <2>2. e_heap' \subseteq e_heap
    BY <1>17 DEF E!DestroyCall, E!Kept, E!Quiet, E!Goto, E!timerVars, E!clockVars,
         E!userVars, E!heapVars
  <2>3. Starting(s)' => Starting(s)
    BY <1>17 DEF E!DestroyCall, E!Kept, E!Quiet, E!Goto, E!timerVars, E!clockVars,
         E!userVars, E!heapVars, Starting, TimerInv, E!TypeOK
  <2>4. QED
    BY <2>1, <2>2, <2>3, <1>c
<1>18. ASSUME NEW u \in Users, E!DestroyRemove(u)
      PROVE  e_fired'[s] + InBatch(e_batch', s) + Once(s \in e_heap')
               + Once(Starting(s)') <= e_started'[s]
  <2>1. e_fired' = e_fired /\ e_batch' = e_batch /\ e_started' = e_started
    BY <1>18 DEF E!DestroyRemove, E!Remove, E!Goto, E!timerVars, E!clockVars, E!userVars,
         E!heapVars
  <2>2. e_heap' \subseteq e_heap
    BY <1>18 DEF E!DestroyRemove, E!Remove, E!Goto, E!timerVars, E!clockVars, E!userVars,
         E!heapVars
  <2>3. Starting(s)' => Starting(s)
    BY <1>18 DEF E!DestroyRemove, E!Remove, E!Goto, E!timerVars, E!clockVars, E!userVars,
         E!heapVars, Starting, TimerInv, E!TypeOK
  <2>4. QED
    BY <2>1, <2>2, <2>3, <1>c
<1>19. ASSUME NEW u \in Users, E!DestroyFree(u)
      PROVE  e_fired'[s] + InBatch(e_batch', s) + Once(s \in e_heap')
               + Once(Starting(s)') <= e_started'[s]
  <2>1. e_fired' = e_fired /\ e_batch' = e_batch /\ e_started' = e_started
    BY <1>19 DEF E!DestroyFree, E!Goto, E!timerVars, E!clockVars, E!userVars, E!heapVars
  <2>2. e_heap' \subseteq e_heap
    BY <1>19 DEF E!DestroyFree, E!Goto, E!timerVars, E!clockVars, E!userVars, E!heapVars
  <2>3. Starting(s)' => Starting(s)
    BY <1>19 DEF E!DestroyFree, E!Goto, E!timerVars, E!clockVars, E!userVars, E!heapVars,
         Starting, TimerInv, E!TypeOK
  <2>4. QED
    BY <2>1, <2>2, <2>3, <1>c
<1>20. CASE UNCHANGED E!vars
  BY <1>20, <1>c DEF E!vars, E!timerVars, E!clockVars, E!userVars, E!heapVars, Starting
<1>21. QED
  BY <1>1, <1>2, <1>3, <1>4, <1>5, <1>6, <1>7, <1>8, <1>9, <1>10, <1>11, <1>12, <1>13,
       <1>14, <1>15, <1>16, <1>17, <1>18, <1>19, <1>20 DEF E!Next, E!Ticking, E!Using

-----------------------------------------------------------------------------
LEMMA TimerInitially == E!Init => TimerInv
<1> SUFFICES ASSUME E!Init PROVE TimerInv
  OBVIOUS
<1>1. E!TypeOK
  <2>1. /\ e_batch \in Seq(Timers) /\ Len(e_batch) <= Batch
        /\ e_started \in [Timers -> 0..MaxStarts]
    BY TimerConstants DEF E!Init
  <2>2. e_expired \in [Timers -> Nat]
    BY TimerConstants DEF E!Init
  <2>3. QED
    BY <2>1, <2>2 DEF E!Init, E!TypeOK
<1>2. ClockAtHeap /\ UsersApart
  BY DEF E!Init, ClockAtHeap, UsersApart, E!NoOne, E!Clock
<1>3. FlagIsHeap
  BY DEF E!Init, FlagIsHeap, Between
<1>4. StartsCounted
  <2> SUFFICES ASSUME NEW s \in Timers
               PROVE  e_fired[s] + InBatch(e_batch, s) + Once(s \in e_heap)
                        + Once(Starting(s)) <= e_started[s]
    BY DEF StartsCounted
  <2>1. {i \in 1..Len(e_batch) : e_batch[i] = s} = {}
    BY DEF E!Init
  <2>2. InBatch(e_batch, s) = 0
    BY <2>1, FS_EmptySet DEF InBatch
  <2>3. ~Starting(s) /\ e_fired[s] = 0 /\ e_started[s] = 0 /\ s \notin e_heap
    BY DEF E!Init, Starting
  <2>4. QED
    BY <2>2, <2>3 DEF Once
<1>5. QED
  BY <1>1, <1>2, <1>3, <1>4 DEF TimerInv

LEMMA TimerInvKept == TimerInv => TimersKept
<1> SUFFICES ASSUME TimerInv PROVE TimersKept
  OBVIOUS
<1>1. E!ActiveInHeap
  BY DEF TimerInv, FlagIsHeap, Between, E!ActiveInHeap
<1>2. ASSUME NEW s \in Timers
      PROVE  e_fired[s] + E!Cardinality({i \in 1..Len(e_batch) : e_batch[i] = s})
               + (IF s \in e_heap THEN 1 ELSE 0) <= e_started[s]
  <2>1. E!Cardinality({i \in 1..Len(e_batch) : e_batch[i] = s}) = InBatch(e_batch, s)
    BY DEF InBatch, Cardinality, E!Cardinality, IsFiniteSet, E!IsFiniteSet
  <2>2. e_fired[s] \in Nat /\ InBatch(e_batch, s) \in Nat /\ e_started[s] \in Nat
    <3>1. e_batch \in Seq(Timers)
      BY DEF TimerInv, E!TypeOK
    <3>2. InBatch(e_batch, s) \in Nat
      BY <3>1, BatchCount
    <3>3. QED
      BY <3>2 DEF TimerInv, E!TypeOK
  <2>3. e_fired[s] + InBatch(e_batch, s) + Once(s \in e_heap) + Once(Starting(s))
          <= e_started[s]
    BY DEF TimerInv, StartsCounted
  <2>4. QED
    BY <2>1, <2>2, <2>3 DEF Once
<1>3. E!FiredOncePerStart
  BY <1>2 DEF E!FiredOncePerStart
<1>4. QED
  BY <1>1, <1>3 DEF TimerInv, TimersKept

\* lib/event: however the clock and the users of the timers interleave, a timer's
\* flag says whether it is in the heap, until a stale one has the wrong timer
\* deleted; and, even then, one start leads to one callback at most.
THEOREM TimersKeptAlways == E!Spec => []TimersKept
<1>1. E!Init => TimerInv
  BY TimerInitially
<1>2. TimerInv /\ [E!Next]_(E!vars) => TimerInv'
  BY TimerTypeStep, ClockStep, ApartStep, FlagStep, StartsStep DEF TimerInv
<1>3. TimerInv => TimersKept
  BY TimerInvKept
<1>4. QED
  BY <1>1, <1>2, <1>3, PTL DEF E!Spec
=============================================================================
